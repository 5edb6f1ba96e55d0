# A TLA+ verification of nucleo-go

nucleo-go is a microservice framework.  Every process runs a *broker* (a
node); brokers find each other over a transport (memory, AMQP, NATS, STAN,
Kafka), tell each other which actions and events their services offer, route
calls and events to them, and watch each other's heartbeats.  This directory
models the parts of the framework in which goroutines, timers, messages and
catalogs of several nodes meet, checks them with TLC on small instances, and
proves every safety property that a passing run checks with TLAPS, for
instances of any size.
Source paths below are relative to `src/`.

## 1. The system

| Component | State | Operations | Interacts with |
|---|---|---|---|
| Pending requests, `transit/pubsub/pubsub.go` | `pendingRequests`, `pendingRequestsMutex`, a timer and an unbuffered channel per request | `Request`, `requestTimedOut`, `reponseHandler`, `onNodeDisconnected`, `requestHandler`, `Connect`, `Disconnect` | called by the registry, answered by the transport, told of lost nodes by the local bus |
| Discovery, same file | `knownNeighbours`, `brokerStarted`, `isConnected` | `DiscoverNodes`, `waitForNeighbours`, `discoverHandler`, `broadcastNodeInfo`, ping and pong | transport, local bus, registry |
| Registry, `registry/registry.go` | `stopping`, `nodeReceivedMutex`, the catalogs | INFO, HEARTBEAT and DISCONNECT handlers, expiry loop, `LoadBalanceCall`, events | catalogs, transit, local bus, broker |
| Catalogs, `registry/*-catalog.go`, `node.go` | maps of nodes, services, actions, events; counters of services by name | add, update, remove, look up | registry only |
| Local bus, `emitter/emitter.go` | listeners by event | `On`, `Once`, `RemoveListener`, emit | everybody |
| Broker, `broker/main.go` | `starting`, `started`, services | start, stop, publish, wait for services, `Call`, `MCall` | registry, services, middleware |
| Strategies, `strategy/` | the round robin counter | `Select` | action and event catalogs |
| Middleware, metrics, validators | chains of handlers, sample counter | `CallHandlers`, `next` | broker, registry |
| Services, `service/service.go` | actions, events, settings | mixins, service from map | broker, registry |
| Transports, `transit/*/` | connection, subscribers, bindings | connect, subscribe, publish, disconnect | pubsub, client libraries |
| Payload, serializer, context, configuration, `$node` service | values | conversions | everybody |

Three kinds of behaviour make this code hard to test.

* *Many goroutines, few locks.*  A response, a timer and the loss of a node
  may meet the same request; every message of the registry is handled by a
  goroutine of its own, while the catalogs are changed by an unlocked load and
  store; listeners are visited from snapshots.
* *An unreliable cluster.*  Messages are lost, repeated and reordered,
  connections recover, nodes crash silently and come back under their name.
* *Waiting.*  Channels are unbuffered, some are written with a mutex held, and
  brokers wait for neighbours, dependencies and answers.

What makes the components correct: each call ends, exactly once and for a
reason; the registry routes to the nodes that live and to no others; an event
reaches each group that listens, and only those; a listener runs as often as
it was promised; brokers start and stop without waiting for ever.  `hazards`
in `PROJECT.json` lists, line by line, what endangers this, and the properties
that watch it.

## 2. The modules

### Requests, RemoteCall, RequestsProofs: the pending requests

`Requests` follows one broker's remote calls.  A caller's goroutine moves
through `stage`: `Invoke` (invokeRemoteAction starts), `Register` (the locked
part of Request), `Publish`, `Receive` (it waits on the channel) and `Finish`
(the result, or "stopping").  The goroutines that answer first take the mutex
- `RequestTimedOut`, `ReponseHandler`, `OnNodeDisconnected` - and then hold it
through the sends: `mutex` is what is being sent, `sending` to whom.  `Deliver`
is the meeting of sender and receiver on the unbuffered channel, followed by
the removal of the request; `Unlock` ends it.  The split matters: between
taking the mutex and each send, everything else may move.  The network is two
sets, `sent` and `answers`: whatever was published can arrive at any time, any
number of times, or never.  `link` is the transport: `recovering` keeps
publishers waiting (AMQP), `closed` makes them panic or drop the message
(`PublishPanics`).  A panic is not recovered by anything, so it ends the
process (`crashed`).

`RemoteCall` is what callers are promised, without the machinery: a call is
settled at most once, and for a cause.  `ImplementsRemoteCall` states the
refinement; the mapping is at the end of `Requests`.

Not modelled here: the choice of the node (`target` is arbitrary), local
calls, middleware, and two contexts with the same ID.

### Registry, RegistryProofs: what one broker knows of the others

`node`, `services` and `entries` are the catalogs, seen for one service per
node with one action and one event; `stale` stands for the age of the last
heartbeat.  Each handler is a sequence of steps of a goroutine (`info`,
`disc`, `beat`), cut where another goroutine can act: INFO marks the node,
looks at the service catalog, then loads and stores each catalog of endpoints;
disconnectNode removes from the service catalog, then loads and stores, then
marks the node.  `disc` has two workers, for DISCONNECT messages and for the
loop that checks the heartbeats; `expired` is the list that loop has yet to
visit.  INFO handlers exclude one another by nodeReceivedMutex: `info` is one.
Remote nodes boot, crash, stop, restart, send heartbeats and answer DISCOVER;
messages of different kinds, and INFOs of one node, have no order.

Several services per node, services that change while their node runs, and the
removal of offline nodes (which never happens: only available nodes expire,
and those are disconnected much earlier) are left out here; the first
two are ServiceCatalog's subject.

$node events are handled in goroutines of their own, too (`news`);
`neighbours` is what they make of the transit's knownNeighbours.

### Discovery, DiscoveryProofs: starting brokers

Brokers run Start (`phase`), emit $broker.started once, and publish
services.  `EmitBrokerStarted` is the moment the bus takes its snapshot of the
listeners: `OnBrokerStarted` and `SetBrokerStarted` are the goroutine of the
transit, `svc` and `asked` follow the goroutines that found the broker not
started and register for the event, in time (`deferred`) or too late.
`messages` is the transport, which delivers to whoever has connected, in any
order; a DISCOVER answered twice, or an INFO sent twice before it is received,
is one message.  `AddLocalService` stands for the services of Start and for
PublishServices at any moment.  Brokers do not stop, and the arithmetic of
expectedNeighbours is left out: waitForNeighbours ends when it likes.

### EventRouting, EventsProofs: how an event finds its handlers

`list` is the catalog of one event.  `Find` is the lookup of the code as a
function from groups to results, each under the position of the entry it was
taken for (`Matching`), including what Go 1.19 does to the address of a loop
variable (`PointersTo`).  `LoadBalanceEvent` and `BroadcastEvent` run
the local results and publish the others; `HandleRemoteEvent` repeats the
lookup on the node that receives the event, for its own entries.  The catalog
changes only between events, and all nodes have the same: the module is about
the two lookups, not about stale catalogs, which are Registry's subject.

### Emitter, EventsProofs: the local bus

The listeners of one event.  Emitting takes a snapshot and visits it; `Without`
is the removal by code pointer, which all closures of one function literal
share (`CodeOf`).  As in the program, closures that share their code are
registered with Once only (`OnceOnly`: pubsub.go:610, registry.go:561).
The run has one emitting goroutine, as Start is for $broker.started: with two,
both would run a one-time listener that is in their snapshots.  `EventsProofs`
holds the proofs about both modules, which share the lemmas on sequences.

### ServiceSchema, ServiceCatalog, NodeService, ServiceCatalogProofs: services, and what is known of them

`ServiceSchema` holds the pure part of service.go: a schema with its mixins
(`ApplyMixins`, one operator for each of the five merges, which differ more
than they should), an object turned into a schema, `FromSchema`, the map a
node publishes (`AsMap`) and what another node makes of it
(`CreateServiceFromMap`, `UpdateFromMap`).  A hook or a handler is the name of
whoever wrote it, so that a chain of hooks is the sequence of its owners.

`ServiceCatalog` is one broker's catalogs of services, actions and events,
filled by its own services (`AddLocalService`) and by the INFO of other nodes
(`RemoteNodeInfoReceived`), which publish, change, drop and forget services:
`Restart` happens before anybody missed the node, so that the next INFO is
compared with the services of its previous life.  Handlers run one at a time;
overlapping ones are Registry's subject.  The catalogs of endpoints are bags:
the order of a list only matters to Calls and EventRouting.  What the code does
in a loop over the actions or events of a service (`AddEntries`,
`RemoveEntries`, `AddActionMap`, the counters of `RemoveServicesByNode`) is
written in one step, as the passes of those loops do not depend on one another;
the loops whose passes do, over the mixins of a schema, over the actions of a
mixin and over the services of an INFO, are recursive functions.

`NodeService` adds the lists of `$node`, which change nothing.

### Lifecycle, LifecycleProofs: starting and stopping a broker

`pc` says where each goroutine is: `Main` calls Start and Stop, publishers call
PublishServices and WaitFor.  Nothing guards `started`, `starting` and the list
of services, so every read and every write of them is a step, `append` two
(`AppendLoad`, `AppendStore`).  `k` in `1..MaxStarts` is the `$node` service
that the k-th Start creates.  `overlap` and `raced` are history: the services
published while Main was busy, and those lost to one of two narrow races.

### Calls, Payloads, CallsProofs: calls from end to end

A `frame` is a call that somebody waits for: a root call, a call in a handler,
or a REQ being served, under the id `[root, label, depth]` that the context
gives it.  It passes `select` (local entry, pinned node, or a strategy, the
shared counter of which is read and written in three steps), the chain of
`before` hooks, the handler or a request, the `after` hooks.  Chains outlive
their call: a handler that calls `next` twice goes on beside it.  With `Serial`
the consumer of a node takes a REQ only when it has served the one before (amqp,
nats, stan and kafka).  `Payloads` says what becomes of a value in a payload and
in JSON, and which parameters a handler takes.

### Transport, its kinds, Transports, TransportsProofs

`Transport` is what the transit expects of any transporter: it is connected
and disconnected once, and hands messages over in between.  `AmqpTransport`
has the goroutine of Connect (`loop`) beside the transit, with the flags both
read; `KafkaTransport` the two goroutines of each subscription and their
meetings with Disconnect; `MemoryTransport` two transporters on one memory;
`NatsTransport` nats and stan, and a library that gives up.  `Transports` is
the transit's choice between them, and `ImplementsTransport` the refinement:
`status` and `taken` are variables of every kind, the machinery is each kind's
own.  `broken` marks what is promised to nobody: a Disconnect that returned an
error (amqp, stan), and one that stored a copy of the memory's handlers beside
another (memory.go:79).

## 3. The runs

| Run | Instance | Shows |
|---|---|---|
| `requests_safety` | 2 calls, 2 nodes, panicking transport | The table, the timers, the mutex and the channels stay consistent; no answer without a cause; the refinement |
| `requests_liveness` | 2 calls, 1 node | Every call ends, and the mutex is released again and again |
| `registry_sequential` | 2 nodes, both catalogs, one handler at a time | Routes lead to live nodes only, and to all of them, whatever the order of messages |
| `registry_concurrent` | 1 node, one catalog, two handlers at a time | Availability settles on the truth in spite of overlapping handlers |
| `discovery` | 2 brokers, one of them with a service | Brokers find each other, though a DISCOVER may stay unanswered; nobody hears of a broker that has not started or learns part of it; nobody misses what it started with or announced later |
| `events` | 3 nodes, 3 services in 2 groups, catalogs of up to 4 entries | Only the groups asked run, each is reached, a single group runs once, local handlers are preferred |
| `events_broadcast` | the same | *Violated*: see findings |
| `emitter` | 4 closures, 1 emitting goroutine, 3 events | One-time listeners run once, are not lost, and displace nobody |
| `services` | 1 service of Self of 16 schemas and 2 objects; 1 node with 2 of 6 services, 1 restart | What is known of a node is what it published last; routes, listeners, counters and the lists of `$node` agree with it; mixins and hooks |
| `broker` | 2 starts, 1 stop, 1 failed connection, 2 publishers of services that need each other | Every service is started, stopped and registered once; heartbeats go on; every call returns |
| `calls` | 3 nodes, 2 callers, 6 scripts, both strategies, serial transport | Answers belong to their call, only valid calls run, MCall answers all, spans match, every caller gets an answer |
| `transports` | each kind, 2 topics, 2 losses, 1 failed attempt | Each kind implements Transport, answers, and ends up consuming every topic |

*Bounds.*  Two calls are enough for every pair of goroutines to compete for
the mutex and for one request to suffer from another's; two nodes, for a
disconnect that must not touch the other's requests.  One INFO in flight per
node (`MaxInfos`) is consumed before the next: the properties compare the last
states of a node, and DISCOVER brings new ones.  Two handlers at a time
(`MaxRunning`) is the smallest number that overlaps.  Discovery is about what
one broker learns of another, so that two suffice; the heartbeats are sent only
while somebody does not know the sender, as all others change nothing.  Four
entries put two services of a group on two nodes, with a third group member
and another group to spare.  The schemas of `services` cover a service with
and without a version, a mixin, a change of its actions, an event two services
share, and an internal name; two services at once and one restart are what it
takes to compare an old life with a new one.  Two starts around one stop are a
restart; two publishers are a race of appends, beside Main's own.  The six
scripts of `calls` hold a chain that returns to a node twice, an action that
has moved, a pinned node that fails, lists of different length for one
counter, values that JSON changes, and an MCall beside a single call; an
arbitrary program of calls would only combine them.  Two losses put the second
into the recovery from the first, two topics a loss between two subscriptions.

Deadlock is not checked where the system may really stop: all calls done or
the process gone (Requests, Calls), all events emitted (Emitter), the broker
as often started and stopped as it will be (Lifecycle), disconnected
(Transports).  It is checked everywhere else.

*Fairness.*  Goroutines that can run do run (weak fairness of each step of a
caller and of the holder of the mutex).  Taking a mutex is strongly fair,
because Go hands the lock to a waiter that starves.  A timer fires in the end.
Nothing is assumed of the network, the remote nodes, the operator or the
connection in Requests; `CallsEnd` is conditional on `Recovers` there,
because a connection that never comes back keeps every caller in Publish
(amqp.go:339).  In Registry a message that arrives is handled, a live node
keeps sending heartbeats and answers a DISCOVER, and time passes: the silence
of a dead node becomes long enough.  In Discovery a broker that has connected
goes on, its heart beats and messages arrive; the other goroutines share one
fairness condition, which is enough because they take only so many steps; that
a broker is started at all is not assumed.  In Lifecycle each goroutine goes on
inside a Start, Stop or PublishServices it was called for; that anybody calls
is not assumed.  In Calls weak fairness of Next is that of each goroutine,
message and timer, as a behaviour of a script is finite.  Of a transporter the
goroutines go on, the server lets a dial succeed or fail, and handlers return;
a loss or a message is never assumed.  `Tell` of kafka is strongly fair: the
consumer's select picks among the cases that are ready at random, so that a
stop which is offered again and again is not passed over for ever.

*Findings.*  `events_broadcast` is expected to fail: the results of a
broadcast are as many pointers to the last entry (event-catalog.go:173, a loop
variable under Go 1.19), against factory.go:275.

Four more configurations, which are not among the runs, show the moment at
which an invariant stops to hold in the code as it is:

* `MCRegistry_saved.cfg`, `SavedInRegistry`: disconnectNode takes no lock.  A
  DISCONNECT handled in the middle of the INFO of a restarted node leaves it
  available without endpoints for good.
* `MCRegistry_neighbours.cfg`, `NeighboursAreKnown`: a node that was lost and
  comes back is reported as updated, never as reconnected, and is not counted
  as a neighbour again.
* `MCDiscovery_announced.cfg`, `ServicesAreAnnounced`: onBrokerStarted sets
  brokerStarted after its INFO, and a service added in between is announced by
  neither.
* `MCEventRouting_emit.cfg`, `EmitRunsOncePerGroup`: a group can be served on
  several nodes, because the event is published with all the groups of the
  caller and each receiver chooses again.

And the properties of the other modules are worded around what the code does:

* The counters of services by name are set from one another and decremented
  twice, so that only `KnownByName`, not its converse, holds.
* An action of a service with a version outlives it in the catalog of actions
  of the other nodes, and is kept there under a name that the node itself does
  not use (`RoutesAgree`); an event that two services of a node listen to is
  lost to one when the other drops it (`ListenersAgree`).
* `$node.events` without a filter panics after a node with an event of its own
  has left (`FilteredListsAnswer`).
* Two goroutines that publish at once may lose one service from the list of
  the broker, and a check between `started = true` and `starting = false`
  another (`raced` in `EveryServiceIsStarted`).
* Two selections that overlap may index beyond the list of the round robin,
  and the panic ends the process (`PanicsNeedOverlap`).
* A first attempt of amqp to connect that fails leaves Connect without an answer,
  or all publishers waiting (`late`); a Disconnect during a recovery fails and
  leaves the recovery running.
* After Disconnect the reader of a kafka subscription nearly always stays
  blocked, and is never closed.
* A Disconnect on the shared memory can undo a subscription made meanwhile
  (`raced`), or bring back one that another Disconnect removed (`broken`).

## 4. The proofs

Every proof has the same shape: an inductive invariant `IInv`, a lemma for the
initial states, one for each action (or for each group of actions that disturb
the same parts), and theorems that read the checked properties off it.  Each
part of `IInv` was first checked by TLC on the instance of the run.

`RequestsProofs` proves, for any sets of calls and nodes and either kind of
transport, everything `requests_safety` checks.  The only assumption is that
`PublishPanics` is a Boolean.

None of the properties is inductive alone: that requests are pending exactly
while their callers wait depends on who may be sending, and the causes of the
answers depend on the cause of what the holder of the mutex is about to send.
`IInv` therefore joins the checked properties with `HolderHasCause` (the
holder may send what it sends), `CallsInOrder` (how stage, timer and results
of a call move together) and two facts about messages and notices.  Three
lemmas show that the steps of the callers, of the goroutines that answer, and
of the rest keep it; `Invariance` joins them.  `TypeCorrect`,
`NobodyBlocksForEver`, `NoLostTimeout` and `OutcomesHaveCauses` follow from it;
`OneAnswerPerCall` shows that a step from a state of `IInv` changes no answer;
`Refinement` shows that initial states and steps map to those of RemoteCall or
to stutters: Invoke opens a call, TimerFires expires it, Execute replies,
Finish settles it, with the cause that `IInv` provides.

`TransportsProofs` proves `ImplementsTransport` for any topics, any bounds and
every kind of transporter (`TransportersImplement`).  It assumes that the
transit subscribes each topic once (`OrderAssumption`; pubsub.go subscribes
to a fixed list).  That the transit is handed nothing before Connect or after
Disconnect needs an invariant for each kind: for kafka, that the consumers still
listening are among those Disconnect has yet to tell, which is why it may
answer when none is left; for amqp, that without a channel or outside of
status "on" nobody adds a consumer, and that once the channel is closed the
goroutine of Connect can only recover nothing, listen or end; for
memory, that neither the memory nor the copy another Disconnect is about to
store has a handler of this transporter.  `TransportersAreSound` joins them.

`EventsProofs` proves, of EventRouting, the three properties of `events` for any nodes,
services and groups, and catalogs of any length; no assumption is made beyond
those of the module.  Reached and not yet reached groups are two sides of one
event, so that `IInv` adds, to what is checked, where the event still has to
go: each listening group was reached or has a listener on a node that was sent
the event (`Reaching`); if one group is concerned, either its handler ran
and the wire is silent, or nobody ran and exactly one message is on its way
(`Single`); nobody sends to the sender (`OnlyListening`), which is why its own
handlers never run again (`Preferred`).  The lemmas from `Least` to `FoundIs`
are about the lookup: what is found has the group that was asked for, exists
when somebody matches, and is single with a strategy or among local entries.

`DiscoveryProofs` proves `OnlyTheStarted` and `LateServicesArrive` for any
brokers, services and offers.  `OnlyTheStarted` speaks of what was delivered, so
`Told` says the same of every message on its way, and that what a broker had
at its start is published.  `LateServicesArrive` needs `Arriving`: a late service
that was handled is in the view, or in an INFO on its way, of every broker that
knows its node or is about to, since an INFO that arrives replaces nothing of
what came before.  `Begun` ties both to the goroutines: who speaks of itself
has emitted $broker.started.

`RegistryProofs` proves the types whatever overlaps, and `CatalogsAgree` and
`RoutesToTheLiving` for any nodes, catalogs and messages in flight under the
hypothesis `MaxRunning = 1`, which is that of `registry_sequential`.  It is
not one the code enforces: with two handlers both are false, as
`MCRegistry_saved.cfg` shows.  The theorems say that overlapping handlers are
all there is to blame.  `InfoInv` and `DiscInv` follow a handler through the
catalogs: those it has passed have its node, or no longer have it, and the copy
it is about to store is the catalog as it is; `NodeInv` is that a node nobody
works for is in all catalogs if available and else in none; `Exclusive` that
one handler runs.

`EventsProofs` proves, of Emitter, `OnceRunsOnce` and `OnceIsNotLost` for any closures and
any number of events, under two hypotheses.  `OneEmitter`: one goroutine emits
the event, as Start does for $broker.started.  `SharedCode`: closures of one
literal are registered with Once and never removed by their owners, as those
of discoverHandler and notifyServiceAdded are (pubsub.go:610, registry.go:561).
A removal by code pointer takes the first listener of that code, so the
argument is one of order: in a snapshot and in the list, the one-time
listeners of one code stand in the same order, and the one that is visited is
the first of them in the list (`Ordered`).  `Ours` is that no closure is listed
twice, `Uses` that a one-time listener is listed exactly until it has run.

`LifecycleProofs` proves the four safety properties of `broker` for any
publishers, services, dependencies and numbers of starts, stops and failures.
It assumes that Main is not a publisher, that each service has one publisher,
and that the names of services and of `$node` differ.  `Control` says where Main
and the publishers may be and which flags hold there - nothing locks them, so
that what Main has read and nobody else writes is all there is; `RegInv`, that
who is about to add a service is alone with it; `ListInv`, that whatever runs
is listed, lost to a race, or the `$node` service of the present Start;
`StopInv`, that what Stop has yet to stop is in the list it read; `StartInv`,
that a listed service runs, or is in the list Start read, or has a publisher
that will start it.

`CallsProofs` proves the five safety properties of `calls` for any scripts,
nodes, actions and handlers (the assumptions of `Calls` give the constants
their types), serial or not, with or without a handler that calls next twice.  `Chained` and `Handling` say what the chain of a
call has decided at each point, and `Ran` that it stays so for a handler that
ran, although a second pass of the chain may still be on its way; `Answers`,
that each result in a frame or in a message is that of a handler that ran under
this id; `Waiting`, that the caller of a nested call waits in its handler, so
that an id is not used twice; `Selection`, that without an overlap one frame of
a node selects, with an index below the length of its list; `Collected`, that
what MCall has of a label is the result of that call or the timeout.  The model
writes `Added(f, x, v)` for a function with one more pair, as the provers do
not see into the operators of module TLC.

`ServiceCatalogProofs` proves everything `services` checks, for any schemas,
objects, nodes and configuration, and any number of services, restarts, INFOs
and disconnects.

The catalogs are said to fit (`Fit`) when the services have the full names they
should and no two have one name, version and node (`ServicesFit`); every action
of a known service has its entry and every entry its service (`ActionsFit`); and
so with the listeners, as far as the code keeps them (`EventsFit`).  `Fit` is
about any catalogs `c`, since the handler of an INFO makes new ones for each
service in turn.  `IInv` adds what ties them to the brokers: whoever is known is
a service of Self or belongs to a node that is available (`Owned`), which is why
nothing outlives a disconnect; a broker publishes a name and version once
(`PublishedFits`), so that the INFO has one map for each known service; and an
INFO without anything new since leaves what was published (`KnownFrom`).  The
work is in the lemma on one service of an INFO (`UpdateRemoteFits`): that the
differences which updateActions and updateEvents work out take any old map to the
new one, that they add no entry which is there, and that the keys one service
removes are those of no other, because they hold its full name.
`UpdateServicesFits` carries this along the loop: the services before the k-th
are known as published, those of other nodes are as they were.
`RoutedIsOwn` compares the two names that an action has on both sides.

What mixins do is proved the same way.  `Extended` keeps what is there and adds
what is not (`ExtendedIs`); `Mixed` says what a schema is after its first k
mixins, and `BuiltIs` what a service has in the end.  `OwnDefinitionsWin` and
`HooksInOrder` follow for every schema a published service can come from, and
`PublishedFromSchemas` says that it comes from one.

The loops are recursive functions, and the induction theorems of the library
cannot be used (they take an operator as a parameter).  Each lemma on a loop
argues instead by the least pass at which the function does not exist, or the
claim fails (`Least`, from the well-foundedness of the naturals).

Two assumptions say what a schema is.  `ActionsAssumption`: it has the fields,
and lists no action twice; nothing in the code looks for that, and both would be
registered.  `HooksAssumption`: a hook is one function or nil, and no two
mixins of a service are the same; a mixin that is there twice does run twice.

*Only model-checked*: the liveness properties of all runs, as fairness and ENABLED
are out of the prover's reach; the concurrent registry, about which only
liveness is claimed; and the bus with several emitting goroutines, where the
properties do not hold.  TLC checks the properties on the same definitions
the proofs use, so that the two can only differ in the size of the instance.

## 5. Not modelled, and why

* *Contexts*: the level of a call and its meta (which a context shares with the
  calls made from it) are copied and decide nothing.
* *Metrics with a rate below 1*: the hooks before and after share a counter and
  count against each other; `SpansMatch` is about a rate of 1.
* *Handlers that never call next*, and hooks of the configuration and the
  lifecycle: the chain is the one of Calls.
* *Two nodes with outdated catalogs that forward a REQ to each other*: it would go
  on without end, and Calls has finite behaviours.
* *Start or Stop called by two goroutines*, WaitForNodes and WaitForActions
  (the same loop as WaitFor).
* *AMQP channels that the server closes alone*, and options of queues; the
  binding of events in `Unbind` is a step without parts.
* *Kafka Publish*, which writes to a map of writers without a lock: what Go does
  then is not one of a few outcomes.
* *The arithmetic of expectedNeighbours*, ping and pong.
* *Payload accessors, JSON text, configuration, logging, errors, utilities*:
  conversions and declarations without a state of their own.  The rules of the
  validator are those of a library.

## 6. What could come next

1. *Discovery*: brokers that stop, and what waitForNeighbours counts.
2. *Emitter*: what remains true of a one-time listener with two emitting
   goroutines, and why.
3. *ServiceCatalog beside Registry*: several services for each node and handlers
   that overlap, in one module; today each is studied without the other.
