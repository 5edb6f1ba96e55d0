----------------------------- MODULE Lifecycle ------------------------------
(***************************************************************************)
(* The life of a broker (broker/main.go, with the Start and Stop of        *)
(* registry/registry.go and the Connect and Disconnect of                  *)
(* transit/pubsub/pubsub.go): one goroutine, Main, starts and stops it,    *)
(* again and again, while others publish services on it and wait for       *)
(* services.                                                               *)
(*                                                                         *)
(* No lock guards the list of services or the flags started and starting,  *)
(* so that every read and write of them is a step.  A flag that was        *)
(* written is seen by all from then on.                                    *)
(***************************************************************************)
EXTENDS SequencesExt

CONSTANTS
  Main,          \* the goroutine that calls Start and Stop
  Publishers,    \* goroutines that call PublishServices and WaitFor
  Services,      \* the services that may be published
  PublishedBy,   \* [Services -> Publishers]
  Dependencies,  \* [Services -> SUBSET Services]; those of other nodes are left out
  NodeName,      \* "$node", the name of the internal service
  None,          \* no service
  MaxStarts,     \* bound: calls of Start
  MaxStops,      \* bound: calls of Stop
  MaxFailures    \* bound: failed connections

ASSUME DependenciesAssumption == Dependencies \in [Services -> SUBSET Services]
ASSUME MaxAssumption == {MaxStarts, MaxStops, MaxFailures} \subseteq Nat
ASSUME GoroutinesAssumption == Main \notin Publishers /\ PublishedBy \in [Services -> Publishers]
\* No service of the application is called "$node", and the numbers of its
\* instances are no services either.
ASSUME NamesAssumption == NodeName \notin Services /\ Services \intersect (1..MaxStarts) = {}

VARIABLES
  started, starting,  \* the flags of the broker
  services,           \* broker.services
  endpoints,          \* [Names -> Nat], how often AddLocalService added it
  known,              \* the names in the catalog of services
  running,            \* services whose Started hook ran after their last Stopped
  connected,          \* isConnected of the transit
  stopping,           \* stopping of the registry
  loops,              \* the heartbeat loops, alive or ended
  pc,                 \* where each goroutine is, and its locals
  starts, stops, failures,  \* how often
  overlap,            \* history: services published while Main started or stopped
  raced               \* history: services that a race of addService lost

vars == <<started, starting, services, endpoints, known, running, connected, stopping,
          loops, pc, starts, stops, failures, overlap, raced>>

\* Each Start creates another $node: the instance k belongs to the k-th Start.
Nodes == 1..MaxStarts
Name(svc) == IF svc \in Nodes THEN NodeName ELSE svc
Names == Services \union {NodeName}
Needs(svc) == IF svc \in Services THEN Dependencies[svc] ELSE {}

Procs == Publishers \union {Main}
Idle == [at |-> "idle", cur |-> None, then |-> "idle", todo |-> <<>>]

Goto(p, at) == pc' = [pc EXCEPT ![p].at = at]
\* startService(svc), and what comes after it.
StartService(p, svc, then) == pc' = [pc EXCEPT ![p].at = "depend", ![p].cur = svc, ![p].then = then]

BeingPublished == {pc[p].cur : p \in {q \in Publishers : pc[q].at \notin {"idle", "waiting"}}}
MainIsBusy == pc[Main].at # "idle"

-----------------------------------------------------------------------------
(* startService *)

\* A call that is made while the broker is not started does not wait.
Ready(svc) == ~started \/ Needs(svc) \subseteq known

WaitForDependencies(p) ==
  /\ pc[p].at = "depend" /\ Ready(pc[p].cur)
  /\ Goto(p, "find")
  /\ UNCHANGED <<started, starting, services, endpoints, known, running, connected, stopping,
                 loops, starts, stops, failures, overlap, raced>>

\* Mutant: a service waits for as long as it takes.
DependenciesTimeout_Never(p) == FALSE

\* WaitForDependenciesTimeout is over: the service is started without them.
DependenciesTimeout(p) ==
  /\ pc[p].at = "depend" /\ ~Ready(pc[p].cur)
  /\ Goto(p, "find")
  /\ UNCHANGED <<started, starting, services, endpoints, known, running, connected, stopping,
                 loops, starts, stops, failures, overlap, raced>>

\* Mutant: a service that is registered already is added again.
Find_Ignored(p) ==
  /\ pc[p].at = "find"
  /\ Goto(p, "add")
  /\ UNCHANGED <<started, starting, services, endpoints, known, running, connected, stopping,
                 loops, starts, stops, failures, overlap, raced>>

\* AddLocalService looks for the service first ...
Find(p) ==
  /\ pc[p].at = "find"
  /\ Goto(p, IF endpoints[Name(pc[p].cur)] > 0 THEN "hook" ELSE "add")
  /\ UNCHANGED <<started, starting, services, endpoints, known, running, connected, stopping,
                 loops, starts, stops, failures, overlap, raced>>

\* ... and adds it.
Add(p) ==
  LET name == Name(pc[p].cur)
  IN  /\ pc[p].at = "add"
      /\ endpoints' = [endpoints EXCEPT ![name] = @ + 1]
      /\ known' = known \union {name}
      /\ Goto(p, "hook")
      /\ UNCHANGED <<started, starting, services, running, connected, stopping,
                     loops, starts, stops, failures, overlap, raced>>

\* The Started hook of the service.
StartedHook(p) ==
  /\ pc[p].at = "hook"
  /\ running' = running \union {pc[p].cur}
  /\ pc' = [pc EXCEPT ![p] = IF @.then = "idle" THEN Idle ELSE [@ EXCEPT !.at = pc[p].then]]
  /\ UNCHANGED <<started, starting, services, endpoints, known, connected, stopping,
                 loops, starts, stops, failures, overlap, raced>>

-----------------------------------------------------------------------------
(* addService: append to the list, then start the service unless the broker *)
(* does.  After it, Main goes on with Start and a publisher is done.        *)

After(p) == IF p = Main THEN "started" ELSE "idle"

\* append reads the list ...
AppendLoad(p) ==
  /\ pc[p].at = "append"
  /\ pc' = [pc EXCEPT ![p].at = "store", ![p].todo = services]
  /\ UNCHANGED <<started, starting, services, endpoints, known, running, connected, stopping,
                 loops, starts, stops, failures, overlap, raced>>

\* ... and stores the longer one: what others appended meanwhile is lost.
AppendStore(p) ==
  /\ pc[p].at = "store"
  /\ services' = Append(pc[p].todo, pc[p].cur)
  /\ raced' = raced \union (ToSet(services) \ ToSet(services'))
  /\ pc' = [pc EXCEPT ![p].at = "check", ![p].todo = <<>>]
  /\ UNCHANGED <<started, starting, endpoints, known, running, connected, stopping,
                 loops, starts, stops, failures, overlap>>

ReadStarted(p) ==
  /\ pc[p].at = "check"
  /\ IF started THEN StartService(p, pc[p].cur, After(p)) ELSE Goto(p, "check2")
  /\ UNCHANGED <<started, starting, services, endpoints, known, running, connected, stopping,
                 loops, starts, stops, failures, overlap, raced>>

\* Mutant: only a broker that has started starts the service.
ReadStarting_Not(p) ==
  /\ pc[p].at = "check2"
  /\ pc' = [pc EXCEPT ![p] = IF After(p) = "idle" THEN Idle ELSE [@ EXCEPT !.at = After(p)]]
  /\ UNCHANGED <<started, starting, services, endpoints, known, running, connected, stopping,
                 loops, starts, stops, failures, overlap, raced>>

\* Start may set started and reset starting between the two reads.
ReadStarting(p) ==
  /\ pc[p].at = "check2"
  /\ IF starting
     THEN StartService(p, pc[p].cur, After(p)) /\ UNCHANGED raced
     ELSE /\ pc' = [pc EXCEPT ![p] = Idle]
          /\ raced' = IF started THEN raced \union {pc[p].cur} ELSE raced
  /\ UNCHANGED <<started, starting, services, endpoints, known, running, connected, stopping,
                 loops, starts, stops, failures, overlap>>

-----------------------------------------------------------------------------
(* Start *)

Start ==
  /\ pc[Main].at = "idle" /\ starts < MaxStarts
  /\ starts' = starts + 1
  /\ IF started THEN UNCHANGED <<starting, pc, overlap>>
     ELSE /\ starting' = TRUE
          /\ Goto(Main, "connect")
          /\ overlap' = overlap \union BeingPublished
  /\ UNCHANGED <<started, services, endpoints, known, running, connected, stopping,
                 loops, stops, failures, raced>>

\* Mutant: stopping is not reset.
Connect_KeepStopping ==
  /\ pc[Main].at = "connect"
  /\ Goto(Main, IF connected THEN "blocked" ELSE "connecting")
  /\ UNCHANGED <<started, starting, services, endpoints, known, running, connected, stopping,
                 loops, starts, stops, failures, overlap, raced>>

\* registry.Start and pubsub.Connect, which on a connected transit sends on a
\* channel that nobody can receive from yet.
Connect ==
  /\ pc[Main].at = "connect"
  /\ stopping' = FALSE
  /\ Goto(Main, IF connected THEN "blocked" ELSE "connecting")
  /\ UNCHANGED <<started, starting, services, endpoints, known, running, connected,
                 loops, starts, stops, failures, overlap, raced>>

\* The transport is connected and the nodes were discovered: the loop of the
\* heartbeats begins (it stands for all three), and the internal service is started.
Connected ==
  /\ pc[Main].at = "connecting"
  /\ connected' = TRUE
  /\ loops' = Append(loops, "alive")
  /\ StartService(Main, starts, "services")
  /\ UNCHANGED <<started, starting, services, endpoints, known, running, stopping,
                 starts, stops, failures, overlap, raced>>

\* Start panics; the application lives on.
ConnectFails ==
  /\ pc[Main].at = "connecting" /\ failures < MaxFailures
  /\ failures' = failures + 1
  /\ Goto(Main, "idle")
  /\ UNCHANGED <<started, starting, services, endpoints, known, running, connected, stopping,
                 loops, starts, stops, overlap, raced>>

\* range evaluates the list once.
TakeServices ==
  /\ pc[Main].at = "services"
  /\ pc' = [pc EXCEPT ![Main].at = "each", ![Main].todo = services]
  /\ UNCHANGED <<started, starting, services, endpoints, known, running, connected, stopping,
                 loops, starts, stops, failures, overlap, raced>>

\* The services of the list, and then addService for the internal one.
StartEach ==
  /\ pc[Main].at = "each"
  /\ pc' = [pc EXCEPT ![Main] =
              IF @.todo = <<>> THEN [@ EXCEPT !.at = "append", !.cur = starts]
              ELSE [at |-> "depend", cur |-> Head(@.todo), then |-> "each", todo |-> Tail(@.todo)]]
  /\ UNCHANGED <<started, starting, services, endpoints, known, running, connected, stopping,
                 loops, starts, stops, failures, overlap, raced>>

SetStarted ==
  /\ pc[Main].at = "started"
  /\ started' = TRUE
  /\ Goto(Main, "notStarting")
  /\ UNCHANGED <<starting, services, endpoints, known, running, connected, stopping,
                 loops, starts, stops, failures, overlap, raced>>

ResetStarting ==
  /\ pc[Main].at = "notStarting"
  /\ starting' = FALSE
  /\ pc' = [pc EXCEPT ![Main] = Idle]
  /\ UNCHANGED <<started, services, endpoints, known, running, connected, stopping,
                 loops, starts, stops, failures, overlap, raced>>

-----------------------------------------------------------------------------
(* Stop *)

Stop ==
  /\ pc[Main].at = "idle" /\ stops < MaxStops
  /\ stops' = stops + 1
  /\ IF started
     THEN /\ pc' = [pc EXCEPT ![Main].at = "stopEach", ![Main].todo = services]
          /\ overlap' = overlap \union BeingPublished
     ELSE UNCHANGED <<pc, overlap>>
  /\ UNCHANGED <<started, starting, services, endpoints, known, running, connected, stopping,
                 loops, starts, failures, raced>>

\* Mutant: the last service of the list is not stopped.
StopEach_NotTheLast ==
  /\ pc[Main].at = "stopEach"
  /\ IF Len(pc[Main].todo) <= 1
     THEN Goto(Main, "disconnect") /\ UNCHANGED running
     ELSE /\ running' = running \ {Head(pc[Main].todo)}
          /\ pc' = [pc EXCEPT ![Main].todo = Tail(@)]
  /\ UNCHANGED <<started, starting, services, endpoints, known, connected, stopping,
                 loops, starts, stops, failures, overlap, raced>>

\* stopService runs the Stopped hook.
StopEach ==
  /\ pc[Main].at = "stopEach"
  /\ IF pc[Main].todo = <<>>
     THEN Goto(Main, "disconnect") /\ UNCHANGED running
     ELSE /\ running' = running \ {Head(pc[Main].todo)}
          /\ pc' = [pc EXCEPT ![Main].todo = Tail(@)]
  /\ UNCHANGED <<started, starting, services, endpoints, known, connected, stopping,
                 loops, starts, stops, failures, overlap, raced>>

\* registry.Stop and pubsub.Disconnect, which blocks like Connect.
Disconnect ==
  /\ pc[Main].at = "disconnect"
  /\ stopping' = TRUE
  /\ connected' = FALSE
  /\ Goto(Main, IF connected THEN "stopped" ELSE "blocked")
  /\ UNCHANGED <<started, starting, services, endpoints, known, running,
                 loops, starts, stops, failures, overlap, raced>>

Stopped ==
  /\ pc[Main].at = "stopped"
  /\ started' = FALSE
  /\ pc' = [pc EXCEPT ![Main] = Idle]
  /\ UNCHANGED <<starting, services, endpoints, known, running, connected, stopping,
                 loops, starts, stops, failures, overlap, raced>>

-----------------------------------------------------------------------------
(* The other goroutines *)

Published == ToSet(services) \union raced \union BeingPublished

PublishServices(p, svc) ==
  /\ pc[p].at = "idle" /\ p = PublishedBy[svc] /\ svc \notin Published
  /\ pc' = [pc EXCEPT ![p].at = "append", ![p].cur = svc]
  /\ overlap' = IF MainIsBusy THEN overlap \union {svc} ELSE overlap
  /\ UNCHANGED <<started, starting, services, endpoints, known, running, connected, stopping,
                 loops, starts, stops, failures, raced>>

\* A goroutine that has published waits for the service of another: WaitFor of
\* one service, which polls KnowService ...
WaitFor(p, name) ==
  /\ pc[p].at = "idle" /\ name \notin known
  /\ PublishedBy[name] # p
  /\ \A svc \in Services : PublishedBy[svc] = p => svc \in Published
  /\ pc' = [pc EXCEPT ![p].at = "waiting", ![p].cur = name]
  /\ UNCHANGED <<started, starting, services, endpoints, known, running, connected, stopping,
                 loops, starts, stops, failures, overlap, raced>>

\* ... until it is known, or the same timeout is over.
WaitForService(p) ==
  /\ pc[p].at = "waiting"
  /\ pc' = [pc EXCEPT ![p] = Idle]
  /\ UNCHANGED <<started, starting, services, endpoints, known, running, connected, stopping,
                 loops, starts, stops, failures, overlap, raced>>

\* The loop of a heartbeat looks at stopping before each turn, whenever that is.
LoopEnds(i) ==
  /\ loops[i] = "alive" /\ stopping
  /\ loops' = [loops EXCEPT ![i] = "ended"]
  /\ UNCHANGED <<started, starting, services, endpoints, known, running, connected, stopping,
                 pc, starts, stops, failures, overlap, raced>>

Init ==
  /\ started = FALSE /\ starting = FALSE
  /\ services = <<>>
  /\ endpoints = [n \in Names |-> 0]
  /\ known = {} /\ running = {}
  /\ connected = FALSE /\ stopping = FALSE
  /\ loops = <<>>
  /\ pc = [p \in Procs |-> Idle]
  /\ starts = 0 /\ stops = 0 /\ failures = 0
  /\ overlap = {} /\ raced = {}

AddService(p) == AppendLoad(p) \/ AppendStore(p) \/ ReadStarted(p) \/ ReadStarting(p)
StartsService(p) ==
  WaitForDependencies(p) \/ DependenciesTimeout(p) \/ Find(p) \/ Add(p) \/ StartedHook(p)

\* What a goroutine does once it was called.
Step(p) == AddService(p) \/ StartsService(p) \/ WaitForService(p)
MainStep ==
  \/ Connect \/ Connected \/ TakeServices \/ StartEach \/ SetStarted
  \/ ResetStarting \/ StopEach \/ Disconnect \/ Stopped

Next ==
  \/ Start \/ Stop \/ MainStep \/ ConnectFails
  \/ \E p \in Procs : Step(p)
  \/ \E p \in Publishers, svc \in Services : PublishServices(p, svc)
  \/ \E p \in Publishers, name \in Services : WaitFor(p, name)
  \/ \E i \in DOMAIN loops : LoopEnds(i)

\* The scheduler lets every goroutine go on, and a transport connects or fails.
Fairness == WF_vars(MainStep) /\ \A p \in Procs : WF_vars(Step(p))

Spec == Init /\ [][Next]_vars /\ Fairness
-----------------------------------------------------------------------------
(* Properties *)

TypeOK ==
  /\ {started, starting, connected, stopping} \subseteq BOOLEAN
  /\ services \in Seq(Services \union Nodes) /\ IsInjective(services)
  /\ endpoints \in [Names -> 0..(1 + Cardinality(Publishers))]
  /\ known \subseteq Names
  /\ running \subseteq Services \union Nodes
  /\ ToSet(loops) \subseteq {"alive", "ended"}
  /\ \A p \in Procs : pc[p].at = "blocked" => p = Main
  /\ overlap \union raced \subseteq Services \union Nodes

Quiet == \A p \in Procs : pc[p].at \in {"idle", "waiting"}

\* Whichever way PublishServices and Start meet, no service is left out: when a
\* started broker is quiet, the Started hook of every published service has run
\* since its last Stopped.  The flags and the list are read and written in an
\* order that makes sure that one of the two sees the other (main.go:186-187
\* and 324, 338), except for what is lost to one of two narrow races: an append
\* in the middle of another, and a check in the middle of main.go:351-352.
EveryServiceIsStarted ==
  Quiet /\ started => ToSet(services) \subseteq running \union raced

\* When the broker has been stopped, no service is left running without its
\* Stopped hook, unless it was published while Main was starting or stopping
\* the broker: the $node of each Start is stopped with it, and restarts lose
\* nothing (main.go:342-344, 365-367).
StoppedServices ==
  Quiet /\ ~started /\ ~starting => running \subseteq overlap \union raced

\* A service that was not published during a Start or Stop is in the catalogs
\* once, although every Start starts it again, and $node is, although every
\* Start creates it anew (registry.go:529).
RegisteredOnce == \A n \in Names \ overlap : endpoints[n] <= 1

\* A started broker that is not being stopped has a heartbeat loop that goes on,
\* however soon after a Stop it was started: the others do not take it for dead
\* (registry.go:389; an old loop that did not see stopping goes on as well).
HeartbeatsGoOn ==
  started /\ pc[Main].at = "idle" =>
    ~stopping /\ \E i \in DOMAIN loops : loops[i] = "alive"

\* Every Start, Stop and PublishServices returns: they are bounded in number, so
\* that they do if it is quiet again and again.  started and isConnected go
\* together as long as one goroutine starts and stops the broker, which is never
\* caught in a second Connect or Disconnect then (pubsub.go:701, 714), whatever
\* fails in between; and services that wait for one another are started when they
\* waited long enough.
CallsReturn == []<>Quiet
=============================================================================
