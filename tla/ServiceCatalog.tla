--------------------------- MODULE ServiceCatalog ---------------------------
(***************************************************************************)
(* The services that a broker, Self, has and knows: the catalogs of        *)
(* services, actions and events (registry/service-catalog.go,              *)
(* action-catalog.go, event-catalog.go), filled by its own services and by *)
(* the INFO of the other nodes, and what the actions of $node tell of them *)
(* (node-service.go).                                                      *)
(*                                                                         *)
(* Registry is about handlers that overlap, for one service per node; here *)
(* they run one at a time, and the services are the subject: versions,     *)
(* mixins, several services per node, and nodes that restart under their   *)
(* ID with other services before anybody has missed them.                  *)
(***************************************************************************)
EXTENDS ServiceSchema, FiniteSets, Bags

CONSTANTS
  Self,           \* the broker whose catalogs these are
  Nodes,          \* the other nodes
  LocalSchemas,   \* the schemas Self may publish
  LocalObjects,   \* the objects Self may publish as services
  RemoteSchemas,  \* the schemas the others may publish
  MaxLocal,       \* bound: services of Self
  MaxPublished,   \* bound: services of a remote node
  MaxRestarts     \* bound: restarts, of all remote nodes

ASSUME BoundsAssumption == {MaxLocal, MaxPublished, MaxRestarts} \subseteq Nat
ASSUME SelfAssumption == Self \notin Nodes

VARIABLES
  published,  \* [Brokers -> Seq(service)], since the broker started
  restarts,   \* how often a node was restarted
  pending,    \* the nodes with an INFO in flight
  node,       \* [Nodes -> ...], the NodeCatalog
  cat         \* the catalogs: known, byName, actions, events

vars == <<published, restarts, pending, node, cat>>

Brokers == Nodes \union {Self}

-----------------------------------------------------------------------------
(* The catalogs of endpoints map a key to the list of its entries; the order *)
(* of the list is left out, so that it is a bag.                             *)

None == <<>>
EntriesOf(map, key) == IF key \in DOMAIN map THEN map[key] ELSE EmptyBag
CopiesOf(bag, e) == IF e \in DOMAIN bag THEN bag[e] ELSE 0

\* Add of both catalogs, in a loop: entryOf[i] is appended under keyOf[i], for every i.
AddEntries(map, keyOf, entryOf) ==
  [key \in DOMAIN map \union {keyOf[i] : i \in DOMAIN keyOf} |->
     LET old == EntriesOf(map, key)
         added == {i \in DOMAIN keyOf : keyOf[i] = key}
     IN  [e \in DOMAIN old \union {entryOf[i] : i \in added} |->
            CopiesOf(old, e) + Cardinality({i \in added : entryOf[i] = e})]]

WithoutNode(bag, n) == [e \in {d \in DOMAIN bag : d.node # n} |-> bag[e]]

\* ActionCatalog.Add completes the names that do not begin with the version
\* (a name that begins with it by chance is not considered).
ActionKey(action, s) ==
  IF s.version # NoVersion /\ action.fullname.version # s.version
  THEN [action.fullname EXCEPT !.v = TRUE, !.version = s.version]
  ELSE action.fullname

\* Mutant: the other nodes' entries go with it.
RemoveEntries_All(map, n, keys) ==
  [key \in DOMAIN map |-> IF key \in keys THEN EmptyBag ELSE map[key]]

\* Remove of both catalogs, in a loop: the entries of the node, for whatever
\* service, under the keys.
RemoveEntries(map, n, keys) ==
  [key \in DOMAIN map |-> IF key \in keys THEN WithoutNode(map[key], n) ELSE map[key]]

\* ActionCatalog.RemoveByNode deletes the lists that become empty, and
\* EventCatalog.RemoveByNode keeps them.
RemoveActionsByNode(map, n) ==
  LET kept == [k \in DOMAIN map |-> WithoutNode(map[k], n)]
  IN  [k \in {j \in DOMAIN kept : kept[j] # EmptyBag} |-> kept[k]]

\* Mutant: the events of the node stay.
RemoveEventsByNode_Nothing(map, n) == map

RemoveEventsByNode(map, n) == [k \in DOMAIN map |-> WithoutNode(map[k], n)]

-----------------------------------------------------------------------------
(* The ServiceCatalog *)

Counter(byName, name) == IF name \in DOMAIN byName THEN byName[name] ELSE 0

BareName(s) == JoinVersionToName(s.name, NoVersion)

\* Mutant: only the name with the version is counted.
Add_FullNameOnly(c, s) ==
  [c EXCEPT !.known = @ \union {s},
            !.byName = (s.fullname :> Counter(@, s.fullname) + 1) @@ @]

\* Both counters are set from the one of the full name.
Add(c, s) ==
  LET names == {BareName(s), s.fullname}
  IN  [c EXCEPT !.known = @ \union {s},
                !.byName = [name \in DOMAIN @ \union names |->
                              IF name \in names THEN Counter(@, s.fullname) + 1 ELSE @[name]]]

\* One count less by name and one by full name, for each service; the keys stay.
RemoveServicesByNode(c, n) ==
  LET gone == {s \in c.known : s.node = n}
      Less(name) == Cardinality({s \in gone : BareName(s) = name})
                    + Cardinality({s \in gone : s.fullname = name})
  IN  [c EXCEPT !.known = @ \ gone,
                !.byName = [name \in DOMAIN @ |->
                              IF @[name] > Less(name) THEN @[name] - Less(name) ELSE 0]]

FindByName(c, name) == name \in DOMAIN c.byName

FindService(c, info, n) ==
  {s \in c.known : s.node = n /\ s.name = info.name /\ s.version = info.version}

-----------------------------------------------------------------------------
(* INFO of another node *)

\* remoteNodeInfoReceived names a new action without the version.
RemoteKey(action, s) == ActionKey(CreateServiceAction(BareName(s), action, "remote"), s)

RemoteEntry(n) == [node |-> n, local |-> FALSE]

\* Mutant: what the INFO has no more stays.
UpdateActions_KeepDeleted(c, s, info) ==
  LET new == {a \in info.actions : \A b \in s.actions : b.fullname # a.name}
  IN  [s |-> AddActionMap(s, new),
       map |-> AddEntries(c.actions, [a \in new |-> RemoteKey(a.rawName, s)],
                                     [a \in new |-> RemoteEntry(s.node)])]

\* updateActions and its loops in remoteNodeInfoReceived.  New actions are
\* compared with those of the service, deleted ones removed by full name.
UpdateActions(c, s, info) ==
  LET new == {a \in info.actions : \A b \in s.actions : b.fullname # a.name}
      added == AddActionMap(s, new)
      deleted == {b.fullname : b \in added.actions} \ {a.name : a \in info.actions}
      withNew == AddEntries(c.actions, [a \in new |-> RemoteKey(a.rawName, s)],
                                       [a \in new |-> RemoteEntry(s.node)])
  IN  [s |-> RemoveAction(added, deleted), map |-> RemoveEntries(withNew, s.node, deleted)]

Listener(s, e, local) ==
  [node |-> s.node, service |-> s.fullname, group |-> e.group, local |-> local]

UpdateEvents(c, s, info) ==
  LET new == {e \in info.events : \A d \in s.events : d.name # e.name}
      added == AddEventMap(s, new)
      deleted == {d.name : d \in added.events} \ {e.name : e \in info.events}
      withNew == AddEntries(c.events, [e \in new |-> e.name],
                                      [e \in new |-> Listener(s, e, FALSE)])
  IN  [s |-> RemoveEvent(added, deleted), map |-> RemoveEntries(withNew, s.node, deleted)]

\* updateRemote for a service in the catalog.
UpdateKnown(c, s, info) ==
  LET actions == UpdateActions(c, UpdateFromMap(s, info), info)
      events == UpdateEvents(c, actions.s, info)
  IN  [c EXCEPT !.known = (@ \ {s}) \union {events.s},
                !.actions = actions.map, !.events = events.map]

\* updateRemote for a new one: everything it has is new.
AddRemote(c, info, n) ==
  LET s == CreateServiceFromMap(info, n)
  IN  [Add(c, s) EXCEPT
         !.actions = AddEntries(@, [a \in s.actions |-> RemoteKey(a.name, s)],
                                   [a \in s.actions |-> RemoteEntry(n)]),
         !.events = AddEntries(@, [e \in s.events |-> e.name],
                                  [e \in s.events |-> Listener(s, e, FALSE)])]

UpdateRemote(c, info, n) ==
  IF FindService(c, info, n) = {} THEN AddRemote(c, info, n)
  ELSE UpdateKnown(c, CHOOSE s \in FindService(c, info, n) : TRUE, info)

\* The loop over the services of the INFO.
UpdateServices(c, services, n) ==
  LET after[i \in 0..Len(services)] ==
        IF i = 0 THEN c ELSE UpdateRemote(after[i - 1], AsMap(services[i]), n)
  IN  after[Len(services)]

\* The handler.  The services that the node has no more are not looked at.
RemoteNodeInfoReceived(n) ==
  /\ n \in pending
  /\ pending' = pending \ {n}
  /\ node' = [node EXCEPT ![n] = "available"]
  /\ cat' = UpdateServices(cat, published[n], n)
  /\ UNCHANGED <<published, restarts>>

-----------------------------------------------------------------------------
(* The other operations *)

LocalService(s) ==
  [node |-> Self, name |-> s.name, version |-> s.version, fullname |-> s.fullname,
   settings |-> s.settings, metadata |-> s.metadata,
   actions |-> {[name |-> a.name, fullname |-> a.fullname] : a \in ToSet(s.actions)},
   events |-> {[name |-> e.name, group |-> e.group] : e \in ToSet(s.events)}]

\* Listeners of internal events are registered with the local bus instead.
AddLocal(c, s) ==
  LET t == LocalService(s)
  IN  [Add(c, t) EXCEPT
         !.actions = AddEntries(@, [i \in DOMAIN s.actions |-> ActionKey(s.actions[i], t)],
                                   [i \in DOMAIN s.actions |-> [node |-> Self, local |-> TRUE]]),
         !.events = LET own == {i \in DOMAIN s.events : s.events[i].name \notin Internal}
                    IN  AddEntries(@, [i \in own |-> s.events[i].name],
                                      [i \in own |-> Listener(t, s.events[i], TRUE)])]

Published(b, s) ==
  \E i \in DOMAIN published[b] :
    published[b][i].name = s.name /\ published[b][i].version = s.version

\* createService, for all schemas and objects once.
OfObject == [obj \in LocalObjects |-> ObjToSchema(obj)]
OwnSchemas == LocalSchemas \union {OfObject[obj] : obj \in LocalObjects}
Schemas == OwnSchemas \union RemoteSchemas

\* Nothing looks for an action that is named twice: both would be registered.
NamesOnce(actions) == \A i, j \in DOMAIN actions : actions[i].name = actions[j].name => i = j

ASSUME ActionsAssumption ==
  \A schema \in Schemas :
    /\ {"actions", "mixins", "settings"} \subseteq DOMAIN schema
    /\ schema.mixins \in Seq(ToSet(schema.mixins))
    /\ \A s \in {schema} \union ToSet(schema.mixins) : s.actions \in Seq(ToSet(s.actions))
    /\ NamesOnce(schema.actions)

\* A hook is a function or nil, and a mixin that is there twice would run twice.
Hooks == {"created", "started", "stopped"}

ASSUME HooksAssumption ==
  \A schema \in Schemas : \A h \in Hooks :
    /\ h \in DOMAIN schema
    /\ schema[h] \in {<<>>, <<schema.name>>}
    /\ \A i \in DOMAIN schema.mixins :
         /\ schema.mixins[i][h] = <<>> \/ schema.mixins[i][h] = <<schema.mixins[i][h][1]>>
         /\ schema.name \notin ToSet(schema.mixins[i][h])
         /\ \A j \in DOMAIN schema.mixins :
              i # j => ToSet(schema.mixins[i][h]) \cap ToSet(schema.mixins[j][h]) = {}

Built == [schema \in Schemas |-> FromSchema(schema)]

\* startService on Self, whose Config it is, up to AddLocalService.
AddLocalService(schema) ==
  LET s == ApplyServiceConfig(Built[schema])
  IN  /\ Len(published[Self]) < MaxLocal
      /\ ~Published(Self, s)
      /\ published' = [published EXCEPT ![Self] = Append(@, s)]
      /\ cat' = AddLocal(cat, s)
      /\ UNCHANGED <<restarts, pending, node>>

\* AddLocalService on another node, and the INFO it sends.
RemotePublish(n, schema) ==
  LET s == Built[schema]
  IN  /\ Len(published[n]) < MaxPublished
      /\ ~Published(n, s)
      /\ published' = [published EXCEPT ![n] = Append(@, s)]
      /\ pending' = pending \union {n}
      /\ UNCHANGED <<restarts, node, cat>>

\* A node is restarted under its ID, and has nothing yet.
Restart(n) ==
  /\ restarts < MaxRestarts
  /\ published[n] # None
  /\ restarts' = restarts + 1
  /\ published' = [published EXCEPT ![n] = None]
  /\ pending' = pending \union {n}
  /\ UNCHANGED <<node, cat>>

\* A heartbeat of a node that was given up: a DISCOVER, and its INFO.
DiscoverNode(n) ==
  /\ node[n] = "unavailable"
  /\ pending' = pending \union {n}
  /\ UNCHANGED <<published, restarts, node, cat>>

\* disconnectNode: the node said goodbye, or its heartbeat was missed.
DisconnectNode(n) ==
  /\ node[n] = "available"
  /\ node' = [node EXCEPT ![n] = "unavailable"]
  /\ cat' = [RemoveServicesByNode(cat, n) EXCEPT
               !.actions = RemoveActionsByNode(@, n),
               !.events = RemoveEventsByNode(@, n)]
  /\ UNCHANGED <<published, restarts, pending>>

Init ==
  /\ published = [b \in Brokers |-> None]
  /\ restarts = 0
  /\ pending = {}
  /\ node = [n \in Nodes |-> "unknown"]
  /\ cat = [known |-> {}, byName |-> None, actions |-> None, events |-> None]

Next ==
  \/ \E schema \in OwnSchemas : AddLocalService(schema)
  \/ \E n \in Nodes :
       \/ \E schema \in RemoteSchemas : RemotePublish(n, schema)
       \/ Restart(n)
       \/ RemoteNodeInfoReceived(n)
       \/ DiscoverNode(n)
       \/ DisconnectNode(n)

Spec == Init /\ [][Next]_vars

-----------------------------------------------------------------------------
(* Properties *)

TypeOK ==
  /\ restarts \in 0..MaxRestarts
  /\ pending \subseteq Nodes
  /\ node \in [Nodes -> {"unknown", "available", "unavailable"}]
  /\ \A b \in Brokers : \A i, j \in DOMAIN published[b] :
       published[b][i].fullname = published[b][j].fullname => i = j
  /\ \A s \in cat.known : s.node \in Brokers
  /\ \A name \in DOMAIN cat.byName : cat.byName[name] \in Nat
  /\ \A key \in DOMAIN cat.actions : IsABag(cat.actions[key])
  /\ \A name \in DOMAIN cat.events : IsABag(cat.events[name])

\* The nodes whose last INFO was handled, with nothing new since.
UpToDate == {n \in Nodes : node[n] = "available" /\ n \notin pending}

\* Once its INFO was handled, every service of a node is known with just the
\* actions, event names and settings that the node publishes, whatever was
\* known of it before: the differences that updateActions and updateEvents
\* work out (service-catalog.go:165-217) lead from any old map to the new one.
KnownAsPublished ==
  \A n \in UpToDate : \A i \in DOMAIN published[n] :
    LET info == AsMap(published[n][i])
    IN  \E s \in FindService(cat, info, n) :
          /\ {a.fullname : a \in s.actions} = {a.name : a \in info.actions}
          /\ {e.name : e \in s.events} = {e.name : e \in info.events}
          /\ s.settings = info.settings

EntryOf(s) == [node |-> s.node, local |-> s.node = Self]
KeyOf(a, s) == IF s.node = Self THEN ActionKey(a, s) ELSE RemoteKey(a.name, s)
WithVersion(key) == key.version # NoVersion

OwnKeys(n) ==
  UNION {{ActionKey(a, s) : a \in ToSet(s.actions)} : s \in ToSet(published[n])}

\* The name in the REQ of an action without a version is the one under which
\* the node that receives it finds its own handler, as long as it still has the
\* service (ActionCatalog.Add is called with different names on both sides).
RoutedCallsAreFound ==
  \A n \in UpToDate : \A s \in ToSet(published[n]) : \A key \in DOMAIN cat.actions :
    (/\ s.version = NoVersion
     /\ key.version = NoVersion /\ key.service = s.name
     /\ \E e \in DOMAIN cat.actions[key] : e.node = n)
    => key \in OwnKeys(n)

\* Calls are routed by the catalog of actions, which is kept apart from the
\* services: an action of a service without a version has exactly one entry for
\* the node of the service, and there is no entry without such a service, in
\* spite of updates, restarts and disconnects (registry.go:452-470).  An action
\* of a service with a version has an entry, but the entry outlives it: it is
\* not removed under the key it was added with.
RoutesAgree ==
  /\ RoutedCallsAreFound
  /\ \A s \in cat.known : \A a \in s.actions :
       LET entries == EntriesOf(cat.actions, KeyOf(a, s))
       IN  /\ EntryOf(s) \in DOMAIN entries
           /\ s.version = NoVersion => entries[EntryOf(s)] = 1
  /\ \A key \in DOMAIN cat.actions : \A e \in DOMAIN cat.actions[key] :
       \/ WithVersion(key)
       \/ \E s \in cat.known : EntryOf(s) = e /\ \E a \in s.actions : a.fullname = key

\* Another service of the other nodes may listen to the event.
Shared(s, name) ==
  \E schema \in RemoteSchemas :
    /\ Built[schema].fullname # s.fullname
    /\ \E e \in ToSet(Built[schema].events) : e.name = name

\* The catalog of events has no listener without a known service that has the
\* event in that group, and it misses no listener of another node for an event
\* that one service only listens to: Remove takes the listeners of all services
\* of the node away, and the other services do not get theirs back, since they
\* are known to have the event (event-catalog.go:76).
ListenersAgree ==
  /\ \A name \in DOMAIN cat.events : \A l \in DOMAIN cat.events[name] :
       \E s \in cat.known : /\ s.node = l.node
                            /\ s.fullname = l.service
                            /\ [name |-> name, group |-> l.group] \in s.events
  /\ \A s \in cat.known : \A e \in s.events :
       \/ s.node = Self
       \/ Shared(s, e.name)
       \/ Listener(s, e, FALSE) \in DOMAIN EntriesOf(cat.events, e.name)

\* A broker that waits for a service it knows (WaitFor, dependencies) finds it
\* by its name and by its full name, whatever was added and removed: the
\* counters of service-catalog.go:136 go wrong, but no name is forgotten.
KnownByName ==
  \A s \in cat.known : FindByName(cat, BareName(s)) /\ FindByName(cat, s.fullname)

-----------------------------------------------------------------------------
(* What FromSchema makes of the mixins, seen on what was published. *)

Sources(b, s) ==
  {schema \in DOMAIN Built : s = IF b = Self THEN ApplyServiceConfig(Built[schema])
                                             ELSE Built[schema]}
MixinsOf(schema) == ToSet(schema.mixins)

\* No mixin takes the place of what the service defines itself: its actions and
\* its settings are its own, and every action of a mixin is there, once
\* (service.go:184-227).  Only what the broker is configured with comes before
\* the settings of the service (broker/main.go:71-99), its metadata before all.
OwnDefinitionsWin ==
  \A b \in Brokers : \A s \in ToSet(published[b]) : \A schema \in Sources(b, s) :
    /\ \A a \in ToSet(schema.actions) \union UNION {ToSet(m.actions) : m \in MixinsOf(schema)} :
         \E i \in DOMAIN s.actions :
           /\ {j \in DOMAIN s.actions : s.actions[j].name = a.name} = {i}
           /\ \A own \in ToSet(schema.actions) : own.name = a.name => s.actions[i].from = own.from
    /\ \A k \in DOMAIN schema.settings :
         s.settings[k] = schema.settings[k] \/ (b = Self /\ s.name \in DOMAIN Config)
    /\ b = Self /\ s.name \in DOMAIN Config =>
         \A k \in DOMAIN Config[s.name].settings :
           k \in DOMAIN Config[s.name].metadata \/ s.settings[k] = Config[s.name].settings[k]

\* "the service.Created handler is called after all of the mixins Created
\* handlers are called" (service.go:244), and so with started and stopped:
\* each hook runs once, and the service's own comes last.
HooksInOrder ==
  \A b \in Brokers : \A s \in ToSet(published[b]) : \A schema \in Sources(b, s) :
    /\ \A hook \in {s.created, s.started, s.stopped} :
         /\ IsInjective(hook)
         /\ \A i \in DOMAIN hook : hook[i] = schema.name => i = Len(hook)
    /\ ToSet(s.stopped) = ToSet(schema.stopped) \union
                          UNION {ToSet(m.stopped) : m \in MixinsOf(schema)}
=============================================================================
