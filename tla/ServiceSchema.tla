--------------------------- MODULE ServiceSchema ----------------------------
(***************************************************************************)
(* How a service is built (service/service.go): from a schema, with its    *)
(* mixins merged into it, or on another node from the map that its own     *)
(* node publishes.                                                         *)
(*                                                                         *)
(* A name is a model value; those that start with "$" are in Internal.     *)
(* What a hook or a handler does is left out: each carries the owner that  *)
(* wrote it, the service or one of its mixins, and a chain of hooks is the *)
(* sequence of the owners in the order in which they run.                  *)
(***************************************************************************)
EXTENDS Naturals, SequencesExt

CONSTANTS
  Internal,   \* names that start with "$"
  NoVersion,  \* the empty version
  NoGroup,    \* the empty group of an event
  Config      \* the broker's config of services: name -> settings and metadata

-----------------------------------------------------------------------------
(* Mixins.  s is the schema built so far, m a mixin. *)

FindAction(name, actions) == \E i \in DOMAIN actions : actions[i].name = name

\* The actions of the mixin that the service does not have yet.
Extended(actions, more) ==
  LET after[i \in 0..Len(more)] ==
        IF i = 0 THEN actions
        ELSE IF FindAction(more[i].name, after[i - 1]) THEN after[i - 1]
             ELSE Append(after[i - 1], more[i])
  IN  after[Len(more)]

ExtendActions(s, m) == [s EXCEPT !.actions = Extended(@, m.actions)]

MergeDependencies(s, m) == [s EXCEPT !.dependencies = m.dependencies \o @]

\* The event of the mixin is appended once for each event of the service that
\* has another name: not at all to a service without events.
ConcatenateEvents(s, m) ==
  [s EXCEPT !.events =
     FoldLeft(LAMBDA events, e :
                LET others == SelectSeq(events, LAMBDA o : o.name # e.name)
                IN  events \o [i \in DOMAIN others |-> e],
              @, m.events)]

\* Mutant: the earlier maps stay.
MergeSettings_First(first, second) == first @@ second

\* MergeSettings(first, second): the later maps overwrite.
MergeSettings(first, second) ==
  [key \in DOMAIN first \union DOMAIN second |->
     IF key \in DOMAIN second THEN second[key] ELSE first[key]]

ExtendSettings(s, m) ==
  [s EXCEPT !.settings = MergeSettings(m.settings, @),
            !.metadata = MergeSettings(m.metadata, @)]

\* Mutant: the mixin's hooks run last.
ChainHooks_Last(s, m) ==
  [s EXCEPT !.created = @ \o m.created, !.started = @ \o m.started, !.stopped = @ \o m.stopped]

\* Each hook of the mixin runs before what was there.
ChainHooks(s, m) ==
  [s EXCEPT !.created = m.created \o @,
            !.started = m.started \o @,
            !.stopped = m.stopped \o @]

ApplyMixin(s, m) ==
  ChainHooks(ExtendSettings(ConcatenateEvents(MergeDependencies(ExtendActions(s, m), m), m), m), m)

ApplyMixins(s) ==
  LET after[i \in 0..Len(s.mixins)] ==
        IF i = 0 THEN s ELSE ApplyMixin(after[i - 1], s.mixins[i])
  IN  after[Len(s.mixins)]

-----------------------------------------------------------------------------
(* Names.  A full name is a record, the concatenation of its fields; v is   *)
(* TRUE when a "v" was put before the version.                              *)

JoinVersionToName(name, version) == [v |-> FALSE, version |-> version, service |-> name]

CreateServiceAction(serviceName, action, from) ==
  [name |-> action, from |-> from,
   fullname |-> [v |-> serviceName.v, version |-> serviceName.version,
                 service |-> serviceName.service, action |-> action]]

-----------------------------------------------------------------------------
(* Objects.  The methods of an object that describe the service make up its *)
(* schema, and the others are its actions.  A method is a record of its     *)
(* name and whether its signature is the one looked for; obj.value holds    *)
(* what the methods return and do.                                          *)

Described == {"Name", "Version", "Dependencies", "Settings", "Metadata",
              "Mixins", "Events", "Created", "Started", "Stopped"}

ValidActionName(name) == name \notin Described

ExtractActions(obj) ==
  LET methods == SelectSeq(obj.methods, LAMBDA m : ValidActionName(m.name))
  IN  [i \in DOMAIN methods |-> [name |-> methods[i].name, from |-> obj.value.name]]

ObjToSchema(obj) ==
  LET Has(method) == \E i \in DOMAIN obj.methods : obj.methods[i] = [name |-> method, found |-> TRUE]
      Copy(method, value, otherwise) == IF Has(method) THEN value ELSE otherwise
  IN  [name |-> obj.value.name,
       version |-> Copy("Version", obj.value.version, NoVersion),
       dependencies |-> Copy("Dependencies", obj.value.dependencies, <<>>),
       events |-> Copy("Events", obj.value.events, <<>>),
       metadata |-> Copy("Metadata", obj.value.metadata, <<>>),
       mixins |-> Copy("Mixins", obj.value.mixins, <<>>),
       settings |-> Copy("Settings", obj.value.settings, <<>>),
       actions |-> ExtractActions(obj),
       created |-> Copy("Created", obj.value.created, <<>>),
       started |-> Copy("Started", obj.value.started, <<>>),
       stopped |-> Copy("Stopped", obj.value.stopped, <<>>)]

-----------------------------------------------------------------------------
(* Services *)

\* populateFromSchema, after the mixins.
FromSchema(schema) ==
  LET s == ApplyMixins(schema)
      fullname == JoinVersionToName(s.name, s.version)
  IN  [name |-> s.name, version |-> s.version, fullname |-> fullname,
       dependencies |-> s.dependencies,
       settings |-> s.settings, metadata |-> s.metadata,
       actions |-> [i \in DOMAIN s.actions |->
                      CreateServiceAction(fullname, s.actions[i].name, s.actions[i].from)],
       events |-> [i \in DOMAIN s.events |->
                     [name |-> s.events[i].name, from |-> s.events[i].from,
                      group |-> IF s.events[i].group = NoGroup THEN s.name
                                                               ELSE s.events[i].group]],
       created |-> s.created, started |-> s.started, stopped |-> s.stopped]

\* The broker's config comes last, and what it has as metadata becomes settings.
ApplyServiceConfig(s) ==
  IF s.name \in DOMAIN Config
  THEN [s EXCEPT !.settings = MergeSettings(MergeSettings(@, Config[s.name].settings),
                                            Config[s.name].metadata)]
  ELSE s

\* Go fills the map of the events in their order: the last of a name stays.
LastOfName(events, name) ==
  Last(SelectSeq(events, LAMBDA e : e.name = name))

\* What a node publishes of its service.
AsMap(s) ==
  [name |-> s.name, version |-> s.version,
   settings |-> s.settings, metadata |-> s.metadata,
   actions |-> {[name |-> a.fullname, rawName |-> a.name] :
                  a \in {b \in ToSet(s.actions) : b.name \notin Internal}},
   events |-> {[name |-> n, group |-> LastOfName(s.events, n).group] :
                 n \in {e.name : e \in ToSet(s.events)} \ Internal}]

\* A node knows a service of another node by its map: actions and events are
\* sets, as Go ranges over a map in any order.  The next four are called in a loop,
\* and take all that the loop passes them.
AddActionMap(s, infos) ==
  [s EXCEPT !.actions = @ \union
     {[name |-> info.rawName,
       fullname |-> CreateServiceAction(s.fullname, info.rawName, "remote").fullname] :
        info \in infos}]

AddEventMap(s, infos) ==
  [s EXCEPT !.events = @ \union {[name |-> info.name, group |-> info.group] : info \in infos}]

RemoveAction(s, fullnames) == [s EXCEPT !.actions = {a \in @ : a.fullname \notin fullnames}]

RemoveEvent(s, names) == [s EXCEPT !.events = {e \in @ : e.name \notin names}]

UpdateFromMap(s, info) ==
  [s EXCEPT !.settings = info.settings, !.metadata = info.metadata]

CreateServiceFromMap(info, node) ==
  LET empty == [node |-> node, name |-> info.name, version |-> info.version,
                fullname |-> JoinVersionToName(info.name, info.version),
                settings |-> info.settings, metadata |-> info.metadata,
                actions |-> {}, events |-> {}]
  IN  AddEventMap(AddActionMap(empty, info.actions), info.events)
=============================================================================
