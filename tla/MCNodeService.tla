--------------------------- MODULE MCNodeService ----------------------------
(* Small instances of ServiceCatalog and NodeService for TLC. *)
EXTENDS NodeService

CONSTANTS self, n1, n2,
          math, mail, dnode,           \* services, dnode is "$node"
          add, sub, list, dlog,        \* actions, dlog begins with "$"
          created, sent, dconn,        \* events, dconn is "$node.connected"
          m1, m2,                      \* mixins
          g1, v2, key1, key2

Act(names, from) == [i \in DOMAIN names |-> [name |-> names[i], from |-> from]]
Evt(names, from) == [i \in DOMAIN names |->
                       [name |-> names[i], group |-> NoGroup, from |-> from]]

Plain(name, actions, events) ==
  [name |-> name, version |-> NoVersion, dependencies |-> <<>>,
   actions |-> Act(actions, name), events |-> Evt(events, name),
   settings |-> (key1 :> name), metadata |-> <<>>,
   created |-> <<name>>, started |-> <<name>>, stopped |-> <<name>>, mixins |-> <<>>]

Mixin(name, actions, events) ==
  [dependencies |-> <<mail>>, actions |-> Act(actions, name), events |-> Evt(events, name),
   settings |-> (key1 :> name) @@ (key2 :> name), metadata |-> (key1 :> name),
   created |-> <<name>>, started |-> <<>>, stopped |-> <<name>>]

Mix1 == Mixin(m1, <<add, list>>, <<created>>)
Mix2 == Mixin(m2, <<list>>, <<sent>>)

\* math of Self: with one or two mixins, with a listener of its own that a mixin
\* also has, and with an internal action and an internal event.
MCLocal ==
  {[Plain(math, acts, evts) EXCEPT !.mixins = mixins, !.version = version] :
     acts \in {<<add>>, <<sub, dlog>>}, evts \in {<<>>, <<created, dconn>>},
     mixins \in {<<Mix1>>, <<Mix2, Mix1>>}, version \in {NoVersion, v2}}

\* math and mail as objects: one with a Stopped whose signature is another.
Method(name) == [name |-> name, found |-> TRUE]
MCObjects ==
  {[methods |-> <<Method(add), Method("Name"), Method("Settings"), Method("Mixins"),
                  Method("Started"), [name |-> "Stopped", found |-> FALSE], Method(sub)>>,
    value |-> [Plain(math, <<>>, <<created>>) EXCEPT !.mixins = <<Mix1>>]],
   [methods |-> <<Method("Created"), Method("Events"), Method("Name"), Method("Version"), Method(list)>>,
    value |-> [Plain(mail, <<>>, <<sent>>) EXCEPT !.version = v2]]}

\* The broker is configured with a setting for math, and with one of its metadata.
MCConfig == (math :> [settings |-> (key2 :> self), metadata |-> (v2 :> self)])

\* What other nodes have: math before and after a change of its actions, events
\* and settings, with and without a version, and mail, which listens to an event
\* that math listens to as well.
MCRemote ==
  {Plain(math, <<add>>, <<created>>),
   [Plain(math, <<sub, list>>, <<sent>>) EXCEPT !.settings = (key1 :> key2)],
   [Plain(math, <<add, sub>>, <<>>) EXCEPT !.version = v2],
   [Plain(math, <<list>>, <<>>) EXCEPT !.version = v2],
   [Plain(mail, <<>>, <<sent>>) EXCEPT !.mixins = <<Mix2>>],
   Plain(dnode, <<list>>, <<dconn>>)}
=============================================================================
