---------------------------- MODULE NodeService -----------------------------
(***************************************************************************)
(* The actions of the $node service (registry/node-service.go), which tell *)
(* what the catalogs of ServiceCatalog hold.  They change nothing: each is *)
(* the set of the items it lists.  Options that only add or leave out      *)
(* fields of the items are left out, as are list, which reads the catalog  *)
(* of nodes, and health and options, which read none.                      *)
(***************************************************************************)
EXTENDS ServiceCatalog

\* The options of a query; a missing one counts as FALSE.
Options == [onlyLocal : BOOLEAN, onlyAvailable : BOOLEAN, skipInternal : BOOLEAN]

Available == {Self} \union {n \in Nodes : node[n] = "available"}

Has(entries, nodes) == \E e \in entries : e.node \in nodes

\* The filters all lists share; name is what would begin with "$".
Listed(opts, name, entries) ==
  /\ opts.onlyLocal => Has(entries, {Self})
  /\ opts.onlyAvailable => Has(entries, Available)
  /\ ~(opts.skipInternal /\ name \in Internal)

Item(name, count, entries) ==
  [name |-> name, count |-> count,
   hasLocal |-> Has(entries, {Self}),
   available |-> Has(entries, Available)]

NodeActions(opts) ==
  {Item(k, BagCardinality(cat.actions[k]), DOMAIN cat.actions[k]) :
     k \in {j \in DOMAIN cat.actions : Listed(opts, j.service, DOMAIN cat.actions[j])}}

\* Mutant: the group is read before the filters.
NodeEvents_GroupFirst(opts) ==
  [panics |-> \E k \in DOMAIN cat.events : cat.events[k] = EmptyBag,
   items |-> {Item(k, BagCardinality(cat.events[k]), DOMAIN cat.events[k]) : k \in DOMAIN cat.events}]

\* The group of an event is read from the first entry of its list, which panics
\* when there is none: the caller gets that as an error (action-catalog.go:58).
NodeEvents(opts) ==
  LET names == {k \in DOMAIN cat.events : Listed(opts, k, DOMAIN cat.events[k])}
  IN  [panics |-> \E k \in names : cat.events[k] = EmptyBag,
       items |-> {Item(k, BagCardinality(cat.events[k]), DOMAIN cat.events[k]) : k \in names}]

\* The services grouped by their full name.
ListByName(fullname) == {s \in cat.known : s.fullname = fullname}

NodeServices(opts) ==
  {Item(f, Cardinality(ListByName(f)), ListByName(f)) :
     f \in {s.fullname : s \in {t \in cat.known : Listed(opts, t.name, ListByName(t.fullname))}}}

-----------------------------------------------------------------------------
(* Properties *)

\* What $node.services and $node.actions list as available fit together: an action
\* of a service without a version is listed as available just when a service
\* that has it is (two catalogs, updated one after the other).
ListsFit ==
  LET only == [onlyLocal |-> FALSE, onlyAvailable |-> TRUE, skipInternal |-> FALSE]
      services == {i.name : i \in NodeServices(only)}
      actions == {i.name : i \in NodeActions(only)}
  IN  /\ \A k \in actions : WithVersion(k) \/
           \E f \in services : \E s \in ListByName(f) :
              s.node \in Available /\ \E a \in s.actions : a.fullname = k
      /\ \A f \in services : \A s \in ListByName(f) :
           s.node \in Available => \A a \in s.actions : KeyOf(a, s) \in actions

\* A list asked for with onlyAvailable or onlyLocal is always answered, whatever
\* nodes have come and gone: the empty lists that RemoveByNode and Remove leave in
\* the catalog of events are filtered before their first entry is read
\* (node-service.go:60-72), and what is listed fits.
FilteredListsAnswer ==
  /\ ListsFit
  /\ \A opts \in Options : opts.onlyAvailable \/ opts.onlyLocal => ~NodeEvents(opts).panics
=============================================================================
