---------------------------- MODULE EventRouting ----------------------------
(***************************************************************************)
(* How an event finds its handlers: EventCatalog.Find                      *)
(* (src/registry/event-catalog.go) as LoadBalanceEvent and BroadcastEvent  *)
(* use it on the broker that sends the event, and as HandleRemoteEvent     *)
(* uses it on the brokers that the event is published to.                  *)
(*                                                                         *)
(* The model follows one event name.  A service listens to it in a group   *)
(* and may run on several nodes: an entry of the catalog is a service on a *)
(* node.  One event is on its way at a time, and the catalogs of all nodes *)
(* agree; they change only between events.                                 *)
(***************************************************************************)
EXTENDS Naturals, Sequences, FiniteSets, SequencesExt

CONSTANTS
  Nodes,        \* the nodes of the cluster
  Self,         \* the node that sends the events
  Services,     \* the services that listen to the event
  Groups,       \* the groups they listen in
  GroupOf,      \* [Services -> Groups]
  MaxEntries    \* bound: entries in the catalog

ASSUME SelfAssumption == Self \in Nodes
ASSUME GroupOfAssumption == GroupOf \in [Services -> Groups]
ASSUME MaxEntriesAssumption == MaxEntries \in Nat

VARIABLES
  list,      \* the catalog's list of entries for the event, oldest first
  phase,     \* "idle", or what is on its way: "emit" or "broadcast"
  groups,    \* the groups it was sent to; none stands for all
  wire,      \* [Nodes -> Nat], EVENT messages not yet handled, by target
  handled    \* [Entries -> Nat], how often each handler ran for this event

vars == <<list, phase, groups, wire, handled>>

Entries == [service : Services, node : Nodes]
Group(e) == GroupOf[e.service]

TypeOK ==
  /\ list \in Seq(Entries)
  /\ phase \in {"idle", "emit", "broadcast"}
  /\ groups \subseteq Groups
  /\ wire \in [Nodes -> Nat]
  /\ handled \in [Entries -> Nat]

Init ==
  /\ list = <<>>
  /\ phase = "idle"
  /\ groups = {}
  /\ wire = [n \in Nodes |-> 0]
  /\ handled = [e \in Entries |-> 0]

-----------------------------------------------------------------------------
(* The lookup.                                                             *)

MatchGroup_Named(e, gs) == Group(e) \in gs

MatchGroup(e, gs) == gs = {} \/ Group(e) \in gs

\* The positions in es of the entries of group g that Find considers.
Matching(es, g, gs, self, localOnly) ==
  {i \in DOMAIN es : /\ Group(es[i]) = g
                     /\ MatchGroup(es[i], gs)
                     /\ localOnly => es[i].node = self}

\* Under Go 1.19 (go.mod:3) a loop has one variable for all its iterations:
\* when the loop over the entries at is has ended, the pointers that it took to
\* that variable all point to the last entry (event-catalog.go:173, 179).
PointersTo(es, is) == [i \in is |-> es[Max(is)]]

\* What Find may return for the entries of one group, at the positions is: the
\* results by the positions they were taken for.  A single entry is the last.
FindInGroup(es, is, self, preferLocal, balanced) ==
  LET local == {i \in is : es[i].node = self}
  IN  IF preferLocal /\ local # {} THEN {[i \in {Min(local)} |-> es[i]]}
      ELSE IF balanced /\ is # {} THEN {[i \in {k} |-> PointersTo(es, is)[k]] : k \in is}
      ELSE {PointersTo(es, is)}

\* Find, as a function from groups to what is returned for each.  The order
\* of the groups is that of a Go map; nothing here depends on it.
Find(es, gs, self, preferLocal, localOnly, balanced) ==
  LET found(g) ==
        FindInGroup(es, Matching(es, g, gs, self, localOnly), self, preferLocal, balanced)
  IN  {f \in [Groups -> UNION {found(g) : g \in Groups}] :
         \A g \in Groups : f[g] \in found(g)}

\* How often entry e is among the results f of Find.
Times(f, e) ==
  Cardinality({i \in DOMAIN f[Group(e)] : f[Group(e)][i] = e})

\* How many of the results f are on node n.
TimesOn(f, n) ==
  Cardinality({i \in DOMAIN list :
                 LET r == f[Group(list[i])] IN i \in DOMAIN r /\ r[i].node = n})

-----------------------------------------------------------------------------
(* The catalog.                                                            *)

\* A local service is published, or a remote one is in an INFO.
Add(e) ==
  /\ phase = "idle"
  /\ Len(list) < MaxEntries
  /\ e \notin ToSet(list)
  /\ list' = Append(list, e)
  /\ UNCHANGED <<phase, groups, wire, handled>>

\* A remote node is lost, or its INFO no longer has the event.
RemoveByNode(n) ==
  /\ phase = "idle"
  /\ n # Self
  /\ LET kept == {i \in DOMAIN list : list[i].node # n}
     IN  \E at \in [1..Cardinality(kept) -> kept] :
           /\ \A j, k \in DOMAIN at : j < k => at[j] < at[k]
           /\ list' = [k \in DOMAIN at |-> list[at[k]]]
  /\ UNCHANGED <<phase, groups, wire, handled>>

-----------------------------------------------------------------------------
(* Sending and handling an event.                                          *)

\* Every result that is local is called, every other one is published to its
\* node with the groups of the event as they are.
Send(kind, gs, f) ==
  /\ phase = "idle"
  /\ phase' = kind
  /\ groups' = gs
  /\ handled' = [e \in Entries |-> IF e.node = Self THEN Times(f, e) ELSE 0]
  /\ wire' = [n \in Nodes |-> IF n = Self THEN 0 ELSE TimesOn(f, n)]
  /\ UNCHANGED list

\* Mutants of LoadBalanceEvent: all entries of a group, and any node.
LoadBalanceEvent_All(gs) ==
  \E f \in Find(list, gs, Self, FALSE, FALSE, FALSE) : Send("emit", gs, f)
LoadBalanceEvent_AnyNode(gs) ==
  \E f \in Find(list, gs, Self, FALSE, FALSE, TRUE) : Send("emit", gs, f)

LoadBalanceEvent(gs) ==
  \E f \in Find(list, gs, Self, TRUE, FALSE, TRUE) : Send("emit", gs, f)

BroadcastEvent(gs) ==
  \E f \in Find(list, gs, Self, FALSE, FALSE, FALSE) : Send("broadcast", gs, f)

\* Node n looks for its own handlers of the event and runs them.
HandleRemoteEvent(n) ==
  /\ wire[n] > 0
  /\ wire' = [wire EXCEPT ![n] = @ - 1]
  /\ \E f \in Find(list, groups, n, TRUE, TRUE, phase = "emit") :
       handled' = [e \in Entries |-> handled[e] + Times(f, e)]
  /\ UNCHANGED <<list, phase, groups>>

\* The event has been handled everywhere.
Delivered == phase # "idle" /\ \A n \in Nodes : wire[n] = 0

Forget ==
  /\ Delivered
  /\ phase' = "idle"
  /\ groups' = {}
  /\ handled' = [e \in Entries |-> 0]
  /\ UNCHANGED <<list, wire>>

Next ==
  \/ \E e \in Entries : Add(e)
  \/ \E n \in Nodes : RemoveByNode(n) \/ HandleRemoteEvent(n)
  \/ \E gs \in SUBSET Groups : LoadBalanceEvent(gs) \/ BroadcastEvent(gs)
  \/ Forget

Spec == Init /\ [][Next]_vars

-----------------------------------------------------------------------------
(* Properties.                                                             *)

Listening == {e \in ToSet(list) : groups = {} \/ Group(e) \in groups}
ListeningGroups == {Group(e) : e \in Listening}
Reached(g) == \E e \in Entries : Group(e) = g /\ handled[e] > 0
RunsOnce(g) ==
  \E e \in Entries :
    /\ Group(e) = g /\ handled[e] = 1
    /\ \A d \in Entries \ {e} : Group(d) = g => handled[d] = 0

\* An event reaches every group that listens to it, although the broker that
\* receives it chooses its handler anew (registry.go:201, 215, 239); a node that is
\* sent it for one group does not wake another that was not asked for
\* (event-catalog.go:158).
EveryGroupIsReached ==
  /\ Delivered => \A g \in ListeningGroups : Reached(g)
  /\ \A e \in Entries : handled[e] > 0 => e \in Listening

\* With a single group concerned, an emitted event is handled once.
OneGroupRunsOnce ==
  Delivered /\ phase = "emit" =>
    \A g \in Groups : ListeningGroups = {g} => RunsOnce(g)

\* The sender's own handlers are preferred and run once each per group: no
\* answer of another node ever calls the sender back.
LocalHandlerRunsOnce ==
  Delivered /\ phase = "emit" =>
    \A g \in {Group(e) : e \in {d \in Listening : d.node = Self}} :
      \E e \in Listening :
        /\ Group(e) = g /\ e.node = Self /\ handled[e] = 1
        /\ \A d \in Entries : d.node = Self /\ Group(d) = g /\ d # e
                                => handled[d] = 0

\* "Emit an event (grouped & balanced global event)" (context/factory.go:268):
\* one handler of each group gets the event.
EmitRunsOncePerGroup ==
  Delivered /\ phase = "emit" => \A g \in ListeningGroups : RunsOnce(g)

\* "Broadcast an event for all local & remote services"
\* (context/factory.go:275): every listener gets the event.
BroadcastReachesAll ==
  Delivered /\ phase = "broadcast" => \A e \in Listening : handled[e] > 0
=============================================================================
