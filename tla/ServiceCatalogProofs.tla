------------------------ MODULE ServiceCatalogProofs ------------------------
(***************************************************************************)
(* Proofs about ServiceCatalog and NodeService, for any schemas, any nodes *)
(* and any number of services, restarts and INFOs.                         *)
(***************************************************************************)
EXTENDS NodeService, SequenceTheorems, FiniteSetTheorems, WellFoundedInduction, TLAPS

-----------------------------------------------------------------------------
(* The invariant.  It is about the catalogs c, which are cat but also what   *)
(* the handler of an INFO makes of them one service after the other.         *)

ActionName(name, version, action) ==
  [v |-> FALSE, version |-> version, service |-> name, action |-> action]

In(map, key, e) == e \in DOMAIN EntriesOf(map, key)
Once(map, key, e) == In(map, key, e) /\ EntriesOf(map, key)[e] = 1

SameService(s, t) == s.node = t.node /\ s.name = t.name /\ s.version = t.version

\* A service of the other nodes with this full name may listen to the event.
ListensTo(fullname, name) ==
  \E schema \in RemoteSchemas :
    /\ Built[schema].fullname = fullname
    /\ \E e \in ToSet(Built[schema].events) : e.name = name

\* What is known of a service: its actions go by its full name, and its events are
\* those of a schema.
WellKnown(s) ==
  /\ DOMAIN s = {"node", "name", "version", "fullname", "settings", "metadata", "actions", "events"}
  /\ s.node \in Brokers
  /\ s.fullname = JoinVersionToName(s.name, s.version)
  /\ \A a \in s.actions : a.fullname = ActionName(s.name, s.version, a.name)
  /\ s.node # Self => \A e \in s.events : ListensTo(s.fullname, e.name)

IsCatalog(c) == DOMAIN c = {"known", "byName", "actions", "events"}

ServicesFit(c) ==
  /\ IsCatalog(c)
  /\ \A s \in c.known : WellKnown(s)
  /\ \A s, t \in c.known : SameService(s, t) => s = t
  /\ \A s \in c.known : FindByName(c, BareName(s)) /\ FindByName(c, s.fullname)

ActionsFit(c) ==
  /\ \A s \in c.known : \A a \in s.actions :
       /\ In(c.actions, KeyOf(a, s), EntryOf(s))
       /\ s.version = NoVersion => Once(c.actions, KeyOf(a, s), EntryOf(s))
  /\ \A key \in DOMAIN c.actions : \A e \in DOMAIN c.actions[key] :
       WithVersion(key) \/ \E s \in c.known : EntryOf(s) = e /\ \E a \in s.actions : a.fullname = key

EventsFit(c) ==
  /\ \A name \in DOMAIN c.events : \A l \in DOMAIN c.events[name] :
       \E s \in c.known : /\ s.node = l.node
                          /\ s.fullname = l.service
                          /\ [name |-> name, group |-> l.group] \in s.events
  /\ \A s \in c.known : \A e \in s.events :
       s.node = Self \/ Shared(s, e.name) \/ In(c.events, e.name, Listener(s, e, FALSE))

Fit(c) == ServicesFit(c) /\ ActionsFit(c) /\ EventsFit(c)

\* c knows the service p of the node as it is published.
KnownFrom(c, p, n) ==
  \E s \in FindService(c, AsMap(p), n) :
    /\ {a.fullname : a \in s.actions} = {a.name : a \in AsMap(p).actions}
    /\ {e.name : e \in s.events} = {e.name : e \in AsMap(p).events}
    /\ s.settings = AsMap(p).settings

RemoteBuilt == {Built[schema] : schema \in RemoteSchemas}
OwnBuilt == {ApplyServiceConfig(Built[schema]) : schema \in OwnSchemas}

\* Every service of a broker has a name and a version of its own.
PublishedFits ==
  /\ published \in [Brokers -> Seq(OwnBuilt \union RemoteBuilt)]
  /\ published[Self] \in Seq(OwnBuilt)
  /\ \A n \in Nodes : published[n] \in Seq(RemoteBuilt)
  /\ \A b \in Brokers : \A i, j \in DOMAIN published[b] :
       /\ published[b][i].name = published[b][j].name
       /\ published[b][i].version = published[b][j].version
       => i = j

\* What is known is a service of Self or of a node that is available.
Owned ==
  \A s \in cat.known :
    \/ s.node = Self /\ Published(Self, s)
    \/ s.node \in Nodes /\ node[s.node] = "available"

IInv ==
  /\ pending \subseteq Nodes
  /\ node \in [Nodes -> {"unknown", "available", "unavailable"}]
  /\ PublishedFits
  /\ Fit(cat)
  /\ Owned
  /\ \A n \in UpToDate : \A i \in DOMAIN published[n] : KnownFrom(cat, published[n][i], n)

-----------------------------------------------------------------------------
(* Names and schemas *)

LEMMA JoinIs ==
  ASSUME NEW name, NEW version, NEW name2, NEW version2,
         JoinVersionToName(name, version) = JoinVersionToName(name2, version2)
  PROVE  name = name2 /\ version = version2
<1>1. /\ JoinVersionToName(name, version).service = name
      /\ JoinVersionToName(name, version).version = version
      /\ JoinVersionToName(name2, version2).service = name2
      /\ JoinVersionToName(name2, version2).version = version2
  BY DEF JoinVersionToName
<1>2. QED
  BY <1>1

\* What is published has its full name from its name and version, and its actions
\* have theirs from it.
IsBuilt(p) ==
  /\ p.fullname = JoinVersionToName(p.name, p.version)
  /\ \A i \in DOMAIN p.actions :
       p.actions[i].fullname = ActionName(p.name, p.version, p.actions[i].name)

LEMMA SchemaIsBuilt == ASSUME NEW schema PROVE IsBuilt(FromSchema(schema))
<1>1. PICK s : s = ApplyMixins(schema)
  OBVIOUS
<1>2. PICK fullname : fullname = JoinVersionToName(s.name, s.version)
  OBVIOUS
<1>3. PICK actions : actions = [i \in DOMAIN s.actions |->
                                  CreateServiceAction(fullname, s.actions[i].name, s.actions[i].from)]
  OBVIOUS
<1>4. PICK p : p = FromSchema(schema)
  OBVIOUS
<1>5. p.name = s.name /\ p.version = s.version /\ p.fullname = fullname /\ p.actions = actions
  BY <1>1, <1>2, <1>3, <1>4 DEF FromSchema
<1>6. \A i \in DOMAIN actions : actions[i].fullname = ActionName(s.name, s.version, actions[i].name)
  BY <1>2, <1>3 DEF CreateServiceAction, ActionName, JoinVersionToName
<1>7. QED
  BY <1>2, <1>4, <1>5, <1>6 DEF IsBuilt

LEMMA RemoteIsBuilt == ASSUME NEW p \in RemoteBuilt PROVE IsBuilt(p)
BY SchemaIsBuilt DEF RemoteBuilt, Built, Schemas

LEMMA OwnIsBuilt == ASSUME NEW p \in OwnBuilt PROVE IsBuilt(p)
<1>1. PICK schema \in OwnSchemas : p = ApplyServiceConfig(FromSchema(schema))
  BY DEF OwnBuilt, Built, Schemas
<1>2. PICK s : s = FromSchema(schema)
  OBVIOUS
<1>3. p.fullname = s.fullname /\ p.name = s.name /\ p.version = s.version /\ p.actions = s.actions
  <2>1. {"fullname", "name", "version", "actions", "settings"} \subseteq DOMAIN s
    BY <1>2 DEF FromSchema
  <2>2. QED
    BY <1>1, <1>2, <2>1 DEF ApplyServiceConfig
<1>4. QED
  BY <1>2, <1>3, SchemaIsBuilt DEF IsBuilt

\* The map a service is published as.
IsInfo(info) ==
  /\ \A a \in info.actions : a.name = ActionName(info.name, info.version, a.rawName)
  /\ \A a, b \in info.actions : a.rawName = b.rawName => a = b
  /\ \A d, e \in info.events : d.name = e.name => d = e
  /\ \A e \in info.events : ListensTo(JoinVersionToName(info.name, info.version), e.name)

LEMMA AsMapIs ==
  ASSUME NEW p \in RemoteBuilt
  PROVE  /\ IsInfo(AsMap(p)) /\ AsMap(p).name = p.name /\ AsMap(p).version = p.version
         /\ AsMap(p).actions = {[name |-> p.actions[i].fullname, rawName |-> p.actions[i].name] :
                                  i \in {j \in DOMAIN p.actions : p.actions[j].name \notin Internal}}
<1>1. IsBuilt(p)
  BY RemoteIsBuilt
<1>2. PICK actions : actions = {[name |-> a.fullname, rawName |-> a.name] :
                                  a \in {b \in ToSet(p.actions) : b.name \notin Internal}}
  OBVIOUS
<1>3. PICK events : events = {[name |-> n, group |-> LastOfName(p.events, n).group] :
                                n \in {e.name : e \in ToSet(p.events)} \ Internal}
  OBVIOUS
<1>4. PICK info : info = AsMap(p)
  OBVIOUS
<1>5. info.name = p.name /\ info.version = p.version /\ info.actions = actions /\ info.events = events
  BY <1>2, <1>3, <1>4 DEF AsMap
<1>6. actions = {[name |-> p.actions[i].fullname, rawName |-> p.actions[i].name] :
                   i \in {j \in DOMAIN p.actions : p.actions[j].name \notin Internal}}
  BY <1>2 DEF ToSet
<1>7. ASSUME NEW a \in actions
      PROVE  \E i \in DOMAIN p.actions : a = [name |-> p.actions[i].fullname, rawName |-> p.actions[i].name]
  BY <1>6, <1>7
<1>8. \A a \in actions : a = [name |-> ActionName(p.name, p.version, a.rawName), rawName |-> a.rawName]
  BY <1>1, <1>7 DEF IsBuilt
<1>9. \A d, e \in events : d.name = e.name => d = e
  BY <1>3
<1>10. \A e \in events : ListensTo(p.fullname, e.name)
  <2>1. PICK schema \in RemoteSchemas : p = Built[schema]
    BY DEF RemoteBuilt
  <2>2. \A e \in events : \E d \in ToSet(p.events) : d.name = e.name
    BY <1>3
  <2>3. QED
    BY <2>1, <2>2 DEF ListensTo
<1>11. IsInfo(info)
  BY <1>1, <1>5, <1>8, <1>9, <1>10 DEF IsInfo, IsBuilt
<1>12. QED
  BY <1>4, <1>5, <1>6, <1>11

-----------------------------------------------------------------------------
(* The catalogs of endpoints *)

LEMMA InIs ==
  ASSUME NEW map, NEW key, NEW e
  PROVE  In(map, key, e) <=> key \in DOMAIN map /\ e \in DOMAIN map[key]
<1>1. DOMAIN EmptyBag = {}
  BY DEF EmptyBag, SetToBag
<1>2. QED
  BY <1>1 DEF In, EntriesOf

\* What is appended is there, and nothing else is.
LEMMA AddEntriesIs ==
  ASSUME NEW map, NEW keyOf, NEW entryOf, NEW r, r = AddEntries(map, keyOf, entryOf),
         NEW key, NEW e
  PROVE  /\ In(r, key, e) <=> \/ In(map, key, e)
                              \/ \E i \in DOMAIN keyOf : keyOf[i] = key /\ entryOf[i] = e
         /\ Once(map, key, e) /\ (\A i \in DOMAIN keyOf : keyOf[i] # key \/ entryOf[i] # e)
            => Once(r, key, e)
         /\ ~In(map, key, e) /\ (\E i \in DOMAIN keyOf : /\ keyOf[i] = key /\ entryOf[i] = e
                                                        /\ \A j \in DOMAIN keyOf : keyOf[j] = key => j = i)
            => Once(r, key, e)
<1>1. PICK old : old = EntriesOf(map, key)
  OBVIOUS
<1>2. PICK added : added = {i \in DOMAIN keyOf : keyOf[i] = key}
  OBVIOUS
<1>3. PICK keys : keys = DOMAIN map \union {keyOf[i] : i \in DOMAIN keyOf}
  OBVIOUS
<1>4. DOMAIN r = keys
  BY <1>3 DEF AddEntries
<1>5. key \in keys => r[key] = [d \in DOMAIN old \union {entryOf[i] : i \in added} |->
                                  CopiesOf(old, d) + Cardinality({i \in added : entryOf[i] = d})]
  BY <1>1, <1>2, <1>3 DEF AddEntries
<1>6. In(r, key, e) <=> key \in keys /\ e \in DOMAIN old \union {entryOf[i] : i \in added}
  BY <1>4, <1>5, InIs
<1>7. In(map, key, e) <=> key \in DOMAIN map /\ e \in DOMAIN old
  BY <1>1, InIs DEF In, EntriesOf
<1>8. In(map, key, e) => e \in DOMAIN old
  BY <1>1 DEF In
<1>9. e \in DOMAIN old => In(map, key, e)
  BY <1>1 DEF In
<1>10. In(r, key, e) <=> In(map, key, e) \/ \E i \in DOMAIN keyOf : keyOf[i] = key /\ entryOf[i] = e
  BY <1>2, <1>3, <1>6, <1>7, <1>9
<1>11. In(r, key, e) => EntriesOf(r, key)[e] = CopiesOf(old, e) + Cardinality({i \in added : entryOf[i] = e})
  <2>1. In(r, key, e) => EntriesOf(r, key) = r[key]
    BY <1>4, <1>6 DEF EntriesOf
  <2>2. QED
    BY <1>5, <1>6, <2>1
<1>12. ASSUME Once(map, key, e), \A i \in DOMAIN keyOf : keyOf[i] # key \/ entryOf[i] # e
       PROVE  Once(r, key, e)
  <2>1. {i \in added : entryOf[i] = e} = {}
    BY <1>2, <1>12
  <2>2. CopiesOf(old, e) = 1
    BY <1>1, <1>12 DEF Once, In, CopiesOf
  <2>3. Cardinality({i \in added : entryOf[i] = e}) = 0
    BY <2>1, FS_EmptySet, Zenon
  <2>4. In(r, key, e)
    BY <1>10, <1>12 DEF Once
  <2>5. QED
    BY <1>11, <2>2, <2>3, <2>4 DEF Once
<1>13. ASSUME ~In(map, key, e), NEW i \in DOMAIN keyOf, keyOf[i] = key, entryOf[i] = e,
              \A j \in DOMAIN keyOf : keyOf[j] = key => j = i
       PROVE  Once(r, key, e)
  <2>1. {j \in added : entryOf[j] = e} = {i}
    BY <1>2, <1>13
  <2>2. CopiesOf(old, e) = 0
    BY <1>9, <1>13 DEF CopiesOf
  <2>3. Cardinality({j \in added : entryOf[j] = e}) = 1
    BY <2>1, FS_Singleton, Zenon
  <2>4. In(r, key, e)
    BY <1>10, <1>13
  <2>5. QED
    BY <1>11, <2>2, <2>3, <2>4 DEF Once
<1>14. QED
  BY <1>10, <1>12, <1>13

\* The entries of the node go, under the keys.
LEMMA RemoveEntriesIs ==
  ASSUME NEW map, NEW n, NEW keys, NEW r, r = RemoveEntries(map, n, keys), NEW key, NEW e
  PROVE  /\ In(r, key, e) <=> In(map, key, e) /\ (key \notin keys \/ e.node # n)
         /\ Once(map, key, e) /\ (key \notin keys \/ e.node # n) => Once(r, key, e)
<1>1. DOMAIN r = DOMAIN map
  BY DEF RemoveEntries
<1>2. key \in DOMAIN map => r[key] = IF key \in keys THEN WithoutNode(map[key], n) ELSE map[key]
  BY DEF RemoveEntries
<1>3. /\ DOMAIN WithoutNode(map[key], n) = {d \in DOMAIN map[key] : d.node # n}
      /\ e \in DOMAIN WithoutNode(map[key], n) => WithoutNode(map[key], n)[e] = map[key][e]
  BY DEF WithoutNode
<1>4. In(r, key, e) <=> In(map, key, e) /\ (key \notin keys \/ e.node # n)
  BY <1>1, <1>2, <1>3, InIs
<1>5. In(r, key, e) => EntriesOf(r, key) = r[key] /\ EntriesOf(map, key) = map[key] /\ r[key][e] = map[key][e]
  BY <1>1, <1>2, <1>3, InIs DEF EntriesOf
<1>6. QED
  BY <1>4, <1>5 DEF Once

\* The entries of the node go, under all keys.
LEMMA RemoveActionsIs ==
  ASSUME NEW map, NEW n, NEW r, r = RemoveActionsByNode(map, n), NEW key, NEW e
  PROVE  /\ In(r, key, e) <=> In(map, key, e) /\ e.node # n
         /\ Once(map, key, e) /\ e.node # n => Once(r, key, e)
<1>1. PICK kept : kept = [k \in DOMAIN map |-> WithoutNode(map[k], n)]
  OBVIOUS
<1>2. r = [k \in {j \in DOMAIN kept : kept[j] # EmptyBag} |-> kept[k]]
  BY <1>1 DEF RemoveActionsByNode
<1>3. /\ DOMAIN WithoutNode(map[key], n) = {d \in DOMAIN map[key] : d.node # n}
      /\ e \in DOMAIN WithoutNode(map[key], n) => WithoutNode(map[key], n)[e] = map[key][e]
  BY DEF WithoutNode
<1>4. e \notin DOMAIN EmptyBag
  BY DEF EmptyBag, SetToBag
<1>5. In(r, key, e) <=> In(map, key, e) /\ e.node # n
  <2>1. In(r, key, e) <=> key \in DOMAIN map /\ e \in DOMAIN kept[key]
    BY <1>1, <1>2, <1>4, InIs
  <2>2. QED
    BY <1>1, <1>3, <2>1, InIs
<1>6. In(r, key, e) => EntriesOf(r, key) = r[key] /\ EntriesOf(map, key) = map[key] /\ r[key][e] = map[key][e]
  BY <1>1, <1>2, <1>3, InIs DEF EntriesOf
<1>7. QED
  BY <1>5, <1>6 DEF Once

LEMMA RemoveListenersIs ==
  ASSUME NEW map, NEW n, NEW r, r = RemoveEventsByNode(map, n), NEW key, NEW e
  PROVE  In(r, key, e) <=> In(map, key, e) /\ e.node # n
<1>1. DOMAIN r = DOMAIN map /\ \A k \in DOMAIN map : r[k] = WithoutNode(map[k], n)
  BY DEF RemoveEventsByNode
<1>2. DOMAIN WithoutNode(map[key], n) = {d \in DOMAIN map[key] : d.node # n}
  BY DEF WithoutNode
<1>3. QED
  BY <1>1, <1>2, InIs

-----------------------------------------------------------------------------
(* The keys of actions *)

Key(name, version, action) ==
  [v |-> IF version = NoVersion THEN FALSE ELSE TRUE,
   version |-> version, service |-> name, action |-> action]

LEMMA RemoteKeyIs ==
  ASSUME NEW s, NEW action
  PROVE  RemoteKey(action, s) = Key(s.name, s.version, action)
<1>1. PICK a : a = CreateServiceAction(BareName(s), action, "remote")
  OBVIOUS
<1>2. a.fullname = [v |-> FALSE, version |-> NoVersion, service |-> s.name, action |-> action]
  BY <1>1 DEF CreateServiceAction, BareName, JoinVersionToName
<1>3. RemoteKey(action, s) = IF s.version # NoVersion /\ a.fullname.version # s.version
                             THEN [a.fullname EXCEPT !.v = TRUE, !.version = s.version]
                             ELSE a.fullname
  BY <1>1 DEF RemoteKey, ActionKey
<1>4. CASE s.version = NoVersion
  BY <1>2, <1>3, <1>4 DEF Key
<1>5. CASE s.version # NoVersion
  <2>1. RemoteKey(action, s) = [a.fullname EXCEPT !.v = TRUE, !.version = s.version]
    BY <1>2, <1>3, <1>5
  <2>2. RemoteKey(action, s) = [v |-> TRUE, version |-> s.version, service |-> s.name, action |-> action]
    <3>1. PICK f : f = [v |-> FALSE, version |-> NoVersion, service |-> s.name, action |-> action]
      OBVIOUS
    <3>2. PICK g : g = [f EXCEPT !.v = TRUE, !.version = s.version]
      OBVIOUS
    <3>3. g = [v |-> TRUE, version |-> s.version, service |-> s.name, action |-> action]
      BY <3>1, <3>2
    <3>4. QED
      BY <1>2, <2>1, <3>1, <3>2, <3>3, Zenon
  <2>3. QED
    BY <1>5, <2>2 DEF Key
<1>6. QED
  BY <1>4, <1>5

\* Under which key an action is entered, and what tells such keys apart.
LEMMA KeyIs ==
  ASSUME NEW s, WellKnown(s), NEW a \in s.actions
  PROVE  /\ KeyOf(a, s) = IF s.node = Self THEN a.fullname ELSE Key(s.name, s.version, a.name)
         /\ s.version = NoVersion => KeyOf(a, s) = a.fullname
         /\ WithVersion(KeyOf(a, s)) <=> s.version # NoVersion
         /\ WithVersion(a.fullname) <=> s.version # NoVersion
<1>1. a.fullname = ActionName(s.name, s.version, a.name)
  BY DEF WellKnown
<1>2. ActionKey(a, s) = a.fullname
  BY <1>1 DEF ActionKey, ActionName
<1>3. KeyOf(a, s) = IF s.node = Self THEN a.fullname ELSE Key(s.name, s.version, a.name)
  BY <1>2, RemoteKeyIs DEF KeyOf
<1>4. s.version = NoVersion => Key(s.name, s.version, a.name) = a.fullname
  BY <1>1 DEF Key, ActionName
<1>5. a.fullname.version = s.version /\ Key(s.name, s.version, a.name).version = s.version
  BY <1>1 DEF Key, ActionName
<1>6. QED
  BY <1>3, <1>4, <1>5 DEF WithVersion

LEMMA ActionNameIs ==
  ASSUME NEW name, NEW version, NEW action, NEW name2, NEW version2, NEW action2,
         ActionName(name, version, action) = ActionName(name2, version2, action2)
  PROVE  name = name2 /\ version = version2 /\ action = action2
<1>1. PICK x : x = ActionName(name, version, action)
  OBVIOUS
<1>2. x.service = name /\ x.version = version /\ x.action = action
  BY <1>1 DEF ActionName
<1>3. x.service = name2 /\ x.version = version2 /\ x.action = action2
  BY <1>1 DEF ActionName
<1>4. QED
  BY <1>2, <1>3

LEMMA KeysDiffer ==
  ASSUME NEW name, NEW version, NEW action, NEW name2, NEW version2, NEW action2,
         Key(name, version, action) = Key(name2, version2, action2)
  PROVE  name = name2 /\ version = version2 /\ action = action2
<1>1. PICK k : k = Key(name, version, action)
  OBVIOUS
<1>2. k.version = version /\ k.service = name /\ k.action = action
  BY <1>1 DEF Key
<1>3. k.version = version2 /\ k.service = name2 /\ k.action = action2
  BY <1>1 DEF Key
<1>4. QED
  BY <1>2, <1>3

LEMMA KeyIsName ==
  ASSUME NEW name, NEW version, NEW action, NEW name2, NEW version2, NEW action2,
         Key(name, version, action) = ActionName(name2, version2, action2)
  PROVE  name = name2 /\ version = version2 /\ version = NoVersion /\ action = action2
<1>1. PICK k : k = Key(name, version, action)
  OBVIOUS
<1>2. k.v = FALSE /\ k.version = version2 /\ k.service = name2 /\ k.action = action2
  BY <1>1 DEF ActionName
<1>3. k.version = version /\ k.service = name /\ k.action = action
  BY <1>1 DEF Key
<1>4. version # NoVersion => k.v = TRUE
  BY <1>1 DEF Key
<1>5. QED
  BY <1>2, <1>3, <1>4

LEMMA KeyVersion ==
  ASSUME NEW name, NEW version, NEW action
  PROVE  /\ Key(name, NoVersion, action) = ActionName(name, NoVersion, action)
         /\ WithVersion(ActionName(name, version, action)) <=> version # NoVersion
         /\ WithVersion(Key(name, version, action)) <=> version # NoVersion
BY DEF Key, ActionName, WithVersion

\* A service of another node has one entry for the node, and no other service has it.
LEMMA EntryIs ==
  ASSUME NEW s, NEW t
  PROVE  /\ EntryOf(s).node = s.node
         /\ EntryOf(s) = EntryOf(t) <=> s.node = t.node
         /\ s.node # Self => EntryOf(s) = RemoteEntry(s.node)
<1>1. EntryOf(s).node = s.node /\ EntryOf(t).node = t.node
  BY DEF EntryOf
<1>2. s.node # Self => EntryOf(s) = RemoteEntry(s.node)
  BY DEF EntryOf, RemoteEntry
<1>3. s.node = t.node => EntryOf(s) = EntryOf(t)
  BY DEF EntryOf
<1>4. QED
  BY <1>1, <1>2, <1>3

\* An entry under a key without a version is that of the only service it can be of.
LEMMA OwnerIs ==
  ASSUME NEW c, ServicesFit(c), ActionsFit(c), NEW n, NEW e, e.node = n,
         NEW name, NEW action, In(c.actions, ActionName(name, NoVersion, action), e)
  PROVE  \E s \in c.known : /\ s.node = n /\ s.name = name /\ s.version = NoVersion /\ EntryOf(s) = e
                            /\ \E a \in s.actions : a.fullname = ActionName(name, NoVersion, action)
<1>1. PICK key : key = ActionName(name, NoVersion, action)
  OBVIOUS
<1>2. ~WithVersion(key)
  BY <1>1, KeyVersion
<1>3. PICK s \in c.known : EntryOf(s) = e /\ \E a \in s.actions : a.fullname = key
  BY <1>1, <1>2, InIs DEF ActionsFit
<1>4. PICK a \in s.actions : a.fullname = key
  BY <1>3
<1>5. a.fullname = ActionName(s.name, s.version, a.name)
  BY <1>4 DEF ServicesFit, WellKnown
<1>6. s.name = name /\ s.version = NoVersion
  <2>1. ActionName(s.name, s.version, a.name) = ActionName(name, NoVersion, action)
    BY <1>1, <1>4, <1>5
  <2>2. QED
    BY <2>1, ActionNameIs
<1>7. s.node = n
  BY <1>3, EntryIs
<1>8. QED
  BY <1>1, <1>3, <1>4, <1>6, <1>7

-----------------------------------------------------------------------------
(* What is known of a service of another node *)

Fields == {"node", "name", "version", "fullname", "settings", "metadata", "actions", "events"}

\* The two differ in their actions, their events and their settings only.
Alike(s, t) == SameService(s, t) /\ s.fullname = t.fullname

\* A known service is changed by an INFO of the same service.
LEMMA AddActionMapIs ==
  ASSUME NEW s, DOMAIN s = Fields, s.fullname = JoinVersionToName(s.name, s.version),
         NEW info, IsInfo(info), info.name = s.name, info.version = s.version,
         NEW infos, infos \subseteq info.actions, NEW r, r = AddActionMap(s, infos)
  PROVE  /\ DOMAIN r = Fields /\ Alike(r, s) /\ r.events = s.events /\ r.settings = s.settings
         /\ r.actions = s.actions \union {[name |-> i.rawName, fullname |-> i.name] : i \in infos}
<1>1. PICK more : more = {[name |-> i.rawName,
                           fullname |-> CreateServiceAction(s.fullname, i.rawName, "remote").fullname] : i \in infos}
  OBVIOUS
<1>2. r = [s EXCEPT !.actions = s.actions \union more]
  BY <1>1 DEF AddActionMap
<1>3. /\ DOMAIN r = Fields /\ r.actions = s.actions \union more
      /\ \A x \in Fields \ {"actions"} : r[x] = s[x]
  BY <1>2 DEF Fields
<1>4. \A i \in infos : CreateServiceAction(s.fullname, i.rawName, "remote").fullname = i.name
  <2>1. \A action : CreateServiceAction(s.fullname, action, "remote").fullname = ActionName(s.name, s.version, action)
    BY DEF CreateServiceAction, ActionName, JoinVersionToName
  <2>2. QED
    BY <2>1 DEF IsInfo
<1>5. more = {[name |-> i.rawName, fullname |-> i.name] : i \in infos}
  BY <1>1, <1>4
<1>6. Alike(r, s) /\ r.events = s.events /\ r.settings = s.settings
  BY <1>3 DEF Fields, Alike, SameService
<1>7. QED
  BY <1>3, <1>5, <1>6

LEMMA AddEventMapIs ==
  ASSUME NEW s, DOMAIN s = Fields, NEW infos, NEW r, r = AddEventMap(s, infos)
  PROVE  /\ DOMAIN r = Fields /\ Alike(r, s) /\ r.actions = s.actions /\ r.settings = s.settings
         /\ r.events = s.events \union {[name |-> i.name, group |-> i.group] : i \in infos}
<1>1. PICK more : more = {[name |-> i.name, group |-> i.group] : i \in infos}
  OBVIOUS
<1>2. r = [s EXCEPT !.events = s.events \union more]
  BY <1>1 DEF AddEventMap
<1>3. /\ DOMAIN r = Fields /\ r.events = s.events \union more
      /\ \A x \in Fields \ {"events"} : r[x] = s[x]
  BY <1>2 DEF Fields
<1>4. Alike(r, s) /\ r.actions = s.actions /\ r.settings = s.settings
  BY <1>3 DEF Fields, Alike, SameService
<1>5. QED
  BY <1>1, <1>3, <1>4

LEMMA RemoveActionIs ==
  ASSUME NEW s, DOMAIN s = Fields, NEW fullnames, NEW r, r = RemoveAction(s, fullnames)
  PROVE  /\ DOMAIN r = Fields /\ Alike(r, s) /\ r.events = s.events /\ r.settings = s.settings
         /\ r.actions = {a \in s.actions : a.fullname \notin fullnames}
<1>1. PICK kept : kept = {a \in s.actions : a.fullname \notin fullnames}
  OBVIOUS
<1>2. r = [s EXCEPT !.actions = kept]
  BY <1>1 DEF RemoveAction
<1>3. DOMAIN r = Fields /\ r.actions = kept /\ \A x \in Fields \ {"actions"} : r[x] = s[x]
  BY <1>2 DEF Fields
<1>4. Alike(r, s) /\ r.events = s.events /\ r.settings = s.settings
  BY <1>3 DEF Fields, Alike, SameService
<1>5. QED
  BY <1>1, <1>3, <1>4

LEMMA RemoveEventIs ==
  ASSUME NEW s, DOMAIN s = Fields, NEW names, NEW r, r = RemoveEvent(s, names)
  PROVE  /\ DOMAIN r = Fields /\ Alike(r, s) /\ r.actions = s.actions /\ r.settings = s.settings
         /\ r.events = {e \in s.events : e.name \notin names}
<1>1. PICK kept : kept = {e \in s.events : e.name \notin names}
  OBVIOUS
<1>2. r = [s EXCEPT !.events = kept]
  BY <1>1 DEF RemoveEvent
<1>3. DOMAIN r = Fields /\ r.events = kept /\ \A x \in Fields \ {"events"} : r[x] = s[x]
  BY <1>2 DEF Fields
<1>4. Alike(r, s) /\ r.actions = s.actions /\ r.settings = s.settings
  BY <1>3 DEF Fields, Alike, SameService
<1>5. QED
  BY <1>1, <1>3, <1>4

LEMMA UpdateFromMapIs ==
  ASSUME NEW s, DOMAIN s = Fields, NEW info, NEW r, r = UpdateFromMap(s, info)
  PROVE  /\ DOMAIN r = Fields /\ Alike(r, s) /\ r.settings = info.settings
         /\ r.actions = s.actions /\ r.events = s.events
<1>1. PICK f : f = [s EXCEPT !.settings = info.settings]
  OBVIOUS
<1>2. r = [f EXCEPT !.metadata = info.metadata]
  BY <1>1 DEF UpdateFromMap
<1>3. DOMAIN f = Fields /\ f.settings = info.settings /\ \A x \in Fields \ {"settings"} : f[x] = s[x]
  BY <1>1 DEF Fields
<1>4. DOMAIN r = Fields /\ \A x \in Fields \ {"metadata"} : r[x] = f[x]
  BY <1>2, <1>3 DEF Fields
<1>5. QED
  BY <1>3, <1>4 DEF Fields, Alike, SameService

LEMMA CreatedIs ==
  ASSUME NEW info, IsInfo(info), NEW n \in Nodes, NEW s, s = CreateServiceFromMap(info, n)
  PROVE  /\ WellKnown(s)
         /\ s.node = n /\ s.name = info.name /\ s.version = info.version /\ s.settings = info.settings
         /\ s.actions = {[name |-> i.rawName, fullname |-> i.name] : i \in info.actions}
         /\ s.events = {[name |-> i.name, group |-> i.group] : i \in info.events}
<1>1. PICK empty : empty = [node |-> n, name |-> info.name, version |-> info.version,
                            fullname |-> JoinVersionToName(info.name, info.version),
                            settings |-> info.settings, metadata |-> info.metadata,
                            actions |-> {}, events |-> {}]
  OBVIOUS
<1>2. PICK t : t = AddActionMap(empty, info.actions)
  OBVIOUS
<1>3. s = AddEventMap(t, info.events)
  BY <1>1, <1>2 DEF CreateServiceFromMap
<1>4. /\ DOMAIN empty = Fields
      /\ empty.node = n /\ empty.name = info.name /\ empty.version = info.version
      /\ empty.settings = info.settings /\ empty.actions = {} /\ empty.events = {}
      /\ empty.fullname = JoinVersionToName(empty.name, empty.version)
  BY <1>1 DEF Fields
<1>5. /\ DOMAIN t = Fields /\ Alike(t, empty) /\ t.events = empty.events /\ t.settings = empty.settings
      /\ t.actions = empty.actions \union {[name |-> i.rawName, fullname |-> i.name] : i \in info.actions}
  BY <1>2, <1>4, AddActionMapIs
<1>6. /\ DOMAIN s = Fields /\ Alike(s, t) /\ s.actions = t.actions /\ s.settings = t.settings
      /\ s.events = t.events \union {[name |-> i.name, group |-> i.group] : i \in info.events}
  BY <1>3, <1>5, AddEventMapIs
<1>7. /\ s.node = n /\ s.name = info.name /\ s.version = info.version /\ s.settings = info.settings
      /\ s.fullname = JoinVersionToName(info.name, info.version)
  BY <1>4, <1>5, <1>6 DEF Alike, SameService
<1>8. /\ s.actions = {[name |-> i.rawName, fullname |-> i.name] : i \in info.actions}
      /\ s.events = {[name |-> i.name, group |-> i.group] : i \in info.events}
  BY <1>4, <1>5, <1>6
<1>9. \A a \in s.actions : a.fullname = ActionName(info.name, info.version, a.name)
  BY <1>8 DEF IsInfo
<1>10. \A e \in s.events : ListensTo(s.fullname, e.name)
  BY <1>7, <1>8 DEF IsInfo
<1>11. WellKnown(s)
  BY <1>6, <1>7, <1>9, <1>10 DEF WellKnown, Fields, Brokers
<1>12. QED
  BY <1>7, <1>8, <1>11

-----------------------------------------------------------------------------
(* A service is added: one of Self, or one of another node. *)

Added(c, s, r) ==
  /\ IsCatalog(r)
  /\ r.known = c.known \union {s}
  /\ DOMAIN r.byName = DOMAIN c.byName \union {BareName(s), s.fullname}

LEMMA AddIs ==
  ASSUME NEW c, IsCatalog(c), NEW s, NEW r, r = Add(c, s)
  PROVE  Added(c, s, r) /\ r.actions = c.actions /\ r.events = c.events
<1>1. PICK names : names = {BareName(s), s.fullname}
  OBVIOUS
<1>2. PICK byName : byName = [name \in DOMAIN c.byName \union names |->
                                IF name \in names THEN Counter(c.byName, s.fullname) + 1 ELSE c.byName[name]]
  OBVIOUS
<1>3. PICK f : f = [c EXCEPT !.known = c.known \union {s}]
  OBVIOUS
<1>4. r = [f EXCEPT !.byName = byName]
  <2>1. f.byName = c.byName
    BY <1>3 DEF IsCatalog
  <2>2. r = [f EXCEPT !.byName = [name \in DOMAIN f.byName \union names |->
                                IF name \in names THEN Counter(f.byName, s.fullname) + 1 ELSE f.byName[name]]]
    BY <1>1, <1>3 DEF Add
  <2>3. QED
    BY <1>2, <2>1, <2>2
<1>5. DOMAIN byName = DOMAIN c.byName \union names
  BY <1>2
<1>6. QED
  BY <1>1, <1>3, <1>4, <1>5 DEF IsCatalog, Added

\* The service that is added is none that is known, it gets an entry for each of its
\* actions, and a listener of another node for each of its events.
Enters(s, keyOf, entryOf) ==
  /\ \A i \in DOMAIN keyOf : entryOf[i] = EntryOf(s) /\ \E a \in s.actions : keyOf[i] = KeyOf(a, s)
  /\ \A a \in s.actions : \E i \in DOMAIN keyOf :
       /\ keyOf[i] = KeyOf(a, s)
       /\ s.version = NoVersion => \A j \in DOMAIN keyOf : keyOf[j] = keyOf[i] => j = i

Listens(s, nameOf, listenerOf) ==
  /\ \A i \in DOMAIN nameOf :
       /\ listenerOf[i].node = s.node /\ listenerOf[i].service = s.fullname
       /\ [name |-> nameOf[i], group |-> listenerOf[i].group] \in s.events
  /\ s.node # Self => \A e \in s.events : \E i \in DOMAIN nameOf :
       nameOf[i] = e.name /\ listenerOf[i] = Listener(s, e, FALSE)

LEMMA NewServicesFit ==
  ASSUME NEW c, ServicesFit(c), NEW s, WellKnown(s), \A t \in c.known : ~SameService(s, t),
         NEW r, Added(c, s, r)
  PROVE  ServicesFit(r)
<1>1. IsCatalog(r) /\ \A t \in r.known : t = s \/ t \in c.known
  BY DEF Added
<1>2. \A t \in r.known : FindByName(r, BareName(t)) /\ FindByName(r, t.fullname)
  BY <1>1 DEF ServicesFit, FindByName, Added
<1>3. \A t \in r.known : WellKnown(t)
  BY <1>1 DEF ServicesFit
<1>4. \A t, u \in r.known : SameService(t, u) => t = u
  <2>1. \A t \in c.known : ~SameService(t, s)
    BY DEF SameService
  <2>2. QED
    BY <1>1, <2>1 DEF ServicesFit
<1>5. QED
  BY <1>1, <1>2, <1>3, <1>4 DEF ServicesFit

LEMMA NewActionsFit ==
  ASSUME NEW c, ServicesFit(c), ActionsFit(c),
         NEW s, WellKnown(s), \A t \in c.known : ~SameService(s, t),
         NEW keyOf, NEW entryOf, Enters(s, keyOf, entryOf),
         NEW r, Added(c, s, r), r.actions = AddEntries(c.actions, keyOf, entryOf)
  PROVE  ActionsFit(r)
<1>1. r.known = c.known \union {s}
  BY DEF Added
<1>2. \A key, e : In(r.actions, key, e) <=>
                    \/ In(c.actions, key, e)
                    \/ \E i \in DOMAIN keyOf : keyOf[i] = key /\ entryOf[i] = e
  BY AddEntriesIs
\* The entries of the other services are still there, and none was added to them.
<1>3. ASSUME NEW t \in c.known, NEW a \in t.actions
      PROVE  /\ In(r.actions, KeyOf(a, t), EntryOf(t))
             /\ t.version = NoVersion => Once(r.actions, KeyOf(a, t), EntryOf(t))
  <2>1. In(c.actions, KeyOf(a, t), EntryOf(t)) /\ WellKnown(t)
    BY DEF ActionsFit, ServicesFit
  <2>2. ASSUME t.version = NoVersion, NEW i \in DOMAIN keyOf, keyOf[i] = KeyOf(a, t), entryOf[i] = EntryOf(t)
        PROVE  FALSE
    <3>1. PICK b \in s.actions : keyOf[i] = KeyOf(b, s)
      BY DEF Enters
    <3>2. s.node = t.node
      BY <2>2, EntryIs DEF Enters
    <3>3. s.version = NoVersion
      BY <2>1, <2>2, <3>1, KeyIs
    <3>4. ActionName(s.name, s.version, b.name) = ActionName(t.name, t.version, a.name)
      <4>1. KeyOf(b, s) = b.fullname /\ KeyOf(a, t) = a.fullname
        BY <2>1, <2>2, <3>3, KeyIs
      <4>2. /\ b.fullname = ActionName(s.name, s.version, b.name)
            /\ a.fullname = ActionName(t.name, t.version, a.name)
        BY <2>1 DEF WellKnown
      <4>3. QED
        BY <2>2, <3>1, <4>1, <4>2
    <3>5. s.name = t.name
      BY <3>4, ActionNameIs
    <3>6. QED
      BY <2>2, <3>2, <3>3, <3>5 DEF SameService
  <2>3. t.version = NoVersion => Once(r.actions, KeyOf(a, t), EntryOf(t))
    <3>1. t.version = NoVersion => Once(c.actions, KeyOf(a, t), EntryOf(t))
      BY DEF ActionsFit
    <3>2. QED
      BY <2>2, <3>1, AddEntriesIs
  <2>4. QED
    BY <1>2, <2>1, <2>3
<1>4. ASSUME NEW a \in s.actions
      PROVE  /\ In(r.actions, KeyOf(a, s), EntryOf(s))
             /\ s.version = NoVersion => Once(r.actions, KeyOf(a, s), EntryOf(s))
  <2>1. PICK i \in DOMAIN keyOf :
          /\ keyOf[i] = KeyOf(a, s)
          /\ s.version = NoVersion => \A j \in DOMAIN keyOf : keyOf[j] = keyOf[i] => j = i
    BY DEF Enters
  <2>2. entryOf[i] = EntryOf(s)
    BY DEF Enters
  <2>3. ASSUME s.version = NoVersion, In(c.actions, KeyOf(a, s), EntryOf(s)) PROVE FALSE
    <3>1. KeyOf(a, s) = ActionName(s.name, NoVersion, a.name)
      BY <2>3, KeyIs DEF WellKnown
    <3>2. EntryOf(s).node = s.node
      BY EntryIs
    <3>3. PICK t \in c.known : t.node = s.node /\ t.name = s.name /\ t.version = NoVersion
      BY <2>3, <3>1, <3>2, OwnerIs
    <3>4. QED
      BY <2>3, <3>3 DEF SameService
  <2>4. In(r.actions, KeyOf(a, s), EntryOf(s))
    BY <1>2, <2>1, <2>2
  <2>5. s.version = NoVersion => Once(r.actions, KeyOf(a, s), EntryOf(s))
    BY <2>1, <2>2, <2>3, AddEntriesIs
  <2>6. QED
    BY <2>4, <2>5
<1>5. ASSUME NEW key, NEW e, In(r.actions, key, e)
      PROVE  WithVersion(key) \/ \E t \in r.known : EntryOf(t) = e /\ \E a \in t.actions : a.fullname = key
  <2>1. CASE In(c.actions, key, e)
    BY <1>1, <2>1, InIs DEF ActionsFit
  <2>2. ASSUME NEW i \in DOMAIN keyOf, keyOf[i] = key, entryOf[i] = e
        PROVE  WithVersion(key) \/ \E t \in r.known : EntryOf(t) = e /\ \E a \in t.actions : a.fullname = key
    <3>1. PICK a \in s.actions : key = KeyOf(a, s)
      BY <2>2 DEF Enters
    <3>2. e = EntryOf(s)
      BY <2>2 DEF Enters
    <3>3. WithVersion(key) \/ a.fullname = key
      BY <3>1, KeyIs
    <3>4. QED
      BY <1>1, <3>1, <3>2, <3>3
  <2>3. QED
    BY <1>2, <1>5, <2>1, <2>2
<1>6. QED
  BY <1>1, <1>3, <1>4, <1>5, InIs DEF ActionsFit

LEMMA NewEventsFit ==
  ASSUME NEW c, EventsFit(c), NEW s, NEW nameOf, NEW listenerOf, Listens(s, nameOf, listenerOf),
         NEW r, Added(c, s, r), r.events = AddEntries(c.events, nameOf, listenerOf)
  PROVE  EventsFit(r)
<1>1. r.known = c.known \union {s}
  BY DEF Added
<1>2. \A name, l : In(r.events, name, l) <=>
                     \/ In(c.events, name, l)
                     \/ \E i \in DOMAIN nameOf : nameOf[i] = name /\ listenerOf[i] = l
  BY AddEntriesIs
<1>3. ASSUME NEW name, NEW l, In(r.events, name, l)
      PROVE  \E t \in r.known : t.node = l.node /\ t.fullname = l.service
                                /\ [name |-> name, group |-> l.group] \in t.events
  <2>1. CASE In(c.events, name, l)
    BY <1>1, <2>1, InIs DEF EventsFit
  <2>2. QED
    BY <1>1, <1>2, <1>3, <2>1 DEF Listens
<1>4. ASSUME NEW t \in r.known, NEW e \in t.events
      PROVE  t.node = Self \/ Shared(t, e.name) \/ In(r.events, e.name, Listener(t, e, FALSE))
  <2>1. CASE t \in c.known
    BY <1>2, <2>1 DEF EventsFit
  <2>2. CASE t = s /\ s.node # Self
    <3>1. PICK i \in DOMAIN nameOf : nameOf[i] = e.name /\ listenerOf[i] = Listener(s, e, FALSE)
      BY <2>2 DEF Listens
    <3>2. QED
      BY <1>2, <2>2, <3>1
  <2>3. CASE t = s /\ s.node = Self
    BY <2>3
  <2>4. QED
    BY <1>1, <2>1, <2>2, <2>3
<1>5. QED
  BY <1>3, <1>4, InIs DEF EventsFit

\* A service of another node is added.
LEMMA AddRemoteFits ==
  ASSUME NEW c, Fit(c), NEW n \in Nodes, NEW info, IsInfo(info), FindService(c, info, n) = {},
         NEW s, s = CreateServiceFromMap(info, n), NEW r, r = AddRemote(c, info, n)
  PROVE  Fit(r) /\ Added(c, s, r)
<1>1. /\ WellKnown(s) /\ s.node = n /\ s.name = info.name /\ s.version = info.version
      /\ s.actions = {[name |-> i.rawName, fullname |-> i.name] : i \in info.actions}
  BY CreatedIs
<1>2. PICK keyOf : keyOf = [a \in s.actions |-> RemoteKey(a.name, s)]
  OBVIOUS
<1>3. PICK entryOf : entryOf = [a \in s.actions |-> RemoteEntry(n)]
  OBVIOUS
<1>4. PICK nameOf : nameOf = [e \in s.events |-> e.name]
  OBVIOUS
<1>5. PICK listenerOf : listenerOf = [e \in s.events |-> Listener(s, e, FALSE)]
  OBVIOUS
<1>6. ServicesFit(c) /\ ActionsFit(c) /\ EventsFit(c)
  BY DEF Fit
<1>7. PICK added : added = Add(c, s)
  OBVIOUS
<1>8. Added(c, s, added) /\ added.actions = c.actions /\ added.events = c.events
  BY <1>6, <1>7, AddIs DEF ServicesFit
<1>9. PICK f : f = [added EXCEPT !.actions = AddEntries(added.actions, keyOf, entryOf)]
  OBVIOUS
<1>10. r = [f EXCEPT !.events = AddEntries(f.events, nameOf, listenerOf)]
  BY <1>2, <1>3, <1>4, <1>5, <1>7, <1>9 DEF AddRemote
<1>11. /\ Added(c, s, r)
       /\ r.actions = AddEntries(c.actions, keyOf, entryOf)
       /\ r.events = AddEntries(c.events, nameOf, listenerOf)
  BY <1>8, <1>9, <1>10 DEF IsCatalog, Added
<1>12. \A t \in c.known : ~SameService(s, t)
  BY <1>1 DEF FindService, SameService
<1>13. Enters(s, keyOf, entryOf)
  <2>1. s.node # Self /\ EntryOf(s) = RemoteEntry(n)
    BY <1>1, EntryIs, SelfAssumption
  <2>2. \A a \in s.actions : keyOf[a] = KeyOf(a, s) /\ keyOf[a] = Key(s.name, s.version, a.name)
    BY <1>2, <2>1, RemoteKeyIs DEF KeyOf
  <2>3. \A a, b \in s.actions : a.name = b.name => a = b
    BY <1>1 DEF IsInfo
  <2>4. \A a, b \in s.actions : keyOf[a] = keyOf[b] => a = b
    BY <2>2, <2>3, KeysDiffer
  <2>5. DOMAIN keyOf = s.actions
    BY <1>2
  <2>6. \A a \in s.actions : entryOf[a] = EntryOf(s)
    BY <1>3, <2>1
  <2>7. QED
    BY <2>2, <2>4, <2>5, <2>6 DEF Enters
<1>14. Listens(s, nameOf, listenerOf)
  <2>1. \A e \in s.events : e = [name |-> e.name, group |-> e.group]
    BY CreatedIs
  <2>2. \A e \in s.events : /\ listenerOf[e].node = s.node /\ listenerOf[e].service = s.fullname
                            /\ listenerOf[e].group = e.group
    BY <1>5 DEF Listener
  <2>3. DOMAIN nameOf = s.events /\ \A e \in s.events : nameOf[e] = e.name
    BY <1>4
  <2>4. \A e \in s.events : [name |-> nameOf[e], group |-> listenerOf[e].group] \in s.events
    BY <2>1, <2>2, <2>3
  <2>5. \A e \in s.events : listenerOf[e] = Listener(s, e, FALSE)
    BY <1>5
  <2>6. QED
    BY <2>2, <2>3, <2>4, <2>5 DEF Listens
<1>15. ServicesFit(r)
  BY <1>1, <1>6, <1>11, <1>12, NewServicesFit
<1>16. ActionsFit(r)
  BY <1>1, <1>6, <1>11, <1>12, <1>13, NewActionsFit
<1>17. EventsFit(r)
  BY <1>6, <1>11, <1>14, NewEventsFit
<1>18. QED
  BY <1>11, <1>15, <1>16, <1>17 DEF Fit

-----------------------------------------------------------------------------
(* A service of another node is updated: it is s in the catalogs c, u when   *)
(* its settings, v when its actions and t when its events have changed.      *)

\* What the INFO adds to the actions, what there is then, and what of it goes.
NewActions(s, info) == {a \in info.actions : \A b \in s.actions : b.fullname # a.name}
AllActions(s, info) == s.actions \union {[name |-> i.rawName, fullname |-> i.name] : i \in NewActions(s, info)}
GoneActions(s, info) == {a.fullname : a \in AllActions(s, info)} \ {i.name : i \in info.actions}

NewEvents(s, info) == {e \in info.events : \A d \in s.events : d.name # e.name}
AllEvents(s, info) == s.events \union {[name |-> i.name, group |-> i.group] : i \in NewEvents(s, info)}
GoneEvents(s, info) == {d.name : d \in AllEvents(s, info)} \ {e.name : e \in info.events}

KeptActions(s, info) == {a \in AllActions(s, info) : a.fullname \notin GoneActions(s, info)}
KeptEvents(s, info) == {e \in AllEvents(s, info) : e.name \notin GoneEvents(s, info)}

\* The catalogs of actions and of events then.
ActionsMap(c, u, info) ==
  RemoveEntries(AddEntries(c.actions, [i \in NewActions(u, info) |-> RemoteKey(i.rawName, u)],
                                      [i \in NewActions(u, info) |-> RemoteEntry(u.node)]),
                u.node, GoneActions(u, info))

EventsMap(c, v, info) ==
  RemoveEntries(AddEntries(c.events, [e \in NewEvents(v, info) |-> e.name],
                                     [e \in NewEvents(v, info) |-> Listener(v, e, FALSE)]),
                v.node, GoneEvents(v, info))

LEMMA UpdateActionsIs ==
  ASSUME NEW c, NEW u, DOMAIN u = Fields, u.fullname = JoinVersionToName(u.name, u.version),
         NEW info, IsInfo(info), info.name = u.name, info.version = u.version,
         NEW r, r = UpdateActions(c, u, info)
  PROVE  /\ DOMAIN r.s = Fields /\ Alike(r.s, u) /\ r.s.events = u.events /\ r.s.settings = u.settings
         /\ r.s.actions = KeptActions(u, info) /\ r.map = ActionsMap(c, u, info)
<1>1. PICK new : new = NewActions(u, info)
  OBVIOUS
<1>2. PICK added : added = AddActionMap(u, new)
  OBVIOUS
<1>3. /\ DOMAIN added = Fields /\ Alike(added, u) /\ added.events = u.events /\ added.settings = u.settings
      /\ added.actions = AllActions(u, info)
  <2>1. new \subseteq info.actions
    BY <1>1 DEF NewActions
  <2>2. QED
    BY <1>1, <1>2, <2>1, AddActionMapIs DEF AllActions
<1>4. PICK gone : gone = GoneActions(u, info)
  OBVIOUS
<1>5. gone = {a.fullname : a \in added.actions} \ {i.name : i \in info.actions}
  BY <1>3, <1>4 DEF GoneActions
<1>6. PICK v : v = RemoveAction(added, gone)
  OBVIOUS
<1>7. /\ DOMAIN v = Fields /\ Alike(v, added) /\ v.events = added.events /\ v.settings = added.settings
      /\ v.actions = {a \in added.actions : a.fullname \notin gone}
  BY <1>3, <1>6, RemoveActionIs
<1>8. r.s = v /\ r.map = ActionsMap(c, u, info)
  BY <1>1, <1>2, <1>4, <1>5, <1>6 DEF UpdateActions, NewActions, ActionsMap
<1>9. v.actions = KeptActions(u, info)
  BY <1>3, <1>4, <1>7 DEF KeptActions
<1>10. QED
  BY <1>3, <1>7, <1>8, <1>9 DEF Alike, SameService

LEMMA UpdateEventsIs ==
  ASSUME NEW c, NEW v, DOMAIN v = Fields, NEW info, NEW r, r = UpdateEvents(c, v, info)
  PROVE  /\ DOMAIN r.s = Fields /\ Alike(r.s, v) /\ r.s.actions = v.actions /\ r.s.settings = v.settings
         /\ r.s.events = KeptEvents(v, info) /\ r.map = EventsMap(c, v, info)
<1>1. PICK new : new = NewEvents(v, info)
  OBVIOUS
<1>2. PICK added : added = AddEventMap(v, new)
  OBVIOUS
<1>3. /\ DOMAIN added = Fields /\ Alike(added, v) /\ added.actions = v.actions /\ added.settings = v.settings
      /\ added.events = AllEvents(v, info)
  BY <1>1, <1>2, AddEventMapIs DEF AllEvents
<1>4. PICK gone : gone = GoneEvents(v, info)
  OBVIOUS
<1>5. gone = {d.name : d \in added.events} \ {e.name : e \in info.events}
  BY <1>3, <1>4 DEF GoneEvents
<1>6. PICK t : t = RemoveEvent(added, gone)
  OBVIOUS
<1>7. /\ DOMAIN t = Fields /\ Alike(t, added) /\ t.actions = added.actions /\ t.settings = added.settings
      /\ t.events = {e \in added.events : e.name \notin gone}
  BY <1>3, <1>6, RemoveEventIs
<1>8. r.s = t /\ r.map = EventsMap(c, v, info)
  BY <1>1, <1>2, <1>4, <1>5, <1>6 DEF UpdateEvents, NewEvents, EventsMap
<1>9. t.events = KeptEvents(v, info)
  BY <1>3, <1>4, <1>7 DEF KeptEvents
<1>10. QED
  BY <1>3, <1>7, <1>8, <1>9 DEF Alike, SameService

\* t takes the place of s, which is the same service.
Replaced(c, s, t, r) ==
  /\ IsCatalog(r) /\ r.byName = c.byName
  /\ r.known = (c.known \ {s}) \union {t}
  /\ s \in c.known /\ Alike(t, s)

LEMMA ReplacedServicesFit ==
  ASSUME NEW c, ServicesFit(c), NEW s, NEW t, WellKnown(t), NEW r, Replaced(c, s, t, r)
  PROVE  ServicesFit(r)
<1>1. /\ IsCatalog(r) /\ r.byName = c.byName /\ s \in c.known /\ SameService(t, s) /\ t.fullname = s.fullname
      /\ \A w \in r.known : w = t \/ (w \in c.known /\ w # s)
  BY DEF Replaced, Alike
<1>2. \A w \in c.known : WellKnown(w) /\ FindByName(r, BareName(w)) /\ FindByName(r, w.fullname)
  BY <1>1 DEF ServicesFit, FindByName
<1>3. BareName(t) = BareName(s)
  BY <1>1 DEF SameService, BareName
<1>4. \A w \in r.known : WellKnown(w) /\ FindByName(r, BareName(w)) /\ FindByName(r, w.fullname)
  BY <1>1, <1>2, <1>3
<1>5. \A w \in c.known : w # s => ~SameService(w, t) /\ ~SameService(t, w)
  BY <1>1 DEF ServicesFit, SameService
<1>6. \A w, x \in r.known : SameService(w, x) => w = x
  BY <1>1, <1>5 DEF ServicesFit
<1>7. QED
  BY <1>1, <1>4, <1>6 DEF ServicesFit

LEMMA ReplacedActionsFit ==
  ASSUME NEW c, ServicesFit(c), ActionsFit(c), NEW n \in Nodes,
         NEW s, s.node = n, NEW t, WellKnown(t), NEW r, Replaced(c, s, t, r),
         NEW info, IsInfo(info), info.name = s.name, info.version = s.version,
         t.actions = KeptActions(s, info), NEW u, Alike(u, s), u.actions = s.actions,
         r.actions = ActionsMap(c, u, info)
  PROVE  ActionsFit(r)
<1>1. PICK new : new = NewActions(s, info)
  OBVIOUS
<1>2. PICK all : all = AllActions(s, info)
  OBVIOUS
<1>3. PICK gone : gone = GoneActions(s, info)
  OBVIOUS
<1>4. PICK keyOf : keyOf = [i \in new |-> RemoteKey(i.rawName, u)]
  OBVIOUS
<1>5. PICK entryOf : entryOf = [i \in new |-> RemoteEntry(u.node)]
  OBVIOUS
<1>6. u.node = n /\ u.name = s.name /\ u.version = s.version
  BY DEF Alike, SameService
<1>7. /\ new = {a \in info.actions : \A b \in s.actions : b.fullname # a.name}
      /\ all = s.actions \union {[name |-> i.rawName, fullname |-> i.name] : i \in new}
      /\ gone = {a.fullname : a \in all} \ {i.name : i \in info.actions}
      /\ t.actions = {a \in all : a.fullname \notin gone}
      /\ DOMAIN keyOf = new
      /\ \A i \in new : keyOf[i] = Key(s.name, s.version, i.rawName) /\ entryOf[i] = RemoteEntry(n)
      /\ r.actions = RemoveEntries(AddEntries(c.actions, keyOf, entryOf), n, gone)
  <2>1. \A i : RemoteKey(i.rawName, u) = Key(s.name, s.version, i.rawName)
    BY <1>6, RemoteKeyIs
  <2>2. new = NewActions(u, info) /\ gone = GoneActions(u, info)
    BY <1>1, <1>3 DEF NewActions, AllActions, GoneActions
  <2>3. r.actions = RemoveEntries(AddEntries(c.actions, keyOf, entryOf), n, gone)
    BY <1>4, <1>5, <1>6, <2>2 DEF ActionsMap
  <2>4. QED
    BY <1>1, <1>2, <1>3, <1>4, <1>5, <1>6, <2>1, <2>3 DEF NewActions, AllActions, GoneActions,
       KeptActions
<1> USE <1>7
<1>8. PICK map : map = AddEntries(c.actions, keyOf, entryOf)
  OBVIOUS
<1>9. \A key, e : In(r.actions, key, e) <=> In(map, key, e) /\ (key \notin gone \/ e.node # n)
  BY <1>8, RemoveEntriesIs
<1>10. \A key, e : Once(map, key, e) /\ (key \notin gone \/ e.node # n) => Once(r.actions, key, e)
  BY <1>8, RemoveEntriesIs
<1>11. \A i \in new : keyOf[i] = Key(s.name, s.version, i.rawName) /\ entryOf[i] = RemoteEntry(n)
  OBVIOUS
<1>12. \A key, e : In(map, key, e) <=> \/ In(c.actions, key, e)
                                       \/ \E i \in new : keyOf[i] = key /\ entryOf[i] = e
  BY <1>8, <1>11, AddEntriesIs
<1>13. /\ s \in c.known /\ WellKnown(s) /\ SameService(t, s)
       /\ t.node = n /\ t.name = s.name /\ t.version = s.version /\ n # Self
       /\ r.known = (c.known \ {s}) \union {t}
  BY SelfAssumption DEF Replaced, Alike, SameService, ServicesFit
<1>14. \A i \in new : i \in info.actions /\ i.name = ActionName(s.name, s.version, i.rawName)
  BY DEF IsInfo
<1>15. ASSUME NEW key \in gone PROVE \E action : key = ActionName(s.name, s.version, action)
  <2>1. PICK a \in all : key = a.fullname
    OBVIOUS
  <2>2. QED
    BY <1>13, <1>14, <2>1 DEF WellKnown
<1>16. /\ EntryOf(s) = RemoteEntry(n) /\ EntryOf(t) = RemoteEntry(n) /\ RemoteEntry(n).node = n
       /\ \A w : EntryOf(w).node = w.node
       /\ \A w : EntryOf(w) = RemoteEntry(n) => w.node = n
  <2>1. EntryOf(s) = RemoteEntry(n) /\ EntryOf(t) = RemoteEntry(n) /\ \A w : EntryOf(w).node = w.node
    BY <1>13, EntryIs
  <2>2. RemoteEntry(n).node = n
    BY DEF RemoteEntry
  <2>3. QED
    BY <2>1, <2>2
\* The entries of the other services are as they were.
<1>17. ASSUME NEW w \in c.known, w # s, NEW a \in w.actions
       PROVE  /\ In(r.actions, KeyOf(a, w), EntryOf(w))
              /\ w.version = NoVersion => Once(r.actions, KeyOf(a, w), EntryOf(w))
  <2>1. /\ In(c.actions, KeyOf(a, w), EntryOf(w)) /\ WellKnown(w)
        /\ w.version = NoVersion => Once(c.actions, KeyOf(a, w), EntryOf(w))
    BY DEF ActionsFit, ServicesFit
  <2>2. w.node = n => ~(w.name = s.name /\ w.version = s.version)
    BY <1>13, <1>17 DEF ServicesFit, SameService
  <2>3. w.node = n => KeyOf(a, w) = Key(w.name, w.version, a.name)
    BY <1>13, <2>1, KeyIs
  <2>4. w.node = n => KeyOf(a, w) \notin gone
    <3>1. ASSUME w.node = n, KeyOf(a, w) \in gone PROVE FALSE
      <4>1. PICK action : KeyOf(a, w) = ActionName(s.name, s.version, action)
        BY <1>15, <3>1
      <4>2. Key(w.name, w.version, a.name) = ActionName(s.name, s.version, action)
        BY <2>3, <3>1, <4>1
      <4>3. QED
        BY <2>2, <3>1, <4>2, KeyIsName
    <3>2. QED
      BY <3>1
  <2>5. KeyOf(a, w) \notin gone \/ EntryOf(w).node # n
    BY <1>16, <2>4
  <2>6. \A i \in new : keyOf[i] # KeyOf(a, w) \/ entryOf[i] # EntryOf(w)
    BY <1>11, <1>16, <2>2, <2>3, KeysDiffer
  <2>7. w.version = NoVersion => Once(map, KeyOf(a, w), EntryOf(w))
    BY <1>8, <1>11, <2>1, <2>6, AddEntriesIs
  <2>8. QED
    BY <1>9, <1>10, <1>12, <2>1, <2>5, <2>7
\* What is left of the actions has its entry, and so has what is new.
<1>18. ASSUME NEW a \in t.actions
       PROVE  /\ In(r.actions, KeyOf(a, t), EntryOf(t))
              /\ t.version = NoVersion => Once(r.actions, KeyOf(a, t), EntryOf(t))
  <2>1. /\ KeyOf(a, t) = Key(s.name, s.version, a.name) /\ a.fullname = ActionName(s.name, s.version, a.name)
        /\ a \in all /\ a.fullname \notin gone
    BY <1>13, KeyIs DEF WellKnown
  <2>2. KeyOf(a, t) \notin gone
    <3>1. ASSUME KeyOf(a, t) \in gone PROVE FALSE
      <4>1. PICK action : KeyOf(a, t) = ActionName(s.name, s.version, action)
        BY <1>15, <3>1
      <4>2. s.version = NoVersion
        <5>1. Key(s.name, s.version, a.name) = ActionName(s.name, s.version, action)
          BY <2>1, <4>1
        <5>2. QED
          BY <5>1, KeyIsName
      <4>3. KeyOf(a, t) = a.fullname
        BY <1>13, <4>2, KeyIs
      <4>4. QED
        BY <2>1, <3>1, <4>3
    <3>2. QED
      BY <3>1
  <2>3. CASE a \in s.actions
    <3>1. KeyOf(a, s) = KeyOf(a, t)
      BY <1>13, <2>1, <2>3, KeyIs
    <3>2. /\ In(c.actions, KeyOf(a, t), EntryOf(t))
          /\ t.version = NoVersion => Once(c.actions, KeyOf(a, t), EntryOf(t))
      BY <1>13, <1>16, <2>3, <3>1 DEF ActionsFit
    <3>3. ASSUME NEW i \in new, keyOf[i] = KeyOf(a, t) PROVE FALSE
      <4>1. i.rawName = a.name
        BY <1>11, <2>1, <3>3, KeysDiffer
      <4>2. i.name = a.fullname
        BY <1>14, <2>1, <4>1
      <4>3. QED
        BY <2>3, <4>2
    <3>4. t.version = NoVersion => Once(map, KeyOf(a, t), EntryOf(t))
      BY <1>8, <1>11, <3>2, <3>3, AddEntriesIs
    <3>5. QED
      BY <1>9, <1>10, <1>12, <2>2, <3>2, <3>4
  <2>4. ASSUME NEW i \in new, a = [name |-> i.rawName, fullname |-> i.name]
        PROVE  /\ In(r.actions, KeyOf(a, t), EntryOf(t))
               /\ t.version = NoVersion => Once(r.actions, KeyOf(a, t), EntryOf(t))
    <3>1. keyOf[i] = KeyOf(a, t) /\ entryOf[i] = EntryOf(t)
      BY <1>11, <1>16, <2>1, <2>4
    <3>2. ASSUME t.version = NoVersion, In(c.actions, KeyOf(a, t), EntryOf(t)) PROVE FALSE
      <4>1. KeyOf(a, t) = ActionName(s.name, NoVersion, a.name) /\ i.name = KeyOf(a, t)
        BY <1>13, <1>14, <2>1, <2>4, <3>2, KeyIs
      <4>2. EntryOf(t).node = n
        BY <1>16
      <4>3. PICK w \in c.known : /\ w.node = n /\ w.name = s.name /\ w.version = NoVersion
                                 /\ \E b \in w.actions : b.fullname = ActionName(s.name, NoVersion, a.name)
        BY <3>2, <4>1, <4>2, OwnerIs
      <4>4. w = s
        BY <1>13, <3>2, <4>3 DEF ServicesFit, SameService
      <4>5. QED
        BY <4>1, <4>3, <4>4
    <3>3. \A j \in new : keyOf[j] = keyOf[i] => j = i
      <4>1. \A j \in new : keyOf[j] = keyOf[i] => j.rawName = i.rawName
        BY <1>11, KeysDiffer
      <4>2. QED
        BY <1>14, <4>1 DEF IsInfo
    <3>4. t.version = NoVersion => Once(map, KeyOf(a, t), EntryOf(t))
      BY <1>8, <1>11, <3>1, <3>2, <3>3, AddEntriesIs
    <3>5. QED
      BY <1>9, <1>10, <1>12, <2>2, <3>1, <3>4
  <2>5. QED
    BY <2>1, <2>3, <2>4
<1>19. ASSUME NEW key, NEW e, In(r.actions, key, e)
       PROVE  WithVersion(key) \/ \E w \in r.known : EntryOf(w) = e /\ \E a \in w.actions : a.fullname = key
  <2>1. key \notin gone \/ e.node # n
    BY <1>9, <1>19
  <2>2. CASE In(c.actions, key, e)
    <3>1. CASE WithVersion(key)
      BY <3>1
    <3>2. ASSUME NEW w \in c.known, EntryOf(w) = e, NEW a \in w.actions, a.fullname = key
          PROVE  \E x \in r.known : EntryOf(x) = e /\ \E b \in x.actions : b.fullname = key
      <4>1. CASE w # s
        BY <1>13, <3>2, <4>1
      <4>2. CASE w = s
        <5>1. key \notin gone /\ a \in all
          BY <1>16, <2>1, <3>2, <4>2
        <5>2. a \in t.actions
          BY <3>2, <5>1
        <5>3. QED
          BY <1>13, <1>16, <3>2, <4>2, <5>2
      <4>3. QED
        BY <4>1, <4>2
    <3>3. QED
      BY <2>2, <3>1, <3>2, InIs DEF ActionsFit
  <2>3. ASSUME NEW i \in new, keyOf[i] = key, entryOf[i] = e
        PROVE  WithVersion(key) \/ \E w \in r.known : EntryOf(w) = e /\ \E a \in w.actions : a.fullname = key
    <3>1. CASE s.version # NoVersion
      BY <1>11, <2>3, <3>1, KeyVersion
    <3>2. CASE s.version = NoVersion
      <4>1. key = i.name
        BY <1>11, <1>14, <2>3, <3>2, KeyVersion
      <4>2. PICK a : a = [name |-> i.rawName, fullname |-> i.name]
        OBVIOUS
      <4>3. a.fullname = key /\ a \in all /\ key \in {x.name : x \in info.actions}
        BY <1>14, <4>1, <4>2
      <4>4. a \in t.actions
        BY <4>3
      <4>5. QED
        BY <1>11, <1>13, <1>16, <2>3, <4>3, <4>4
    <3>3. QED
      BY <3>1, <3>2
  <2>4. QED
    BY <1>9, <1>12, <1>19, <2>2, <2>3
<1>20. \A w \in r.known : \A a \in w.actions :
         /\ In(r.actions, KeyOf(a, w), EntryOf(w))
         /\ w.version = NoVersion => Once(r.actions, KeyOf(a, w), EntryOf(w))
  BY <1>13, <1>17, <1>18
<1>21. \A key \in DOMAIN r.actions : \A e \in DOMAIN r.actions[key] :
         WithVersion(key) \/ \E w \in r.known : EntryOf(w) = e /\ \E a \in w.actions : a.fullname = key
  BY <1>19, InIs
<1>22. QED
  BY <1>20, <1>21 DEF ActionsFit

\* What the other services of the node lose of their listeners, s has listened to: its
\* schema and theirs share the event.
LEMMA ReplacedEventsFit ==
  ASSUME NEW c, ServicesFit(c), EventsFit(c), NEW n \in Nodes,
         NEW s, s.node = n, NEW t, NEW r, Replaced(c, s, t, r),
         NEW info, IsInfo(info),
         t.events = KeptEvents(s, info), NEW v, Alike(v, s), v.events = s.events,
         r.events = EventsMap(c, v, info)
  PROVE  EventsFit(r)
<1>1. PICK new : new = NewEvents(s, info)
  OBVIOUS
<1>2. PICK all : all = AllEvents(s, info)
  OBVIOUS
<1>3. PICK gone : gone = GoneEvents(s, info)
  OBVIOUS
<1>4. PICK nameOf : nameOf = [e \in new |-> e.name]
  OBVIOUS
<1>5. PICK listenerOf : listenerOf = [e \in new |-> Listener(v, e, FALSE)]
  OBVIOUS
<1>6. v.node = n /\ \A e : Listener(v, e, FALSE) = Listener(s, e, FALSE)
  BY DEF Alike, SameService, Listener
<1>7. /\ new = {e \in info.events : \A d \in s.events : d.name # e.name}
      /\ all = s.events \union {[name |-> i.name, group |-> i.group] : i \in new}
      /\ gone = {d.name : d \in all} \ {e.name : e \in info.events}
      /\ t.events = {e \in all : e.name \notin gone}
      /\ DOMAIN nameOf = new
      /\ \A e \in new : nameOf[e] = e.name /\ listenerOf[e] = Listener(s, e, FALSE)
      /\ r.events = RemoveEntries(AddEntries(c.events, nameOf, listenerOf), n, gone)
  <2>1. new = NewEvents(v, info) /\ gone = GoneEvents(v, info)
    BY <1>1, <1>3 DEF NewEvents, AllEvents, GoneEvents
  <2>2. r.events = RemoveEntries(AddEntries(c.events, nameOf, listenerOf), n, gone)
    BY <1>4, <1>5, <1>6, <2>1 DEF EventsMap
  <2>3. QED
    BY <1>1, <1>2, <1>3, <1>4, <1>5, <1>6, <2>2 DEF NewEvents, AllEvents, GoneEvents, KeptEvents
<1> USE <1>7
<1>8. PICK map : map = AddEntries(c.events, nameOf, listenerOf)
  OBVIOUS
<1>9. \A name, l : In(r.events, name, l) <=> In(map, name, l) /\ (name \notin gone \/ l.node # n)
  BY <1>8, RemoveEntriesIs
<1>10. \A name, l : In(map, name, l) <=> \/ In(c.events, name, l)
                                        \/ \E e \in new : nameOf[e] = name /\ listenerOf[e] = l
  BY <1>8, AddEntriesIs
<1>11. /\ s \in c.known /\ WellKnown(s) /\ t.node = n /\ t.fullname = s.fullname /\ n # Self
       /\ r.known = (c.known \ {s}) \union {t}
  BY SelfAssumption DEF Replaced, Alike, SameService, ServicesFit
<1>12. \A w, e : /\ Listener(w, e, FALSE).node = w.node
                 /\ Listener(w, e, FALSE).service = w.fullname
                 /\ Listener(w, e, FALSE).group = e.group
  BY DEF Listener
<1>13. \A e : Listener(s, e, FALSE) = Listener(t, e, FALSE)
  BY <1>11 DEF Listener
<1>14. \A e \in new : /\ [name |-> e.name, group |-> e.group] \in all
                      /\ e.name \in {d.name : d \in info.events} /\ e.name \notin gone
  OBVIOUS
<1>15. ASSUME NEW name, NEW l, In(r.events, name, l)
       PROVE  \E w \in r.known : w.node = l.node /\ w.fullname = l.service
                                 /\ [name |-> name, group |-> l.group] \in w.events
  <2>1. name \notin gone \/ l.node # n
    BY <1>9, <1>15
  <2>2. PICK x : x = [name |-> name, group |-> l.group]
    OBVIOUS
  <2>3. x.name = name
    BY <2>2
  <2>4. CASE In(c.events, name, l)
    <3>1. PICK w \in c.known : w.node = l.node /\ w.fullname = l.service /\ x \in w.events
      BY <2>2, <2>4, InIs DEF EventsFit
    <3>2. CASE w # s
      BY <1>11, <2>2, <3>1, <3>2
    <3>3. CASE w = s
      <4>1. name \notin gone /\ x \in all
        BY <2>1, <3>1, <3>3
      <4>2. x \in t.events
        BY <2>3, <4>1
      <4>3. QED
        BY <1>11, <2>2, <3>1, <3>3, <4>2
    <3>4. QED
      BY <3>2, <3>3
  <2>5. ASSUME NEW e \in new, nameOf[e] = name, listenerOf[e] = l
        PROVE  \E w \in r.known : w.node = l.node /\ w.fullname = l.service
                                  /\ [name |-> name, group |-> l.group] \in w.events
    <3>1. l = Listener(s, e, FALSE) /\ name = e.name
      BY <2>5
    <3>2. l.node = n /\ l.service = s.fullname /\ l.group = e.group
      <4>1. l.node = s.node /\ l.service = s.fullname /\ l.group = e.group
        BY <3>1 DEF Listener
      <4>2. QED
        BY <4>1
    <3>3. x \in all /\ name \notin gone
      BY <1>14, <2>2, <3>1, <3>2
    <3>4. x \in t.events
      BY <2>3, <3>3
    <3>5. QED
      BY <1>11, <2>2, <3>2, <3>4
  <2>6. QED
    BY <1>9, <1>10, <1>15, <2>4, <2>5
<1>16. ASSUME NEW w \in c.known, w # s, NEW e \in w.events
       PROVE  w.node = Self \/ Shared(w, e.name) \/ In(r.events, e.name, Listener(w, e, FALSE))
  <2>1. w.node = Self \/ Shared(w, e.name) \/ In(c.events, e.name, Listener(w, e, FALSE))
    BY DEF EventsFit
  <2>2. CASE e.name \in gone /\ w.node = n
    <3>1. PICK d \in all : d.name = e.name
      BY <2>2
    <3>2. d \in s.events
      BY <1>14, <2>2, <3>1
    <3>3. ListensTo(s.fullname, e.name)
      BY <1>11, <3>1, <3>2 DEF WellKnown
    <3>4. w.fullname # s.fullname
      <4>1. WellKnown(w)
        BY DEF ServicesFit
      <4>2. ASSUME w.fullname = s.fullname PROVE w.name = s.name /\ w.version = s.version
        <5>1. JoinVersionToName(w.name, w.version) = JoinVersionToName(s.name, s.version)
          BY <1>11, <4>1, <4>2 DEF WellKnown
        <5>2. QED
          BY <5>1, JoinIs
      <4>3. QED
        BY <1>11, <1>16, <2>2, <4>2 DEF ServicesFit, SameService
    <3>5. QED
      BY <3>3, <3>4 DEF ListensTo, Shared
  <2>3. CASE e.name \notin gone \/ w.node # n
    <3>1. PICK l : l = Listener(w, e, FALSE)
      OBVIOUS
    <3>2. e.name \notin gone \/ l.node # n
      BY <1>12, <2>3, <3>1
    <3>3. In(c.events, e.name, l) => In(r.events, e.name, l)
      BY <1>9, <1>10, <3>2
    <3>4. QED
      BY <2>1, <3>1, <3>3
  <2>4. QED
    BY <2>2, <2>3
<1>17. ASSUME NEW e \in t.events
       PROVE  t.node = Self \/ Shared(t, e.name) \/ In(r.events, e.name, Listener(t, e, FALSE))
  <2>1. e \in all /\ e.name \notin gone
    OBVIOUS
  <2>2. CASE e \in s.events
    <3>1. Shared(s, e.name) \/ In(c.events, e.name, Listener(s, e, FALSE))
      BY <1>11, <2>2 DEF EventsFit
    <3>2. Shared(s, e.name) => Shared(t, e.name)
      BY <1>11 DEF Shared
    <3>3. In(c.events, e.name, Listener(s, e, FALSE)) => In(r.events, e.name, Listener(s, e, FALSE))
      BY <1>9, <1>10, <2>1
    <3>4. QED
      BY <1>13, <3>1, <3>2, <3>3
  <2>3. ASSUME NEW i \in new, e = [name |-> i.name, group |-> i.group]
        PROVE  In(r.events, e.name, Listener(t, e, FALSE))
    <3>1. nameOf[i] = e.name /\ listenerOf[i] = Listener(t, e, FALSE)
      <4>1. e.name = i.name /\ e.group = i.group
        BY <2>3
      <4>2. Listener(s, i, FALSE) = Listener(s, e, FALSE)
        BY <4>1 DEF Listener
      <4>3. QED
        BY <1>13, <4>1, <4>2
    <3>2. QED
      BY <1>9, <1>10, <2>1, <3>1
  <2>4. e \in s.events \/ \E i \in new : e = [name |-> i.name, group |-> i.group]
    BY <2>1
  <2>5. QED
    BY <2>2, <2>3, <2>4
<1>18. \A w \in r.known : w = t \/ (w \in c.known /\ w # s)
  BY <1>11
<1>19. \A w \in r.known : \A e \in w.events :
         w.node = Self \/ Shared(w, e.name) \/ In(r.events, e.name, Listener(w, e, FALSE))
  BY <1>16, <1>17, <1>18
<1>20. QED
  BY <1>15, <1>19, InIs DEF EventsFit

\* What is known of the service is what the INFO says of it.
Learnt(s, info) ==
  /\ {a.fullname : a \in s.actions} = {a.name : a \in info.actions}
  /\ {e.name : e \in s.events} = {e.name : e \in info.events}
  /\ s.settings = info.settings

LEMMA UpdateKnownFits ==
  ASSUME NEW c, Fit(c), NEW n \in Nodes, NEW info, IsInfo(info),
         NEW s \in FindService(c, info, n), NEW r, r = UpdateKnown(c, s, info)
  PROVE  \E t : Replaced(c, s, t, r) /\ Fit(r) /\ Learnt(t, info)
<1>1. /\ s \in c.known /\ s.node = n /\ s.name = info.name /\ s.version = info.version
      /\ ServicesFit(c) /\ ActionsFit(c) /\ EventsFit(c) /\ WellKnown(s) /\ IsCatalog(c)
  BY DEF FindService, Fit, ServicesFit
<1>2. DOMAIN s = Fields /\ s.fullname = JoinVersionToName(s.name, s.version)
  BY <1>1 DEF WellKnown, Fields
<1>3. PICK u : u = UpdateFromMap(s, info)
  OBVIOUS
<1>4. DOMAIN u = Fields /\ Alike(u, s) /\ u.settings = info.settings /\ u.actions = s.actions /\ u.events = s.events
  BY <1>2, <1>3, UpdateFromMapIs
<1>5. /\ u.node = n /\ u.name = s.name /\ u.version = s.version /\ u.fullname = s.fullname
  BY <1>1, <1>4 DEF Alike, SameService
<1>6. PICK ra : ra = UpdateActions(c, u, info)
  OBVIOUS
<1>7. PICK v : v = ra.s
  OBVIOUS
<1>8. PICK all : all = AllActions(s, info)
  OBVIOUS
<1>9. PICK gone : gone = GoneActions(s, info)
  OBVIOUS
<1>10. /\ DOMAIN v = Fields /\ Alike(v, u) /\ v.events = u.events /\ v.settings = u.settings
       /\ v.actions = KeptActions(u, info) /\ ra.map = ActionsMap(c, u, info)
  <2>1. u.fullname = JoinVersionToName(u.name, u.version) /\ info.name = u.name /\ info.version = u.version
    BY <1>1, <1>2, <1>5
  <2>2. QED
    BY <1>4, <1>6, <1>7, <2>1, UpdateActionsIs
<1>11. KeptActions(u, info) = {a \in all : a.fullname \notin gone}
  BY <1>4, <1>8, <1>9 DEF NewActions, AllActions, GoneActions, KeptActions
<1>12. /\ v.settings = info.settings /\ Alike(v, s) /\ Alike(u, s)
       /\ v.node = n /\ v.fullname = s.fullname /\ v.events = s.events
  BY <1>1, <1>4, <1>10 DEF Alike, SameService
<1>13. PICK re : re = UpdateEvents(c, v, info)
  OBVIOUS
<1>14. PICK t : t = re.s
  OBVIOUS
<1>15. PICK allE : allE = AllEvents(s, info)
  OBVIOUS
<1>16. PICK goneE : goneE = GoneEvents(s, info)
  OBVIOUS
<1>17. /\ DOMAIN t = Fields /\ Alike(t, v) /\ t.actions = v.actions /\ t.settings = v.settings
       /\ t.events = KeptEvents(v, info) /\ re.map = EventsMap(c, v, info)
  BY <1>10, <1>13, <1>14, UpdateEventsIs
<1>18. KeptEvents(v, info) = {e \in allE : e.name \notin goneE}
  BY <1>12, <1>15, <1>16 DEF NewEvents, AllEvents, GoneEvents, KeptEvents
<1>19. KeptActions(u, info) = KeptActions(s, info) /\ KeptEvents(v, info) = KeptEvents(s, info)
  BY <1>8, <1>9, <1>11, <1>15, <1>16, <1>18 DEF KeptActions, KeptEvents
<1>20. Alike(t, s)
  BY <1>12, <1>17 DEF Alike, SameService
<1>21. Replaced(c, s, t, r) /\ r.actions = ra.map /\ r.events = re.map
  <2>1. PICK f : f = [c EXCEPT !.known = (c.known \ {s}) \union {t}]
    OBVIOUS
  <2>2. PICK g : g = [f EXCEPT !.actions = ra.map]
    OBVIOUS
  <2>3. r = [g EXCEPT !.events = re.map]
    BY <1>3, <1>6, <1>7, <1>13, <1>14, <2>1, <2>2 DEF UpdateKnown
  <2>4. QED
    BY <1>1, <1>20, <2>1, <2>2, <2>3 DEF IsCatalog, Replaced
<1>22. WellKnown(t) /\ Learnt(t, info)
  <2>1. /\ t.actions = {a \in all : a.fullname \notin gone}
        /\ t.events = {e \in allE : e.name \notin goneE}
        /\ t.settings = info.settings
    BY <1>10, <1>11, <1>12, <1>17, <1>18
  <2>2. \A i \in NewActions(s, info) : i \in info.actions /\ i.name = ActionName(s.name, s.version, i.rawName)
    BY <1>1 DEF IsInfo, NewActions
  <2>3. \A a \in all : a.fullname = ActionName(s.name, s.version, a.name)
    BY <1>1, <1>8, <2>2 DEF WellKnown, AllActions
  <2>4. \A e \in allE : ListensTo(s.fullname, e.name)
    BY <1>1, <1>2, <1>15, SelfAssumption DEF WellKnown, IsInfo, AllEvents, NewEvents
  <2>5. {a.fullname : a \in t.actions} = {a.name : a \in info.actions}
    <3>1. \A a \in all : a.fullname \in gone \/ a.fullname \in {i.name : i \in info.actions}
      BY <1>8, <1>9 DEF GoneActions
    <3>2. ASSUME NEW i \in info.actions PROVE \E a \in t.actions : a.fullname = i.name
      <4>1. i.name \in {j.name : j \in info.actions}
        OBVIOUS
      <4>2. i.name \notin gone
        BY <1>9, <4>1 DEF GoneActions
      <4>3. PICK a \in all : a.fullname = i.name
        <5>1. CASE i \in NewActions(s, info)
          <6>1. PICK a : a = [name |-> i.rawName, fullname |-> i.name]
            OBVIOUS
          <6>2. a \in all /\ a.fullname = i.name
            BY <1>8, <5>1, <6>1 DEF AllActions
          <6>3. QED
            BY <6>2
        <5>2. CASE i \notin NewActions(s, info)
          BY <1>8, <5>2 DEF AllActions, NewActions
        <5>3. QED
          BY <5>1, <5>2
      <4>4. QED
        BY <2>1, <4>2, <4>3
    <3>3. QED
      BY <2>1, <3>1, <3>2
  <2>6. {e.name : e \in t.events} = {e.name : e \in info.events}
    <3>1. \A e \in allE : e.name \in goneE \/ e.name \in {i.name : i \in info.events}
      BY <1>15, <1>16 DEF GoneEvents
    <3>2. ASSUME NEW i \in info.events PROVE \E e \in t.events : e.name = i.name
      <4>1. i.name \in {j.name : j \in info.events}
        OBVIOUS
      <4>2. i.name \notin goneE
        BY <1>16, <4>1 DEF GoneEvents
      <4>3. PICK e \in allE : e.name = i.name
        <5>1. CASE i \in NewEvents(s, info)
          <6>1. PICK e : e = [name |-> i.name, group |-> i.group]
            OBVIOUS
          <6>2. e \in allE /\ e.name = i.name
            BY <1>15, <5>1, <6>1 DEF AllEvents
          <6>3. QED
            BY <6>2
        <5>2. CASE i \notin NewEvents(s, info)
          BY <1>15, <5>2 DEF AllEvents, NewEvents
        <5>3. QED
          BY <5>1, <5>2
      <4>4. QED
        BY <2>1, <4>2, <4>3
    <3>3. QED
      BY <2>1, <3>1, <3>2
  <2>7. t.node = n /\ t.name = s.name /\ t.version = s.version /\ t.fullname = s.fullname
    BY <1>1, <1>20 DEF Alike, SameService
  <2>8. WellKnown(t)
    BY <1>1, <1>2, <1>17, <2>1, <2>3, <2>4, <2>7 DEF WellKnown, Fields, Brokers
  <2>9. QED
    BY <2>1, <2>5, <2>6, <2>8 DEF Learnt
<1>23. ServicesFit(r)
  BY <1>1, <1>21, <1>22, ReplacedServicesFit
<1>24. ActionsFit(r)
  BY <1>1, <1>4, <1>10, <1>12, <1>17, <1>19, <1>21, <1>22, ReplacedActionsFit
<1>25. EventsFit(r)
  BY <1>1, <1>12, <1>17, <1>19, <1>21, ReplacedEventsFit
<1>26. QED
  BY <1>21, <1>22, <1>23, <1>24, <1>25 DEF Fit

-----------------------------------------------------------------------------
(* The services of an INFO, one after the other *)

\* Nothing else is touched than the service p of the node.
Touched(c, r, p, n) ==
  /\ \A t \in r.known : t \in c.known \/ t.node = n
  /\ \A t \in c.known : (t.node = n /\ t.name = p.name /\ t.version = p.version) \/ t \in r.known

LEMMA UpdateRemoteFits ==
  ASSUME NEW c, Fit(c), NEW n \in Nodes, NEW p \in RemoteBuilt,
         NEW r, r = UpdateRemote(c, AsMap(p), n)
  PROVE  Fit(r) /\ KnownFrom(r, p, n) /\ Touched(c, r, p, n)
<1>1. PICK info : info = AsMap(p)
  OBVIOUS
<1>2. IsInfo(info) /\ info.name = p.name /\ info.version = p.version
  BY <1>1, AsMapIs
<1>3. CASE FindService(c, info, n) = {}
  <2>1. PICK s : s = CreateServiceFromMap(info, n)
    OBVIOUS
  <2>2. r = AddRemote(c, info, n)
    BY <1>1, <1>3 DEF UpdateRemote
  <2>3. Fit(r) /\ Added(c, s, r)
    BY <1>2, <1>3, <2>1, <2>2, AddRemoteFits
  <2>4. /\ s.node = n /\ s.name = info.name /\ s.version = info.version /\ s.settings = info.settings
        /\ s.actions = {[name |-> i.rawName, fullname |-> i.name] : i \in info.actions}
        /\ s.events = {[name |-> i.name, group |-> i.group] : i \in info.events}
    BY <1>2, <2>1, CreatedIs
  <2>5. s \in r.known /\ s \in FindService(r, info, n)
    BY <2>3, <2>4 DEF Added, FindService
  <2>6. {a.fullname : a \in s.actions} = {a.name : a \in info.actions}
    <3>1. \A a \in s.actions : \E i \in info.actions : a.fullname = i.name
      BY <2>4
    <3>2. ASSUME NEW i \in info.actions PROVE \E a \in s.actions : a.fullname = i.name
      <4>1. PICK a : a = [name |-> i.rawName, fullname |-> i.name]
        OBVIOUS
      <4>2. a \in s.actions /\ a.fullname = i.name
        BY <2>4, <4>1
      <4>3. QED
        BY <4>2
    <3>3. QED
      BY <3>1, <3>2
  <2>7. {e.name : e \in s.events} = {e.name : e \in info.events}
    <3>1. \A e \in s.events : \E i \in info.events : e.name = i.name
      BY <2>4
    <3>2. ASSUME NEW i \in info.events PROVE \E e \in s.events : e.name = i.name
      <4>1. PICK e : e = [name |-> i.name, group |-> i.group]
        OBVIOUS
      <4>2. e \in s.events /\ e.name = i.name
        BY <2>4, <4>1
      <4>3. QED
        BY <4>2
    <3>3. QED
      BY <3>1, <3>2
  <2>8. KnownFrom(r, p, n)
    BY <1>1, <2>4, <2>5, <2>6, <2>7 DEF KnownFrom
  <2>9. QED
    BY <2>3, <2>4, <2>8 DEF Added, Touched
<1>4. CASE FindService(c, info, n) # {}
  <2>1. PICK s : s = CHOOSE w \in FindService(c, info, n) : TRUE
    OBVIOUS
  <2>2. s \in FindService(c, info, n) /\ r = UpdateKnown(c, s, info)
    BY <1>1, <1>4, <2>1 DEF UpdateRemote
  <2>3. PICK t : Replaced(c, s, t, r) /\ Fit(r) /\ Learnt(t, info)
    BY <1>2, <2>2, UpdateKnownFits
  <2>4. s.node = n /\ s.name = info.name /\ s.version = info.version
    BY <2>2 DEF FindService
  <2>5. t \in FindService(r, info, n)
    BY <2>3, <2>4 DEF Replaced, Alike, SameService, FindService
  <2>6. KnownFrom(r, p, n)
    BY <1>1, <2>3, <2>5 DEF Learnt, KnownFrom
  <2>7. Touched(c, r, p, n)
    BY <1>2, <2>3, <2>4 DEF Replaced, Alike, SameService, Touched
  <2>8. QED
    BY <2>3, <2>6, <2>7
<1>5. QED
  BY <1>3, <1>4

\* A set of numbers has a least one, as the set of the intervals up to them has.
LEMMA Least ==
  ASSUME NEW S, S \subseteq Nat, S # {}
  PROVE  \E x \in S : \A y \in S : x <= y
<1> DEFINE T == {1..i : i \in S}
<1>1. T \subseteq FiniteSubsetsOf(Nat) /\ T # {}
  <2>1. ASSUME NEW i \in S PROVE 1..i \in FiniteSubsetsOf(Nat)
    BY FS_Interval DEF FiniteSubsetsOf
  <2>2. QED
    BY <2>1
<1>2. PICK X \in T : \A Y \in T : ~(<<Y, X>> \in StrictSubsetOrdering(Nat))
  <2>1. IsWellFoundedOn(StrictSubsetOrdering(Nat), FiniteSubsetsOf(Nat))
    BY FS_StrictSubsetOrderingWellFounded
  <2> HIDE DEF T
  <2>2. QED
    BY <1>1, <2>1, WFMin
<1>3. PICK x \in S : X = 1..x
  BY <1>2
<1>4. ASSUME NEW y \in S, y < x PROVE FALSE
  <2>1. 1..y \in T
    OBVIOUS
  <2>2. x \in Nat /\ y \in Nat
    OBVIOUS
  <2>3. 1..y \subseteq 1..x
    BY <1>4, <2>2
  <2>4. x \in 1..x /\ x \notin 1..y
    BY <1>4, <2>2
  <2>5. <<1..y, 1..x>> \in StrictSubsetOrdering(Nat)
    BY <2>2, <2>3, <2>4 DEF StrictSubsetOrdering
  <2>6. QED
    BY <1>2, <1>3, <2>1, <2>5
<1>5. QED
  BY <1>4

\* What the loop has made of the catalogs after each service.
Loop(f, c, services, n) ==
  f = [i \in 0..Len(services) |-> IF i = 0 THEN c ELSE UpdateRemote(f[i - 1], AsMap(services[i]), n)]

LEMMA UpdateServicesIs ==
  ASSUME NEW c, NEW services, Len(services) \in Nat, NEW n
  PROVE  \E f : Loop(f, c, services, n) /\ UpdateServices(c, services, n) = f[Len(services)]
<1> DEFINE Upto(k, f) == f = [i \in 0..k |-> IF i = 0 THEN c ELSE UpdateRemote(f[i - 1], AsMap(services[i]), n)]
           S == {k \in Nat : ~\E f : Upto(k, f)}
<1>1. S = {}
  <2>1. ASSUME S # {} PROVE FALSE
    <3>1. S \subseteq Nat
      OBVIOUS
    <3>2. PICK x \in S : \A y \in S : x <= y
      <4> HIDE DEF S
      <4>1. QED
        BY <2>1, <3>1, Least
    <3>3. CASE x = 0
      <4>1. PICK f : f = [i \in 0..0 |-> c]
        OBVIOUS
      <4>2. f = [i \in 0..0 |-> IF i = 0 THEN c ELSE UpdateRemote(f[i - 1], AsMap(services[i]), n)]
        BY <4>1
      <4>3. QED
        BY <3>2, <3>3, <4>2
    <3>4. CASE x # 0
      <4>1. x \in Nat /\ x - 1 \in Nat /\ ~(x <= x - 1)
        BY <3>1, <3>4
      <4>2. x - 1 \notin S
        BY <3>2, <4>1
      <4>3. PICK g : Upto(x - 1, g)
        BY <4>1, <4>2
      <4>4. PICK f : f = [i \in 0..x |-> IF i = x THEN UpdateRemote(g[x - 1], AsMap(services[x]), n) ELSE g[i]]
        OBVIOUS
      <4>5. ASSUME NEW i \in 0..x
            PROVE  f[i] = IF i = 0 THEN c ELSE UpdateRemote(f[i - 1], AsMap(services[i]), n)
        <5>1. CASE i = x
          <6>1. f[x - 1] = g[x - 1]
            BY <4>1, <4>4
          <6>2. f[x] = UpdateRemote(g[x - 1], AsMap(services[x]), n)
            BY <4>1, <4>4
          <6>3. QED
            BY <3>4, <5>1, <6>1, <6>2
        <5>2. CASE i # x
          <6>1. i \in 0..(x - 1) /\ f[i] = g[i]
            BY <4>1, <4>4, <5>2
          <6>2. i # 0 => f[i - 1] = g[i - 1]
            BY <4>1, <4>4, <6>1
          <6>3. g[i] = IF i = 0 THEN c ELSE UpdateRemote(g[i - 1], AsMap(services[i]), n)
            BY <4>3, <6>1
          <6>4. QED
            BY <6>1, <6>2, <6>3
        <5>3. QED
          BY <5>1, <5>2
      <4>6. Upto(x, f)
        BY <4>4, <4>5
      <4>7. QED
        BY <3>2, <4>6
    <3>5. QED
      BY <3>3, <3>4
  <2>2. QED
    BY <2>1
<1>2. \E f : Loop(f, c, services, n)
  BY <1>1 DEF Loop
<1>3. PICK f : f = CHOOSE g : Loop(g, c, services, n)
  OBVIOUS
<1>4. Loop(f, c, services, n)
  BY <1>2, <1>3
<1>5. UpdateServices(c, services, n) = f[Len(services)]
  BY <1>3 DEF UpdateServices, Loop
<1>6. QED
  BY <1>4, <1>5

\* After some of the services the catalogs fit, and hold each of them as it is published.
Partly(c, r, services, i, n) ==
  /\ Fit(r)
  /\ \A t \in r.known : t \in c.known \/ t.node = n
  /\ \A t \in c.known : t.node = n \/ t \in r.known
  /\ \A j \in 1..i : KnownFrom(r, services[j], n)

LEMMA KnownFromStays ==
  ASSUME NEW c, NEW r, NEW p, NEW n, NEW q \in RemoteBuilt, NEW m, Touched(c, r, p, n), KnownFrom(c, q, m),
         m # n \/ q.name # p.name \/ q.version # p.version
  PROVE  KnownFrom(r, q, m)
<1>1. PICK info : info = AsMap(q)
  OBVIOUS
<1>2. PICK s \in FindService(c, info, m) : Learnt(s, info)
  BY <1>1 DEF KnownFrom, Learnt
<1>3. info.name = q.name /\ info.version = q.version
  BY <1>1, AsMapIs
<1>4. s \in FindService(r, info, m)
  BY <1>2, <1>3 DEF FindService, Touched
<1>5. QED
  BY <1>1, <1>2, <1>4 DEF KnownFrom, Learnt

LEMMA UpdateServicesFits ==
  ASSUME NEW c, Fit(c), NEW n \in Nodes, NEW services \in Seq(RemoteBuilt),
         \A i, j \in DOMAIN services :
           services[i].name = services[j].name /\ services[i].version = services[j].version => i = j,
         NEW r, r = UpdateServices(c, services, n)
  PROVE  Partly(c, r, services, Len(services), n)
<1>1. Len(services) \in Nat /\ DOMAIN services = 1..Len(services)
  OBVIOUS
<1>2. PICK f : Loop(f, c, services, n) /\ r = f[Len(services)]
  BY <1>1, UpdateServicesIs
<1> DEFINE S == {i \in 0..Len(services) : ~Partly(c, f[i], services, i, n)}
<1>3. ASSUME S # {} PROVE FALSE
  <2>1. S \subseteq Nat
    BY <1>1
  <2>2. PICK x \in S : \A y \in S : x <= y
    <3> HIDE DEF S
    <3>1. QED
      BY <1>3, <2>1, Least
  <2>3. x \in 0..Len(services) /\ ~Partly(c, f[x], services, x, n)
    OBVIOUS
  <2>4. CASE x = 0
    <3>1. f[0] = c
      BY <1>1, <1>2 DEF Loop
    <3>2. QED
      BY <2>3, <2>4, <3>1 DEF Partly
  <2>5. CASE x # 0
    <3>1. x \in Nat /\ x - 1 \in 0..Len(services) /\ x \in DOMAIN services /\ ~(x <= x - 1)
      BY <1>1, <2>3, <2>5
    <3>2. PICK p : p = services[x]
      OBVIOUS
    <3>3. p \in RemoteBuilt
      BY <3>1, <3>2
    <3>4. PICK g : g = f[x - 1]
      OBVIOUS
    <3>5. PICK h : h = f[x]
      OBVIOUS
    <3>6. h = UpdateRemote(g, AsMap(p), n)
      BY <1>2, <2>3, <2>5, <3>2, <3>4, <3>5 DEF Loop
    <3>7. Partly(c, g, services, x - 1, n)
      BY <2>2, <3>1, <3>4
    <3>8. Fit(h) /\ KnownFrom(h, p, n) /\ Touched(g, h, p, n)
      BY <3>3, <3>6, <3>7, UpdateRemoteFits DEF Partly
    <3>9. ASSUME NEW j \in 1..x PROVE KnownFrom(h, services[j], n)
      <4>1. CASE j = x
        BY <3>2, <3>8, <4>1
      <4>2. CASE j # x
        <5>1. j \in 1..(x - 1) /\ j \in DOMAIN services
          BY <1>1, <2>3, <3>1, <4>2
        <5>2. PICK q : q = services[j]
          OBVIOUS
        <5>3. q \in RemoteBuilt /\ KnownFrom(g, q, n)
          BY <3>7, <5>1, <5>2 DEF Partly
        <5>4. q.name # p.name \/ q.version # p.version
          BY <3>1, <3>2, <4>2, <5>1, <5>2
        <5>5. QED
          BY <3>8, <5>2, <5>3, <5>4, KnownFromStays
      <4>3. QED
        BY <4>1, <4>2
    <3>10. /\ \A t \in h.known : t \in c.known \/ t.node = n
           /\ \A t \in c.known : t.node = n \/ t \in h.known
      BY <3>7, <3>8 DEF Partly, Touched
    <3>11. QED
      BY <2>3, <3>5, <3>8, <3>9, <3>10 DEF Partly
  <2>6. QED
    BY <2>4, <2>5
<1>4. Len(services) \in 0..Len(services)
  BY <1>1
<1>5. QED
  BY <1>2, <1>3, <1>4

-----------------------------------------------------------------------------
(* What the mixins make of a schema.  Each brings the actions that are not   *)
(* there yet, puts its settings behind and its hooks before what there is.   *)

\* What f has stays as it is.
Keeps(f, g) == \A x \in DOMAIN f : x \in DOMAIN g /\ g[x] = f[x]

LEMMA StillFound ==
  ASSUME NEW x, NEW y, Keeps(x, y), NEW name, FindAction(name, x)
  PROVE  FindAction(name, y)
BY DEF Keeps, FindAction

LEMMA ExtendedIs ==
  ASSUME NEW A, NEW actions \in Seq(A), NamesOnce(actions), NEW more \in Seq(A)
  PROVE  /\ Extended(actions, more) \in Seq(A) /\ NamesOnce(Extended(actions, more))
         /\ Keeps(actions, Extended(actions, more))
         /\ \A i \in DOMAIN more : FindAction(more[i].name, Extended(actions, more))
<1> DEFINE After(i, x) == IF FindAction(more[i].name, x) THEN x ELSE Append(x, more[i])
           Upto(k, f) == f = [i \in 0..k |-> IF i = 0 THEN actions
                                             ELSE IF FindAction(more[i].name, f[i - 1]) THEN f[i - 1]
                                                  ELSE Append(f[i - 1], more[i])]
           Good(k, x) == /\ x \in Seq(A) /\ NamesOnce(x) /\ Keeps(actions, x)
                         /\ \A i \in 1..k : FindAction(more[i].name, x)
           S == {k \in 0..Len(more) : ~\E f : Upto(k, f)}
<1>1. Len(more) \in Nat /\ DOMAIN more = 1..Len(more) /\ \A i \in 1..Len(more) : more[i] \in A
  OBVIOUS
<1>2. ASSUME NEW i \in 1..Len(more), NEW x, Good(i - 1, x) PROVE Good(i, After(i, x))
  <2>1. \A j \in 1..i : j = i \/ j \in 1..(i - 1)
    BY <1>1
  <2>2. CASE FindAction(more[i].name, x)
    BY <1>2, <2>1, <2>2
  <2>3. CASE ~FindAction(more[i].name, x)
    <3>1. PICK y : y = Append(x, more[i])
      OBVIOUS
    <3>2. y \in Seq(A) /\ Len(x) \in Nat
      BY <1>1, <1>2, <3>1
    <3>3. /\ DOMAIN x = 1..Len(x) /\ DOMAIN y = 1..(Len(x) + 1)
          /\ y[Len(x) + 1] = more[i] /\ \A j \in DOMAIN x : y[j] = x[j]
      BY <1>1, <1>2, <3>1
    <3>4. \A j \in DOMAIN x : y[j].name # y[Len(x) + 1].name
      BY <2>3, <3>3 DEF FindAction
    <3>5. (\A j \in DOMAIN y : j = Len(x) + 1 \/ j \in DOMAIN x) /\ Len(x) + 1 \in DOMAIN y
      BY <3>2, <3>3
    <3>6. NamesOnce(y)
      BY <1>2, <3>3, <3>4, <3>5 DEF NamesOnce
    <3>7. Keeps(x, y)
      BY <3>2, <3>3 DEF Keeps
    <3>8. Keeps(actions, y)
      BY <1>2, <3>7 DEF Keeps
    <3>9. \A j \in 1..(i - 1) : FindAction(more[j].name, y)
      BY <1>2, <3>7, StillFound
    <3>10. FindAction(more[i].name, y)
      BY <3>3, <3>5 DEF FindAction
    <3>11. \A j \in 1..i : FindAction(more[j].name, y)
      BY <2>1, <3>9, <3>10
    <3>12. Good(i, y)
      BY <3>2, <3>6, <3>8, <3>11
    <3>13. QED
      BY <2>3, <3>1, <3>12
  <2>4. QED
    BY <2>2, <2>3
<1>3. ASSUME S # {} PROVE FALSE
  <2>1. S \subseteq Nat
    BY <1>1
  <2>2. PICK x \in S : \A y \in S : x <= y
    <3> HIDE DEF S
    <3>1. QED
      BY <1>3, <2>1, Least
  <2>3. x \in 0..Len(more) /\ ~\E f : Upto(x, f)
    OBVIOUS
  <2>4. CASE x = 0
    <3>1. PICK f : f = [i \in 0..0 |-> actions]
      OBVIOUS
    <3>2. Upto(0, f) /\ f[0] = actions
      BY <3>1
    <3>3. QED
      BY <2>3, <2>4, <3>2
  <2>5. CASE x # 0
    <3>1. x \in Nat /\ x - 1 \in 0..Len(more) /\ x \in 1..Len(more) /\ ~(x <= x - 1)
      BY <1>1, <2>3, <2>5
    <3>2. PICK g : Upto(x - 1, g)
      BY <2>2, <3>1
    <3>3. PICK last : last = After(x, g[x - 1])
      OBVIOUS
    <3>4. PICK f : f = [i \in 0..x |-> IF i = x THEN last ELSE g[i]]
      OBVIOUS
    <3>5. f[x] = last /\ \A i \in 0..(x - 1) : f[i] = g[i]
      BY <3>1, <3>4
    <3>6. ASSUME NEW i \in 0..x
          PROVE  f[i] = IF i = 0 THEN actions
                        ELSE IF FindAction(more[i].name, f[i - 1]) THEN f[i - 1]
                             ELSE Append(f[i - 1], more[i])
      <4>1. CASE i = x
        <5>1. f[x - 1] = g[x - 1]
          BY <3>1, <3>5
        <5>2. QED
          BY <2>5, <3>3, <3>5, <4>1, <5>1
      <4>2. CASE i # x
        <5>1. i \in 0..(x - 1) /\ f[i] = g[i]
          BY <3>1, <3>5, <4>2
        <5>2. i # 0 => f[i - 1] = g[i - 1]
          BY <3>1, <3>5, <5>1
        <5>3. g[i] = IF i = 0 THEN actions
                     ELSE IF FindAction(more[i].name, g[i - 1]) THEN g[i - 1]
                          ELSE Append(g[i - 1], more[i])
          BY <3>2, <5>1
        <5>4. QED
          BY <5>1, <5>2, <5>3
      <4>3. QED
        BY <4>1, <4>2
    <3>7. Upto(x, f)
      BY <3>4, <3>6
    <3>8. QED
      BY <2>3, <3>7
  <2>6. QED
    BY <2>4, <2>5
<1>4. Len(more) \in 0..Len(more)
  BY <1>1
<1>5. PICK f : f = CHOOSE g : Upto(Len(more), g)
  OBVIOUS
<1>6. Extended(actions, more) = f[Len(more)]
  BY <1>5 DEF Extended
<1>7. Upto(Len(more), f)
  BY <1>3, <1>4, <1>5
<1> DEFINE T == {i \in 0..Len(more) : ~Good(i, f[i])}
<1>8. ASSUME T # {} PROVE FALSE
  <2>1. T \subseteq Nat
    BY <1>1
  <2>2. PICK x \in T : \A y \in T : x <= y
    <3> HIDE DEF T
    <3>1. QED
      BY <1>8, <2>1, Least
  <2>3. x \in 0..Len(more) /\ ~Good(x, f[x])
    OBVIOUS
  <2>4. f[0] = actions
    BY <1>1, <1>7
  <2>5. x # 0
    <3>1. Good(0, actions)
      BY DEF Keeps
    <3>2. QED
      BY <2>3, <2>4, <3>1
  <2>6. x \in 1..Len(more) /\ x - 1 \in 0..Len(more) /\ ~(x <= x - 1)
    BY <1>1, <2>3, <2>5
  <2>7. Good(x - 1, f[x - 1])
    BY <2>2, <2>6
  <2>8. f[x] = After(x, f[x - 1])
    BY <1>7, <2>3, <2>5
  <2>9. QED
    BY <1>2, <2>3, <2>6, <2>7, <2>8
<1>9. Good(Len(more), f[Len(more)])
  BY <1>4, <1>8
<1>10. QED
  BY <1>1, <1>6, <1>9

LEMMA MergeSettingsIs ==
  ASSUME NEW first, NEW second, NEW r, r = MergeSettings(first, second)
  PROVE  /\ Keeps(second, r) /\ DOMAIN first \subseteq DOMAIN r
         /\ \A k \in DOMAIN first : k \in DOMAIN second \/ r[k] = first[k]
BY DEF MergeSettings, Keeps

Mixable(s) == {"actions", "settings"} \subseteq DOMAIN s /\ Hooks \subseteq DOMAIN s

\* The hooks of a mixin run before those of the schema s that it is applied to.
Applied(s, m, r) ==
  /\ Mixable(r)
  /\ r.actions = Extended(s.actions, m.actions)
  /\ Keeps(s.settings, r.settings)
  /\ \A h \in Hooks : r[h] = m[h] \o s[h]

LEMMA ApplyMixinIs ==
  ASSUME NEW s, Mixable(s), NEW m, NEW r, r = ApplyMixin(s, m)
  PROVE  Applied(s, m, r)
<1> DEFINE Whole(x) == {"actions", "settings", "created", "started", "stopped"} \subseteq DOMAIN x
           SameHooks(x, y) == y.created = x.created /\ y.started = x.started /\ y.stopped = x.stopped
<1>1. PICK a : a = ExtendActions(s, m)
  OBVIOUS
<1>2. PICK b : b = MergeDependencies(a, m)
  OBVIOUS
<1>3. PICK c : c = ConcatenateEvents(b, m)
  OBVIOUS
<1>4. PICK d : d = ExtendSettings(c, m)
  OBVIOUS
<1>5. r = ChainHooks(d, m)
  BY <1>1, <1>2, <1>3, <1>4 DEF ApplyMixin
<1>6. Whole(a) /\ SameHooks(s, a) /\ a.actions = Extended(s.actions, m.actions) /\ a.settings = s.settings
  BY <1>1 DEF ExtendActions, Hooks, Mixable
<1>7. Whole(b) /\ SameHooks(a, b) /\ b.actions = a.actions /\ b.settings = a.settings
  BY <1>2, <1>6 DEF MergeDependencies
<1>8. Whole(c) /\ SameHooks(b, c) /\ c.actions = b.actions /\ c.settings = b.settings
  <2>1. PICK events : c = [b EXCEPT !.events = events]
    BY <1>3 DEF ConcatenateEvents
  <2>2. QED
    BY <1>7, <2>1
<1>9. PICK settings : settings = MergeSettings(m.settings, c.settings)
  OBVIOUS
<1>10. PICK metadata : metadata = MergeSettings(m.metadata, c.metadata)
  OBVIOUS
<1>11. Whole(d) /\ SameHooks(c, d) /\ d.actions = c.actions /\ d.settings = settings
  <2>1. d = [c EXCEPT !.settings = settings, !.metadata = metadata]
    BY <1>4, <1>9, <1>10 DEF ExtendSettings
  <2>2. QED
    BY <1>8, <2>1
<1>12. Whole(r) /\ r.actions = d.actions /\ r.settings = d.settings
       /\ r.created = m.created \o d.created /\ r.started = m.started \o d.started
       /\ r.stopped = m.stopped \o d.stopped
  <2>1. PICK x : x = m.created \o d.created
    OBVIOUS
  <2>2. PICK y : y = m.started \o d.started
    OBVIOUS
  <2>3. PICK z : z = m.stopped \o d.stopped
    OBVIOUS
  <2>4. r = [d EXCEPT !.created = x, !.started = y, !.stopped = z]
    BY <1>5, <2>1, <2>2, <2>3 DEF ChainHooks
  <2>5. Whole(r) /\ r.actions = d.actions /\ r.settings = d.settings
        /\ r.created = x /\ r.started = y /\ r.stopped = z
    BY <1>11, <2>4
  <2>6. QED
    BY <2>1, <2>2, <2>3, <2>5
<1>13. Keeps(s.settings, r.settings)
  <2>1. Keeps(c.settings, settings)
    BY <1>9, MergeSettingsIs
  <2>2. r.settings = settings /\ c.settings = s.settings
    BY <1>6, <1>7, <1>8, <1>11, <1>12
  <2>3. QED
    BY <2>1, <2>2
<1>14. r.actions = Extended(s.actions, m.actions)
  BY <1>6, <1>7, <1>8, <1>11, <1>12
<1>15. ASSUME NEW h \in Hooks PROVE r[h] = m[h] \o s[h]
  <2>1. CASE h = "created"
    BY <1>6, <1>7, <1>8, <1>11, <1>12, <2>1
  <2>2. CASE h = "started"
    BY <1>6, <1>7, <1>8, <1>11, <1>12, <2>2
  <2>3. CASE h = "stopped"
    BY <1>6, <1>7, <1>8, <1>11, <1>12, <2>3
  <2>4. QED
    BY <2>1, <2>2, <2>3 DEF Hooks
<1>16. Mixable(r)
  BY <1>12 DEF Mixable, Hooks
<1>17. QED
  BY <1>13, <1>14, <1>15, <1>16 DEF Applied

\* Who wrote the hook h of the schema and of its first k mixins.
Owners(schema, h, k) == ToSet(schema[h]) \union UNION {ToSet(schema.mixins[j][h]) : j \in 1..k}

\* Each of them once, and the service itself last.
Chained(schema, h, k, chain) ==
  /\ chain \in Seq(Owners(schema, h, k))
  /\ IsInjective(chain)
  /\ \A i \in DOMAIN chain : chain[i] = schema.name => i = Len(chain)
  /\ ToSet(chain) = Owners(schema, h, k)

LEMMA ChainStarts ==
  ASSUME NEW schema \in Schemas, NEW h \in Hooks
  PROVE  Chained(schema, h, 0, schema[h])
<1>1. schema[h] = <<>> \/ schema[h] = <<schema.name>>
  BY HooksAssumption
<1>2. Owners(schema, h, 0) = ToSet(schema[h])
  BY DEF Owners
<1>3. PICK x : x = schema[h]
  OBVIOUS
<1>4. x \in Seq(ToSet(x)) /\ IsInjective(x) /\ \A i \in DOMAIN x : x[i] = schema.name => i = Len(x)
  <2>1. CASE x = <<>>
    BY <2>1 DEF IsInjective
  <2>2. CASE x = <<schema.name>>
    BY <2>2 DEF IsInjective, ToSet
  <2>3. QED
    BY <1>1, <1>3, <2>1, <2>2
<1>5. QED
  BY <1>2, <1>3, <1>4 DEF Chained

LEMMA ChainGrows ==
  ASSUME NEW schema \in Schemas, NEW h \in Hooks, NEW k \in 1..Len(schema.mixins), NEW x, Chained(schema, h, k - 1, x)
  PROVE  Chained(schema, h, k, schema.mixins[k][h] \o x)
<1>1. /\ Len(schema.mixins) \in Nat /\ DOMAIN schema.mixins = 1..Len(schema.mixins)
      /\ k \in DOMAIN schema.mixins /\ \A j \in 1..(k - 1) : j \in DOMAIN schema.mixins /\ j # k
  BY ActionsAssumption
<1>2. PICK m : m = schema.mixins[k][h]
  OBVIOUS
<1>3. /\ m = <<>> \/ m = <<m[1]>>
      /\ schema.name \notin ToSet(m)
      /\ \A j \in 1..(k - 1) : ToSet(m) \cap ToSet(schema.mixins[j][h]) = {}
      /\ schema[h] = <<>> \/ schema[h] = <<schema.name>>
  BY <1>1, <1>2, HooksAssumption
<1>4. PICK O : O = Owners(schema, h, k - 1)
  OBVIOUS
<1>5. PICK P : P = Owners(schema, h, k)
  OBVIOUS
<1>6. /\ x \in Seq(O) /\ IsInjective(x) /\ ToSet(x) = O
      /\ \A i \in DOMAIN x : x[i] = schema.name => i = Len(x)
  BY <1>4 DEF Chained
<1>7. P = ToSet(m) \union O
  <2>1. 1..k = (1..(k - 1)) \union {k}
    BY <1>1
  <2>2. QED
    BY <1>2, <1>4, <1>5, <2>1 DEF Owners
<1>8. PICK y : y = m \o x
  OBVIOUS
<1>9. CASE m = <<>>
  <2>1. y = x /\ P = O
    BY <1>6, <1>7, <1>8, <1>9 DEF ToSet
  <2>2. QED
    BY <1>2, <1>4, <1>5, <1>6, <1>8, <2>1 DEF Chained
<1>10. CASE m = <<m[1]>>
  <2>1. PICK o : o = m[1]
    OBVIOUS
  <2>2. m = <<o>> /\ ToSet(m) = {o}
    BY <1>10, <2>1 DEF ToSet
  <2>3. o \notin O /\ o # schema.name
    <3>1. o # schema.name
      BY <1>3, <2>2
    <3>2. \A j \in 1..(k - 1) : o \notin ToSet(schema.mixins[j][h])
      BY <1>3, <2>2
    <3>3. o \notin ToSet(schema[h])
      BY <1>3, <3>1 DEF ToSet
    <3>4. QED
      BY <1>4, <3>1, <3>2, <3>3 DEF Owners
  <2>4. x \in Seq(P) /\ m \in Seq(P)
    BY <1>6, <1>7, <2>2
  <2>5. /\ y \in Seq(P) /\ Len(x) \in Nat /\ DOMAIN x = 1..Len(x) /\ Len(y) = Len(x) + 1
        /\ DOMAIN y = 1..(Len(x) + 1) /\ y[1] = o /\ \A i \in DOMAIN x : y[i + 1] = x[i]
    BY <1>8, <2>2, <2>4
  <2>6. \A i \in DOMAIN y : i = 1 \/ (i - 1 \in DOMAIN x /\ y[i] = x[i - 1])
    BY <2>5
  <2>7. \A i \in DOMAIN x : x[i] \in O
    BY <1>6
  <2>8. IsInjective(y)
    <3>1. ASSUME NEW i \in DOMAIN y, NEW j \in DOMAIN y, y[i] = y[j] PROVE i = j
      <4>1. CASE i = 1
        BY <2>3, <2>5, <2>6, <2>7, <3>1, <4>1
      <4>2. CASE j = 1
        BY <2>3, <2>5, <2>6, <2>7, <3>1, <4>2
      <4>3. CASE i # 1 /\ j # 1
        <5>1. i - 1 \in DOMAIN x /\ j - 1 \in DOMAIN x /\ x[i - 1] = x[j - 1]
          BY <2>6, <3>1, <4>3
        <5>2. i - 1 = j - 1
          BY <1>6, <5>1 DEF IsInjective
        <5>3. QED
          BY <2>5, <5>2
      <4>4. QED
        BY <4>1, <4>2, <4>3
    <3>2. QED
      BY <3>1 DEF IsInjective
  <2>9. \A i \in DOMAIN y : y[i] = schema.name => i = Len(y)
    BY <1>6, <2>3, <2>5, <2>6
  <2>10. ToSet(y) = P
    <3>1. \A i \in DOMAIN y : y[i] \in P
      BY <1>7, <2>2, <2>5, <2>6, <2>7
    <3>2. 1 \in DOMAIN y /\ \A i \in DOMAIN x : i + 1 \in DOMAIN y
      BY <2>5
    <3>3. ASSUME NEW z \in P PROVE \E i \in DOMAIN y : y[i] = z
      <4>1. CASE z = o
        BY <2>5, <3>2, <4>1
      <4>2. CASE z # o
        <5>1. PICK i \in DOMAIN x : x[i] = z
          BY <1>6, <1>7, <2>2, <3>3, <4>2 DEF ToSet
        <5>2. QED
          BY <2>5, <3>2, <5>1
      <4>3. QED
        BY <4>1, <4>2
    <3>4. QED
      BY <3>1, <3>3 DEF ToSet
  <2>11. QED
    BY <1>2, <1>5, <1>8, <2>5, <2>8, <2>9, <2>10 DEF Chained
<1>11. QED
  BY <1>3, <1>9, <1>10

\* What the schema has become after its first k mixins.
Mixed(schema, A, k, x) ==
  /\ {"actions", "settings"} \subseteq DOMAIN x /\ Hooks \subseteq DOMAIN x
  /\ x.actions \in Seq(A) /\ NamesOnce(x.actions) /\ Keeps(schema.actions, x.actions)
  /\ \A j \in 1..k : \A i \in DOMAIN schema.mixins[j].actions :
       FindAction(schema.mixins[j].actions[i].name, x.actions)
  /\ Keeps(schema.settings, x.settings)
  /\ \A h \in Hooks : Chained(schema, h, k, x[h])

LEMMA MixedStep ==
  ASSUME NEW schema \in Schemas, NEW A, NEW k \in 1..Len(schema.mixins), schema.mixins[k].actions \in Seq(A),
         NEW g, Mixed(schema, A, k - 1, g), NEW r, r = ApplyMixin(g, schema.mixins[k])
  PROVE  Mixed(schema, A, k, r)
<1>1. PICK m : m = schema.mixins[k]
  OBVIOUS
<1>2. /\ {"actions", "settings"} \subseteq DOMAIN g /\ Hooks \subseteq DOMAIN g
      /\ g.actions \in Seq(A) /\ NamesOnce(g.actions) /\ Keeps(schema.actions, g.actions)
      /\ \A j \in 1..(k - 1) : \A i \in DOMAIN schema.mixins[j].actions :
           FindAction(schema.mixins[j].actions[i].name, g.actions)
      /\ Keeps(schema.settings, g.settings)
      /\ \A h \in Hooks : Chained(schema, h, k - 1, g[h])
  BY DEF Mixed
<1>3. /\ {"actions", "settings"} \subseteq DOMAIN r /\ Hooks \subseteq DOMAIN r
      /\ r.actions = Extended(g.actions, m.actions)
      /\ Keeps(g.settings, r.settings)
      /\ \A h \in Hooks : r[h] = m[h] \o g[h]
  <2>1. r = ApplyMixin(g, m)
    BY <1>1
  <2>2. Mixable(g)
    BY <1>2 DEF Mixable
  <2>3. Applied(g, m, r)
    BY <2>1, <2>2, ApplyMixinIs
  <2>4. QED
    BY <2>3 DEF Applied, Mixable
<1>4. /\ r.actions \in Seq(A) /\ NamesOnce(r.actions) /\ Keeps(g.actions, r.actions)
      /\ \A i \in DOMAIN m.actions : FindAction(m.actions[i].name, r.actions)
  BY <1>1, <1>2, <1>3, ExtendedIs
<1>5. Keeps(schema.actions, r.actions) /\ Keeps(schema.settings, r.settings)
  BY <1>2, <1>3, <1>4 DEF Keeps
<1>6. ASSUME NEW j \in 1..k, NEW i \in DOMAIN schema.mixins[j].actions
      PROVE  FindAction(schema.mixins[j].actions[i].name, r.actions)
  <2>1. CASE j = k
    BY <1>1, <1>4, <1>6, <2>1
  <2>2. CASE j # k
    <3>1. j \in 1..(k - 1)
      BY <2>2
    <3>2. FindAction(schema.mixins[j].actions[i].name, g.actions)
      BY <1>2, <1>6, <3>1
    <3>3. QED
      BY <1>4, <3>2, StillFound
  <2>3. QED
    BY <2>1, <2>2
<1>7. ASSUME NEW h \in Hooks PROVE Chained(schema, h, k, r[h])
  <2>1. Chained(schema, h, k - 1, g[h]) /\ r[h] = schema.mixins[k][h] \o g[h]
    BY <1>1, <1>2, <1>3
  <2>2. QED
    BY <2>1, ChainGrows
<1>8. QED
  BY <1>3, <1>4, <1>5, <1>6, <1>7 DEF Mixed

LEMMA MixedIs ==
  ASSUME NEW schema \in Schemas, NEW A, schema.actions \in Seq(A),
         \A i \in 1..Len(schema.mixins) : schema.mixins[i].actions \in Seq(A)
  PROVE  Mixed(schema, A, Len(schema.mixins), ApplyMixins(schema))
<1> DEFINE Upto(k, f) == f = [i \in 0..k |-> IF i = 0 THEN schema ELSE ApplyMixin(f[i - 1], schema.mixins[i])]
           N == Len(schema.mixins)
           S == {k \in 0..N : ~\E f : Upto(k, f)}
<1>1. N \in Nat /\ N \in 0..N
  BY ActionsAssumption
<1>2. ASSUME S # {} PROVE FALSE
  <2>1. S \subseteq Nat
    BY <1>1
  <2>2. PICK x \in S : \A y \in S : x <= y
    <3> HIDE DEF S
    <3>1. QED
      BY <1>2, <2>1, Least
  <2>3. x \in 0..N /\ ~\E f : Upto(x, f)
    OBVIOUS
  <2>4. CASE x = 0
    <3>1. PICK f : f = [i \in 0..0 |-> schema]
      OBVIOUS
    <3>2. Upto(0, f)
      BY <3>1
    <3>3. QED
      BY <2>3, <2>4, <3>2
  <2>5. CASE x # 0
    <3>1. x \in Nat /\ x - 1 \in 0..N /\ x \in 1..N /\ ~(x <= x - 1)
      BY <1>1, <2>3, <2>5
    <3>2. PICK g : Upto(x - 1, g)
      BY <2>2, <3>1
    <3>3. PICK last : last = ApplyMixin(g[x - 1], schema.mixins[x])
      OBVIOUS
    <3>4. PICK f : f = [i \in 0..x |-> IF i = x THEN last ELSE g[i]]
      OBVIOUS
    <3>5. f[x] = last /\ \A i \in 0..(x - 1) : f[i] = g[i]
      BY <3>1, <3>4
    <3>6. ASSUME NEW i \in 0..x
          PROVE  f[i] = IF i = 0 THEN schema ELSE ApplyMixin(f[i - 1], schema.mixins[i])
      <4>1. CASE i = x
        <5>1. f[x - 1] = g[x - 1]
          BY <3>1, <3>5
        <5>2. QED
          BY <2>5, <3>3, <3>5, <4>1, <5>1
      <4>2. CASE i # x
        <5>1. i \in 0..(x - 1) /\ f[i] = g[i]
          BY <3>1, <3>5, <4>2
        <5>2. i # 0 => f[i - 1] = g[i - 1]
          BY <3>1, <3>5, <5>1
        <5>3. g[i] = IF i = 0 THEN schema ELSE ApplyMixin(g[i - 1], schema.mixins[i])
          BY <3>2, <5>1
        <5>4. QED
          BY <5>1, <5>2, <5>3
      <4>3. QED
        BY <4>1, <4>2
    <3>7. Upto(x, f)
      BY <3>4, <3>6
    <3>8. QED
      BY <2>3, <3>7
  <2>6. QED
    BY <2>4, <2>5
<1>3. PICK f : f = CHOOSE g : Upto(N, g)
  OBVIOUS
<1>4. ApplyMixins(schema) = f[N]
  BY <1>3 DEF ApplyMixins
<1>5. Upto(N, f)
  BY <1>1, <1>2, <1>3
<1> DEFINE T == {i \in 0..N : ~Mixed(schema, A, i, f[i])}
<1>6. ASSUME T # {} PROVE FALSE
  <2>1. T \subseteq Nat
    BY <1>1
  <2>2. PICK x \in T : \A y \in T : x <= y
    <3> HIDE DEF T
    <3>1. QED
      BY <1>6, <2>1, Least
  <2>3. x \in 0..N /\ ~Mixed(schema, A, x, f[x])
    OBVIOUS
  <2>4. f[0] = schema
    BY <1>1, <1>5
  <2>5. x # 0
    <3>1. /\ {"actions", "settings"} \subseteq DOMAIN schema /\ Hooks \subseteq DOMAIN schema
          /\ NamesOnce(schema.actions)
      BY ActionsAssumption, HooksAssumption
    <3>2. Keeps(schema.actions, schema.actions) /\ Keeps(schema.settings, schema.settings)
      BY DEF Keeps
    <3>3. \A h \in Hooks : Chained(schema, h, 0, schema[h])
      BY ChainStarts
    <3>4. Mixed(schema, A, 0, schema)
      BY <3>1, <3>2, <3>3 DEF Mixed
    <3>5. QED
      BY <2>3, <2>4, <3>4
  <2>6. x \in 1..N /\ x - 1 \in 0..N /\ ~(x <= x - 1)
    BY <1>1, <2>3, <2>5
  <2>7. Mixed(schema, A, x - 1, f[x - 1])
    BY <2>2, <2>6
  <2>8. PICK g : g = f[x - 1]
    OBVIOUS
  <2>9. PICK h : h = f[x]
    OBVIOUS
  <2>10. h = ApplyMixin(g, schema.mixins[x])
    BY <1>5, <2>3, <2>5, <2>8, <2>9
  <2>11. QED
    BY <2>3, <2>6, <2>7, <2>8, <2>9, <2>10, MixedStep
<1>7. Mixed(schema, A, N, f[N])
  BY <1>1, <1>6
<1>8. QED
  BY <1>4, <1>7

\* What a schema is built to.
LEMMA BuiltIs ==
  ASSUME NEW schema \in Schemas, NEW p, p = Built[schema]
  PROVE  /\ "settings" \in DOMAIN p
         /\ NamesOnce(p.actions)
         /\ \A i \in DOMAIN schema.actions : /\ i \in DOMAIN p.actions
                                             /\ p.actions[i].name = schema.actions[i].name
                                             /\ p.actions[i].from = schema.actions[i].from
         /\ \A m \in MixinsOf(schema) : \A i \in DOMAIN m.actions : FindAction(m.actions[i].name, p.actions)
         /\ Keeps(schema.settings, p.settings)
         /\ \A h \in Hooks : Chained(schema, h, Len(schema.mixins), p[h])
<1>1. PICK A : A = ToSet(schema.actions) \union UNION {ToSet(m.actions) : m \in ToSet(schema.mixins)}
  OBVIOUS
<1>2. /\ schema.mixins \in Seq(ToSet(schema.mixins)) /\ schema.actions \in Seq(ToSet(schema.actions))
      /\ \A m \in ToSet(schema.mixins) : m.actions \in Seq(ToSet(m.actions))
  BY ActionsAssumption
<1>3. \A x : x \in Seq(ToSet(x)) /\ ToSet(x) \subseteq A => x \in Seq(A)
  OBVIOUS
<1>4. schema.actions \in Seq(A) /\ \A m \in ToSet(schema.mixins) : m.actions \in Seq(A)
  BY <1>1, <1>2, <1>3
<1>5. \A i \in 1..Len(schema.mixins) : schema.mixins[i] \in ToSet(schema.mixins)
  BY <1>2 DEF ToSet
<1>6. PICK s : s = ApplyMixins(schema)
  OBVIOUS
<1>7. Mixed(schema, A, Len(schema.mixins), s)
  BY <1>4, <1>5, <1>6, MixedIs
<1>8. PICK actions : actions = [i \in DOMAIN s.actions |->
                                  CreateServiceAction(JoinVersionToName(s.name, s.version),
                                                      s.actions[i].name, s.actions[i].from)]
  OBVIOUS
<1>9. /\ DOMAIN actions = DOMAIN s.actions
      /\ \A i \in DOMAIN actions : actions[i].name = s.actions[i].name /\ actions[i].from = s.actions[i].from
  BY <1>8 DEF CreateServiceAction
<1>10. p = FromSchema(schema)
  BY DEF Built
<1>11. /\ p.actions = actions /\ {"actions", "settings"} \subseteq DOMAIN p /\ p.settings = s.settings
       /\ p.created = s.created /\ p.started = s.started /\ p.stopped = s.stopped
  BY <1>6, <1>8, <1>10 DEF FromSchema
<1>12. NamesOnce(p.actions)
  BY <1>7, <1>9, <1>11 DEF NamesOnce, Mixed
<1>13. \A i \in DOMAIN schema.actions : /\ i \in DOMAIN p.actions
                                        /\ p.actions[i].name = schema.actions[i].name
                                        /\ p.actions[i].from = schema.actions[i].from
  BY <1>7, <1>9, <1>11 DEF Mixed, Keeps
<1>14. ASSUME NEW m \in MixinsOf(schema), NEW i \in DOMAIN m.actions
       PROVE  FindAction(m.actions[i].name, p.actions)
  <2>1. PICK j \in 1..Len(schema.mixins) : m = schema.mixins[j]
    BY <1>2, <1>14 DEF MixinsOf, ToSet
  <2>2. FindAction(m.actions[i].name, s.actions)
    BY <1>7, <1>14, <2>1 DEF Mixed
  <2>3. QED
    BY <1>9, <1>11, <2>2 DEF FindAction
<1>15. Keeps(schema.settings, p.settings)
  BY <1>7, <1>11 DEF Mixed
<1>16. \A h \in Hooks : p[h] = s[h]
  BY <1>11 DEF Hooks
<1>17. \A h \in Hooks : Chained(schema, h, Len(schema.mixins), p[h])
  BY <1>7, <1>16 DEF Mixed
<1>18. QED
  BY <1>11, <1>12, <1>13, <1>14, <1>15, <1>17

\* The configuration of the broker is about the settings only.
LEMMA ConfiguredIs ==
  ASSUME NEW schema \in Schemas, NEW p, p = Built[schema], NEW s, s = ApplyServiceConfig(p)
  PROVE  /\ s.name = p.name /\ s.actions = p.actions
         /\ s.created = p.created /\ s.started = p.started /\ s.stopped = p.stopped
         /\ s.name \notin DOMAIN Config => s.settings = p.settings
         /\ s.name \in DOMAIN Config =>
              \A k \in DOMAIN Config[s.name].settings :
                k \in DOMAIN Config[s.name].metadata \/ s.settings[k] = Config[s.name].settings[k]
<1>1. {"name", "actions", "settings", "created", "started", "stopped"} \subseteq DOMAIN p
  BY DEF Built, FromSchema
<1>2. CASE p.name \notin DOMAIN Config
  BY <1>2 DEF ApplyServiceConfig
<1>3. CASE p.name \in DOMAIN Config
  <2>1. PICK c : c = Config[p.name]
    OBVIOUS
  <2>2. PICK x : x = MergeSettings(p.settings, c.settings)
    OBVIOUS
  <2>3. PICK y : y = MergeSettings(x, c.metadata)
    OBVIOUS
  <2>4. s = [p EXCEPT !.settings = y]
    BY <1>3, <2>1, <2>2, <2>3 DEF ApplyServiceConfig
  <2>5. /\ s.name = p.name /\ s.actions = p.actions /\ s.settings = y
        /\ s.created = p.created /\ s.started = p.started /\ s.stopped = p.stopped
    BY <1>1, <2>4
  <2>6. \A k \in DOMAIN c.settings : k \in DOMAIN x /\ x[k] = c.settings[k]
    BY <2>2, MergeSettingsIs DEF Keeps
  <2>7. \A k \in DOMAIN x : k \in DOMAIN c.metadata \/ y[k] = x[k]
    BY <2>3, MergeSettingsIs
  <2>8. QED
    BY <1>3, <2>1, <2>5, <2>6, <2>7
<1>4. QED
  BY <1>2, <1>3

\* No service of Self has two actions of one name.
LEMMA OwnOnce == ASSUME NEW p \in OwnBuilt PROVE NamesOnce(p.actions)
<1>1. PICK schema \in Schemas : p = ApplyServiceConfig(Built[schema])
  BY DEF OwnBuilt, Schemas
<1>2. QED
  BY <1>1, BuiltIs, ConfiguredIs

LEMMA LocalServiceIs ==
  ASSUME NEW p \in OwnBuilt, NEW t, t = LocalService(p)
  PROVE  /\ WellKnown(t) /\ t.node = Self /\ t.name = p.name /\ t.version = p.version
         /\ t.actions = {[name |-> p.actions[i].name, fullname |-> p.actions[i].fullname] : i \in DOMAIN p.actions}
         /\ t.events = {[name |-> p.events[i].name, group |-> p.events[i].group] : i \in DOMAIN p.events}
<1>1. PICK actions : actions = {[name |-> a.name, fullname |-> a.fullname] : a \in ToSet(p.actions)}
  OBVIOUS
<1>2. PICK events : events = {[name |-> e.name, group |-> e.group] : e \in ToSet(p.events)}
  OBVIOUS
<1>3. /\ DOMAIN t = Fields /\ t.node = Self /\ t.name = p.name /\ t.version = p.version
      /\ t.fullname = p.fullname /\ t.actions = actions /\ t.events = events
  BY <1>1, <1>2 DEF LocalService, Fields
<1>4. actions = {[name |-> p.actions[i].name, fullname |-> p.actions[i].fullname] : i \in DOMAIN p.actions}
  BY <1>1 DEF ToSet
<1>5. events = {[name |-> p.events[i].name, group |-> p.events[i].group] : i \in DOMAIN p.events}
  BY <1>2 DEF ToSet
<1>6. p.fullname = JoinVersionToName(p.name, p.version) /\ \A i \in DOMAIN p.actions :
        p.actions[i].fullname = ActionName(p.name, p.version, p.actions[i].name)
  BY OwnIsBuilt DEF IsBuilt
<1>7. \A a \in actions : a.fullname = ActionName(p.name, p.version, a.name)
  BY <1>4, <1>6
<1>8. WellKnown(t)
  BY <1>3, <1>6, <1>7 DEF WellKnown, Fields, Brokers
<1>9. QED
  BY <1>3, <1>4, <1>5, <1>8

LEMMA AddLocalFits ==
  ASSUME NEW c, Fit(c), NEW p \in OwnBuilt, NEW s, s = LocalService(p),
         \A t \in c.known : ~SameService(s, t), NEW r, r = AddLocal(c, p)
  PROVE  Fit(r) /\ Added(c, s, r)
<1>1. /\ WellKnown(s) /\ s.node = Self /\ s.name = p.name /\ s.version = p.version
      /\ s.actions = {[name |-> p.actions[i].name, fullname |-> p.actions[i].fullname] : i \in DOMAIN p.actions}
      /\ s.events = {[name |-> p.events[i].name, group |-> p.events[i].group] : i \in DOMAIN p.events}
  BY LocalServiceIs
<1>2. PICK own : own = {i \in DOMAIN p.events : p.events[i].name \notin Internal}
  OBVIOUS
<1>3. PICK keyOf : keyOf = [i \in DOMAIN p.actions |-> ActionKey(p.actions[i], s)]
  OBVIOUS
<1>4. PICK entryOf : entryOf = [i \in DOMAIN p.actions |-> [node |-> Self, local |-> TRUE]]
  OBVIOUS
<1>5. PICK nameOf : nameOf = [i \in own |-> p.events[i].name]
  OBVIOUS
<1>6. PICK listenerOf : listenerOf = [i \in own |-> Listener(s, p.events[i], TRUE)]
  OBVIOUS
<1>7. ServicesFit(c) /\ ActionsFit(c) /\ EventsFit(c)
  BY DEF Fit
<1>8. PICK added : added = Add(c, s)
  OBVIOUS
<1>9. Added(c, s, added) /\ added.actions = c.actions /\ added.events = c.events
  BY <1>7, <1>8, AddIs DEF ServicesFit
<1>10. PICK f : f = [added EXCEPT !.actions = AddEntries(added.actions, keyOf, entryOf)]
  OBVIOUS
<1>11. r = [f EXCEPT !.events = AddEntries(f.events, nameOf, listenerOf)]
  BY <1>2, <1>3, <1>4, <1>5, <1>6, <1>8, <1>10 DEF AddLocal
<1>12. /\ Added(c, s, r)
       /\ r.actions = AddEntries(c.actions, keyOf, entryOf)
       /\ r.events = AddEntries(c.events, nameOf, listenerOf)
  BY <1>9, <1>10, <1>11 DEF IsCatalog, Added
<1>13. Enters(s, keyOf, entryOf)
  <2>1. EntryOf(s) = [node |-> Self, local |-> TRUE]
    BY <1>1 DEF EntryOf
  <2>2. \A i \in DOMAIN p.actions : entryOf[i] = EntryOf(s)
    BY <1>4, <2>1
  <2>3. DOMAIN keyOf = DOMAIN p.actions
    BY <1>3
  <2>4. ASSUME NEW i \in DOMAIN p.actions
        PROVE  /\ keyOf[i] = ActionName(p.name, p.version, p.actions[i].name)
               /\ \E a \in s.actions : a.name = p.actions[i].name /\ keyOf[i] = KeyOf(a, s)
    <3>1. PICK a : a = [name |-> p.actions[i].name, fullname |-> p.actions[i].fullname]
      OBVIOUS
    <3>2. a \in s.actions /\ a.name = p.actions[i].name /\ a.fullname = p.actions[i].fullname
      BY <1>1, <3>1
    <3>3. a.fullname = ActionName(p.name, p.version, p.actions[i].name)
      BY OwnIsBuilt, <3>2 DEF IsBuilt
    <3>4. KeyOf(a, s) = a.fullname
      BY <1>1, <3>2, KeyIs
    <3>5. a.fullname.version = p.version
      BY <3>3 DEF ActionName
    <3>6. keyOf[i] = a.fullname
      BY <1>1, <1>3, <3>2, <3>5 DEF ActionKey
    <3>7. QED
      BY <3>2, <3>3, <3>4, <3>6
  <2>5. \A i, j \in DOMAIN p.actions : keyOf[i] = keyOf[j] => i = j
    <3>1. ASSUME NEW i \in DOMAIN p.actions, NEW j \in DOMAIN p.actions, keyOf[i] = keyOf[j] PROVE i = j
      <4>1. ActionName(p.name, p.version, p.actions[i].name) = ActionName(p.name, p.version, p.actions[j].name)
        BY <2>4, <3>1
      <4>2. p.actions[i].name = p.actions[j].name
        BY <4>1, ActionNameIs
      <4>3. QED
        BY <4>2, OwnOnce DEF NamesOnce
    <3>2. QED
      BY <3>1
  <2>6. ASSUME NEW a \in s.actions
        PROVE  \E i \in DOMAIN keyOf : keyOf[i] = KeyOf(a, s) /\ \A j \in DOMAIN keyOf : keyOf[j] = keyOf[i] => j = i
    <3>1. PICK i \in DOMAIN p.actions : a = [name |-> p.actions[i].name, fullname |-> p.actions[i].fullname]
      BY <1>1
    <3>2. a.name = p.actions[i].name /\ a.fullname = p.actions[i].fullname
      BY <3>1
    <3>3. PICK b \in s.actions : b.name = p.actions[i].name /\ keyOf[i] = KeyOf(b, s)
      BY <2>4
    <3>4. b.fullname = a.fullname
      BY <1>1, <3>2, <3>3 DEF WellKnown
    <3>5. KeyOf(b, s) = KeyOf(a, s)
      BY <1>1, <3>4, KeyIs
    <3>6. QED
      BY <2>3, <2>5, <3>3, <3>5
  <2>7. QED
    BY <2>2, <2>3, <2>4, <2>6 DEF Enters
<1>14. Listens(s, nameOf, listenerOf)
  <2>1. ASSUME NEW i \in own
        PROVE  /\ listenerOf[i].node = s.node /\ listenerOf[i].service = s.fullname
               /\ [name |-> nameOf[i], group |-> listenerOf[i].group] \in s.events
    <3>1. /\ listenerOf[i].node = s.node /\ listenerOf[i].service = s.fullname
          /\ listenerOf[i].group = p.events[i].group /\ nameOf[i] = p.events[i].name
      BY <1>5, <1>6 DEF Listener
    <3>2. i \in DOMAIN p.events
      BY <1>2
    <3>3. QED
      BY <1>1, <3>1, <3>2
  <2>2. DOMAIN nameOf = own
    BY <1>5
  <2>3. QED
    BY <1>1, <2>1, <2>2 DEF Listens
<1>15. ServicesFit(r)
  BY <1>1, <1>7, <1>12, NewServicesFit
<1>16. ActionsFit(r)
  BY <1>1, <1>7, <1>12, <1>13, NewActionsFit
<1>17. EventsFit(r)
  BY <1>7, <1>12, <1>14, NewEventsFit
<1>18. QED
  BY <1>12, <1>15, <1>16, <1>17 DEF Fit

-----------------------------------------------------------------------------
(* A node is given up *)

GivenUp(c, n) ==
  [RemoveServicesByNode(c, n) EXCEPT !.actions = RemoveActionsByNode(@, n), !.events = RemoveEventsByNode(@, n)]

LEMMA DisconnectFits ==
  ASSUME NEW c, Fit(c), NEW n \in Nodes, NEW r, r = GivenUp(c, n)
  PROVE  Fit(r) /\ r.known = {s \in c.known : s.node # n}
<1>1. ServicesFit(c) /\ ActionsFit(c) /\ EventsFit(c) /\ IsCatalog(c)
  BY DEF Fit, ServicesFit
<1>2. PICK less : less = RemoveServicesByNode(c, n)
  OBVIOUS
<1>3. /\ IsCatalog(less) /\ less.known = {s \in c.known : s.node # n}
      /\ DOMAIN less.byName = DOMAIN c.byName /\ less.actions = c.actions /\ less.events = c.events
  <2>1. PICK gone : gone = {s \in c.known : s.node = n}
    OBVIOUS
  <2>2. PICK f : f = [c EXCEPT !.known = c.known \ gone]
    OBVIOUS
  <2>3. PICK byName :
          byName = [name \in DOMAIN c.byName |->
                      IF c.byName[name] > Cardinality({s \in gone : BareName(s) = name})
                                          + Cardinality({s \in gone : s.fullname = name})
                      THEN c.byName[name] - (Cardinality({s \in gone : BareName(s) = name})
                                             + Cardinality({s \in gone : s.fullname = name}))
                      ELSE 0]
    OBVIOUS
  <2>4. less = [f EXCEPT !.byName = byName]
    BY <1>1, <1>2, <2>1, <2>2, <2>3 DEF RemoveServicesByNode, IsCatalog
  <2>5. DOMAIN byName = DOMAIN c.byName
    BY <2>3
  <2>6. QED
    BY <1>1, <2>1, <2>2, <2>4, <2>5 DEF IsCatalog
<1>4. PICK f : f = [less EXCEPT !.actions = RemoveActionsByNode(c.actions, n)]
  OBVIOUS
<1>5. r = [f EXCEPT !.events = RemoveEventsByNode(c.events, n)]
  BY <1>2, <1>3, <1>4 DEF GivenUp
<1>6. /\ IsCatalog(r) /\ r.known = {s \in c.known : s.node # n} /\ DOMAIN r.byName = DOMAIN c.byName
      /\ r.actions = RemoveActionsByNode(c.actions, n) /\ r.events = RemoveEventsByNode(c.events, n)
  BY <1>3, <1>4, <1>5 DEF IsCatalog
<1>7. /\ \A key, e : In(r.actions, key, e) <=> In(c.actions, key, e) /\ e.node # n
      /\ \A key, e : Once(c.actions, key, e) /\ e.node # n => Once(r.actions, key, e)
      /\ \A name, l : In(r.events, name, l) <=> In(c.events, name, l) /\ l.node # n
  BY <1>6, RemoveActionsIs, RemoveListenersIs
<1>8. ServicesFit(r)
  BY <1>1, <1>6 DEF ServicesFit, FindByName
<1>9. ActionsFit(r)
  <2>1. \A s \in r.known : EntryOf(s).node # n
    BY <1>6, EntryIs
  <2>2. \A s \in r.known : \A a \in s.actions :
          /\ In(r.actions, KeyOf(a, s), EntryOf(s))
          /\ s.version = NoVersion => Once(r.actions, KeyOf(a, s), EntryOf(s))
    BY <1>1, <1>6, <1>7, <2>1 DEF ActionsFit
  <2>3. ASSUME NEW key, NEW e, In(r.actions, key, e), ~WithVersion(key)
        PROVE  \E s \in r.known : EntryOf(s) = e /\ \E a \in s.actions : a.fullname = key
    <3>1. In(c.actions, key, e) /\ e.node # n
      BY <1>7, <2>3
    <3>2. PICK s \in c.known : EntryOf(s) = e /\ \E a \in s.actions : a.fullname = key
      BY <1>1, <2>3, <3>1, InIs DEF ActionsFit
    <3>3. s.node # n
      BY <3>1, <3>2, EntryIs
    <3>4. QED
      BY <1>6, <3>2, <3>3
  <2>4. QED
    BY <2>2, <2>3, InIs DEF ActionsFit
<1>10. EventsFit(r)
  <2>1. ASSUME NEW name, NEW l, In(r.events, name, l)
        PROVE  \E s \in r.known : s.node = l.node /\ s.fullname = l.service
                                  /\ [name |-> name, group |-> l.group] \in s.events
    <3>1. In(c.events, name, l) /\ l.node # n
      BY <1>7, <2>1
    <3>2. QED
      BY <1>1, <1>6, <3>1, InIs DEF EventsFit
  <2>2. ASSUME NEW s \in r.known, NEW e \in s.events
        PROVE  s.node = Self \/ Shared(s, e.name) \/ In(r.events, e.name, Listener(s, e, FALSE))
    <3>1. Listener(s, e, FALSE).node = s.node
      BY DEF Listener
    <3>2. s \in c.known /\ s.node # n
      BY <1>6
    <3>3. QED
      BY <1>1, <1>7, <3>1, <3>2 DEF EventsFit
  <2>3. QED
    BY <2>1, <2>2, InIs DEF EventsFit
<1>11. QED
  BY <1>6, <1>8, <1>9, <1>10 DEF Fit

-----------------------------------------------------------------------------
(* The invariant *)

LEMMA NodeKnownStays ==
  ASSUME NEW c, NEW r, NEW q, NEW m, \A t \in c.known : t.node = m => t \in r.known, KnownFrom(c, q, m)
  PROVE  KnownFrom(r, q, m)
<1>1. FindService(c, AsMap(q), m) \subseteq FindService(r, AsMap(q), m)
  BY DEF FindService
<1>2. QED
  BY <1>1 DEF KnownFrom

\* A service of its own name and version can be appended to what a broker publishes.
LEMMA PublishedStays ==
  ASSUME PublishedFits, NEW b \in Brokers, NEW p \in OwnBuilt \union RemoteBuilt, ~Published(b, p),
         b = Self => p \in OwnBuilt, b \in Nodes => p \in RemoteBuilt,
         published' = [published EXCEPT ![b] = Append(@, p)]
  PROVE  PublishedFits' /\ Published(b, p)' /\ \A x : Published(b, x) => Published(b, x)'
<1>1. PICK old : old = published[b]
  OBVIOUS
<1>2. PICK new : new = Append(old, p)
  OBVIOUS
<1>3. /\ published' = [published EXCEPT ![b] = new]
      /\ published \in [Brokers -> Seq(OwnBuilt \union RemoteBuilt)] /\ old \in Seq(OwnBuilt \union RemoteBuilt)
  BY <1>1, <1>2 DEF PublishedFits
<1>4. /\ new \in Seq(OwnBuilt \union RemoteBuilt)
      /\ b = Self => new \in Seq(OwnBuilt)
      /\ b \in Nodes => new \in Seq(RemoteBuilt)
  BY <1>1, <1>2, <1>3 DEF PublishedFits
<1>5. /\ DOMAIN old = 1..Len(old) /\ Len(old) \in Nat /\ DOMAIN new = 1..(Len(old) + 1)
      /\ new[Len(old) + 1] = p /\ \A i \in DOMAIN old : new[i] = old[i]
  BY <1>2, <1>3
<1>6. \A i \in DOMAIN old : ~(old[i].name = p.name /\ old[i].version = p.version)
  BY <1>1 DEF Published
<1>7. \A i \in DOMAIN new : i = Len(old) + 1 \/ i \in DOMAIN old
  BY <1>5
<1>8. \A i, j \in DOMAIN new : new[i].name = new[j].name /\ new[i].version = new[j].version => i = j
  <2>1. \A i, j \in DOMAIN old : old[i].name = old[j].name /\ old[i].version = old[j].version => i = j
    BY <1>1 DEF PublishedFits
  <2>2. QED
    BY <1>5, <1>6, <1>7, <2>1
<1>9. /\ published' \in [Brokers -> Seq(OwnBuilt \union RemoteBuilt)]
      /\ published'[b] = new /\ \A a \in Brokers : a # b => published'[a] = published[a]
  BY <1>3, <1>4
<1>10. PublishedFits'
  <2>1. published'[Self] \in Seq(OwnBuilt)
    BY <1>4, <1>9 DEF PublishedFits, Brokers
  <2>2. \A n \in Nodes : published'[n] \in Seq(RemoteBuilt)
    BY <1>4, <1>9 DEF PublishedFits, Brokers
  <2>3. \A a \in Brokers : \A i, j \in DOMAIN published'[a] :
          published'[a][i].name = published'[a][j].name /\ published'[a][i].version = published'[a][j].version => i = j
    BY <1>8, <1>9 DEF PublishedFits
  <2>4. QED
    BY <1>9, <2>1, <2>2, <2>3 DEF PublishedFits
<1>11. Len(old) + 1 \in DOMAIN new /\ DOMAIN old \subseteq DOMAIN new
  BY <1>5
<1>12. Published(b, p)'
  BY <1>5, <1>9, <1>11 DEF Published
<1>13. ASSUME NEW x, Published(b, x) PROVE Published(b, x)'
  <2>1. PICK i \in DOMAIN old : old[i].name = x.name /\ old[i].version = x.version
    BY <1>1, <1>13 DEF Published
  <2>2. QED
    BY <1>5, <1>9, <1>11, <2>1 DEF Published
<1>14. QED
  BY <1>10, <1>12, <1>13

LEMMA InitInv == Init => IInv
<1>1. ASSUME Init PROVE IInv
  <2>1. /\ published = [b \in Brokers |-> <<>>] /\ pending = {} /\ node = [n \in Nodes |-> "unknown"]
        /\ IsCatalog(cat) /\ cat.known = {} /\ DOMAIN cat.byName = {} /\ DOMAIN cat.actions = {} /\ DOMAIN cat.events = {}
    BY <1>1 DEF Init, None, IsCatalog
  <2>2. PublishedFits
    BY <2>1 DEF PublishedFits, Brokers
  <2>3. Fit(cat)
    BY <2>1 DEF Fit, ServicesFit, ActionsFit, EventsFit
  <2>4. UpToDate = {}
    BY <2>1 DEF UpToDate
  <2>5. QED
    BY <2>1, <2>2, <2>3, <2>4 DEF IInv, Owned
<1>2. QED
  BY <1>1

LEMMA OwnStep == ASSUME IInv, NEW schema \in OwnSchemas, AddLocalService(schema) PROVE IInv'
<1>1. PICK p : p = ApplyServiceConfig(Built[schema])
  OBVIOUS
<1>2. /\ ~Published(Self, p) /\ published' = [published EXCEPT ![Self] = Append(@, p)]
      /\ cat' = AddLocal(cat, p) /\ pending' = pending /\ node' = node
  BY <1>1 DEF AddLocalService
<1>3. p \in OwnBuilt
  BY <1>1 DEF OwnBuilt
<1>4. PICK s : s = LocalService(p)
  OBVIOUS
<1>5. s.node = Self /\ s.name = p.name /\ s.version = p.version
  BY <1>3, <1>4, LocalServiceIs
<1>6. \A t \in cat.known : ~SameService(s, t)
  BY <1>2, <1>5, SelfAssumption DEF IInv, Owned, Published, SameService
<1>7. PICK r : r = AddLocal(cat, p)
  OBVIOUS
<1>8. Fit(r) /\ Added(cat, s, r) /\ r.known = cat.known \union {s}
  BY <1>3, <1>4, <1>6, <1>7, AddLocalFits DEF IInv, Added
<1>9. PublishedFits' /\ Published(Self, p)' /\ \A x : Published(Self, x) => Published(Self, x)'
  <2>1. Self \in Brokers /\ Self \notin Nodes /\ PublishedFits
    BY SelfAssumption DEF Brokers, IInv
  <2>2. QED
    BY <1>2, <1>3, <2>1, PublishedStays
<1>10. \A n \in Nodes : published'[n] = published[n]
  BY <1>2, SelfAssumption DEF IInv, PublishedFits, Brokers
<1>11. cat' = r
  BY <1>2, <1>7
<1>12. Owned'
  <2>1. Published(Self, s)'
    BY <1>5, <1>9 DEF Published
  <2>2. QED
    BY <1>2, <1>5, <1>8, <1>9, <1>11, <2>1 DEF IInv, Owned
<1>13. \A n \in UpToDate' : \A i \in DOMAIN published'[n] : KnownFrom(cat', published'[n][i], n)
  <2>1. UpToDate' = UpToDate /\ \A n \in UpToDate : n \in Nodes
    BY <1>2 DEF UpToDate
  <2>2. ASSUME NEW n \in UpToDate, NEW i \in DOMAIN published[n] PROVE KnownFrom(r, published[n][i], n)
    <3>1. KnownFrom(cat, published[n][i], n)
      BY DEF IInv
    <3>2. QED
      BY <1>8, <3>1, NodeKnownStays
  <2>3. QED
    BY <1>10, <1>11, <2>1, <2>2
<1>14. Fit(cat')
  BY <1>8, <1>11
<1>15. QED
  BY <1>2, <1>9, <1>12, <1>13, <1>14 DEF IInv

LEMMA PublishStep ==
  ASSUME IInv, NEW n \in Nodes, NEW schema \in RemoteSchemas, RemotePublish(n, schema) PROVE IInv'
<1>1. PICK p : p = Built[schema]
  OBVIOUS
<1>2. /\ ~Published(n, p) /\ published' = [published EXCEPT ![n] = Append(@, p)]
      /\ pending' = pending \union {n} /\ node' = node /\ cat' = cat
  BY <1>1 DEF RemotePublish
<1>3. p \in RemoteBuilt /\ n \in Brokers /\ n # Self /\ PublishedFits
  BY <1>1, SelfAssumption DEF RemoteBuilt, Brokers, IInv
<1>4. PublishedFits'
  BY <1>2, <1>3, PublishedStays
<1>5. \A b \in Brokers : b # n => published'[b] = published[b]
  BY <1>2 DEF IInv, PublishedFits
<1>6. Owned'
  BY <1>2, <1>3, <1>5 DEF IInv, Owned, Published, Brokers
<1>7. \A m \in UpToDate' : m \in UpToDate /\ m # n /\ m \in Brokers
  BY <1>2 DEF UpToDate, Brokers
<1>8. QED
  BY <1>2, <1>4, <1>5, <1>6, <1>7 DEF IInv

LEMMA RestartStep == ASSUME IInv, NEW n \in Nodes, Restart(n) PROVE IInv'
<1>1. /\ published' = [published EXCEPT ![n] = <<>>]
      /\ pending' = pending \union {n} /\ node' = node /\ cat' = cat
  BY DEF Restart, None
<1>2. n \in Brokers /\ n # Self
  BY SelfAssumption DEF Brokers
<1>3. /\ published' \in [Brokers -> Seq(OwnBuilt \union RemoteBuilt)]
      /\ published'[n] = <<>> /\ \A b \in Brokers : b # n => published'[b] = published[b]
  <2>1. <<>> \in Seq(OwnBuilt \union RemoteBuilt)
    OBVIOUS
  <2>2. QED
    BY <1>1, <1>2, <2>1 DEF IInv, PublishedFits
<1>4. PublishedFits'
  <2>1. published'[Self] \in Seq(OwnBuilt)
    BY <1>2, <1>3 DEF IInv, PublishedFits, Brokers
  <2>2. <<>> \in Seq(RemoteBuilt)
    OBVIOUS
  <2>3. \A m \in Nodes : published'[m] \in Seq(RemoteBuilt)
    BY <1>3, <2>2 DEF IInv, PublishedFits, Brokers
  <2>4. \A b \in Brokers : \A i, j \in DOMAIN published'[b] :
          published'[b][i].name = published'[b][j].name /\ published'[b][i].version = published'[b][j].version => i = j
    <3>1. DOMAIN published'[n] = {}
      BY <1>3
    <3>2. QED
      BY <1>3, <3>1 DEF IInv, PublishedFits
  <2>5. QED
    BY <1>3, <2>1, <2>3, <2>4 DEF PublishedFits
<1>5. Owned'
  BY <1>1, <1>2, <1>3 DEF IInv, Owned, Published, Brokers
<1>6. \A m \in UpToDate' : m \in UpToDate /\ m # n /\ m \in Brokers
  BY <1>1 DEF UpToDate, Brokers
<1>7. QED
  BY <1>1, <1>3, <1>4, <1>5, <1>6 DEF IInv

LEMMA InfoStep == ASSUME IInv, NEW n \in Nodes, RemoteNodeInfoReceived(n) PROVE IInv'
<1>1. /\ pending' = pending \ {n} /\ node' = [node EXCEPT ![n] = "available"] /\ published' = published
      /\ cat' = UpdateServices(cat, published[n], n)
  BY DEF RemoteNodeInfoReceived
<1>2. PICK services : services = published[n]
  OBVIOUS
<1>3. /\ services \in Seq(RemoteBuilt) /\ Fit(cat)
      /\ \A i, j \in DOMAIN services :
           services[i].name = services[j].name /\ services[i].version = services[j].version => i = j
  BY <1>2 DEF IInv, PublishedFits, Brokers
<1>4. PICK r : r = UpdateServices(cat, services, n)
  OBVIOUS
<1>5. Partly(cat, r, services, Len(services), n)
  BY <1>3, <1>4, UpdateServicesFits
<1>6. cat' = r /\ node' \in [Nodes -> {"unknown", "available", "unavailable"}]
      /\ node'[n] = "available" /\ \A m \in Nodes : m # n => node'[m] = node[m]
  BY <1>1, <1>2, <1>4 DEF IInv
<1>7. Fit(cat')
  BY <1>5, <1>6 DEF Partly
<1>8. Owned'
  <2>1. ASSUME NEW s \in r.known
        PROVE  (s.node = Self /\ Published(Self, s)) \/ (s.node \in Nodes /\ node'[s.node] = "available")
    <3>1. CASE s.node = n
      BY <1>6, <3>1
    <3>2. CASE s.node # n /\ s \in cat.known
      <4>1. (s.node = Self /\ Published(Self, s)) \/ (s.node \in Nodes /\ node[s.node] = "available")
        BY <3>2 DEF IInv, Owned
      <4>2. QED
        BY <1>6, <3>2, <4>1
    <3>3. QED
      BY <1>5, <3>1, <3>2 DEF Partly
  <2>2. QED
    BY <1>1, <1>6, <2>1 DEF Owned, Published
<1>9. ASSUME NEW m \in UpToDate', NEW i \in DOMAIN published[m] PROVE KnownFrom(r, published[m][i], m)
  <2>1. CASE m = n
    <3>1. i \in 1..Len(services)
      BY <1>2, <1>3, <2>1
    <3>2. QED
      BY <1>2, <1>5, <2>1, <3>1 DEF Partly
  <2>2. CASE m # n
    <3>1. m \in UpToDate
      BY <1>1, <1>6, <2>2 DEF UpToDate
    <3>2. KnownFrom(cat, published[m][i], m)
      BY <3>1 DEF IInv
    <3>3. \A t \in cat.known : t.node = m => t \in r.known
      BY <1>5, <2>2 DEF Partly
    <3>4. QED
      BY <3>2, <3>3, NodeKnownStays
  <2>3. QED
    BY <2>1, <2>2
<1>10. PublishedFits'
  BY <1>1 DEF IInv, PublishedFits
<1>11. QED
  BY <1>1, <1>6, <1>7, <1>8, <1>9, <1>10 DEF IInv

LEMMA DiscoverStep == ASSUME IInv, NEW n \in Nodes, DiscoverNode(n) PROVE IInv'
<1>1. pending' = pending \union {n} /\ published' = published /\ node' = node /\ cat' = cat
  BY DEF DiscoverNode
<1>2. PublishedFits' /\ Owned' /\ \A m \in UpToDate' : m \in UpToDate
  BY <1>1 DEF IInv, PublishedFits, Owned, Published, UpToDate
<1>3. QED
  BY <1>1, <1>2 DEF IInv

LEMMA DisconnectStep == ASSUME IInv, NEW n \in Nodes, DisconnectNode(n) PROVE IInv'
<1>1. /\ node' = [node EXCEPT ![n] = "unavailable"] /\ published' = published /\ pending' = pending
      /\ cat' = GivenUp(cat, n)
  BY DEF DisconnectNode, GivenUp
<1>2. PICK r : r = GivenUp(cat, n)
  OBVIOUS
<1>3. cat' = r
  BY <1>1, <1>2
<1>4. Fit(r) /\ r.known = {s \in cat.known : s.node # n}
  BY <1>2, DisconnectFits DEF IInv
<1>5. /\ node' \in [Nodes -> {"unknown", "available", "unavailable"}]
      /\ node'[n] = "unavailable" /\ \A m \in Nodes : m # n => node'[m] = node[m]
  BY <1>1 DEF IInv
<1>6. PublishedFits'
  BY <1>1 DEF IInv, PublishedFits
<1>7. Owned'
  BY <1>1, <1>3, <1>4, <1>5 DEF IInv, Owned, Published
<1>8. ASSUME NEW m \in UpToDate', NEW i \in DOMAIN published[m] PROVE KnownFrom(r, published[m][i], m)
  <2>1. m \in UpToDate /\ m # n
    BY <1>1, <1>5 DEF UpToDate
  <2>2. KnownFrom(cat, published[m][i], m)
    BY <2>1 DEF IInv
  <2>3. \A t \in cat.known : t.node = m => t \in r.known
    BY <1>4, <2>1
  <2>4. QED
    BY <2>2, <2>3, NodeKnownStays
<1>9. QED
  BY <1>1, <1>3, <1>4, <1>5, <1>6, <1>7, <1>8 DEF IInv

LEMMA NextInv == IInv /\ [Next]_vars => IInv'
<1>1. ASSUME IInv, Next PROVE IInv'
  BY <1>1, OwnStep, PublishStep, RestartStep, InfoStep, DiscoverStep, DisconnectStep DEF Next
<1>2. ASSUME IInv, UNCHANGED vars PROVE IInv'
  BY <1>2 DEF vars, IInv, PublishedFits, Owned, Published, UpToDate
<1>3. QED
  BY <1>1, <1>2

\* The invariant holds whatever is published, restarted, announced, missed and given
\* up, in any order.
THEOREM Invariance == Spec => []IInv
<1>1. QED
  BY InitInv, NextInv, PTL DEF Spec

-----------------------------------------------------------------------------
(* What follows *)

\* A broker finds every service it knows by its name and by its full name.
THEOREM KnownServicesAreFound == Spec => []KnownByName
<1>1. IInv => KnownByName
  BY DEF IInv, Fit, ServicesFit, KnownByName
<1>2. QED
  BY <1>1, Invariance, PTL

\* After its INFO every service of a node is known as the node publishes it, whatever
\* was known of it before.
THEOREM InfoTeaches == Spec => []KnownAsPublished
<1>1. IInv => KnownAsPublished
  BY DEF IInv, KnownFrom, KnownAsPublished
<1>2. QED
  BY <1>1, Invariance, PTL

\* No listener is left of a service that is gone or does not listen any more, and
\* none is missing for an event that one service only listens to.
THEOREM ListenersFollow == Spec => []ListenersAgree
<1>1. IInv => ListenersAgree
  BY DEF IInv, Fit, EventsFit, In, ListenersAgree
<1>2. QED
  BY <1>1, Invariance, PTL

\* The key of an entry without a version is one that the node of the entry has.
LEMMA RoutedIsOwn ==
  ASSUME IInv, NEW n \in UpToDate, NEW i \in DOMAIN published[n], published[n][i].version = NoVersion,
         NEW key \in DOMAIN cat.actions, key.version = NoVersion, key.service = published[n][i].name,
         NEW e \in DOMAIN cat.actions[key], e.node = n
  PROVE  \E a \in ToSet(published[n][i].actions) : key = ActionKey(a, published[n][i])
<1>1. PICK p : p = published[n][i]
  OBVIOUS
<1>2. n \in Nodes /\ p \in RemoteBuilt
  BY <1>1 DEF UpToDate, IInv, PublishedFits
<1>3. p.version = NoVersion /\ key.service = p.name /\ ~WithVersion(key)
  BY <1>1 DEF WithVersion
<1>4. PICK w \in cat.known : EntryOf(w) = e /\ \E a \in w.actions : a.fullname = key
  BY <1>3 DEF IInv, Fit, ActionsFit
<1>5. PICK a \in w.actions : a.fullname = key
  BY <1>4
<1>6. w.node = n
  BY <1>4, EntryIs
<1>7. w.name = p.name /\ w.version = NoVersion
  <2>1. a.fullname = ActionName(w.name, w.version, a.name)
    BY DEF IInv, Fit, ServicesFit, WellKnown
  <2>2. a.fullname.service = w.name /\ a.fullname.version = w.version
    BY <2>1 DEF ActionName
  <2>3. QED
    BY <1>3, <1>5, <2>2
<1>8. PICK info : info = AsMap(p)
  OBVIOUS
<1>9. /\ info.name = p.name /\ info.version = p.version
      /\ info.actions = {[name |-> p.actions[j].fullname, rawName |-> p.actions[j].name] :
                            j \in {k \in DOMAIN p.actions : p.actions[k].name \notin Internal}}
  BY <1>2, <1>8, AsMapIs
<1>10. PICK s \in FindService(cat, info, n) : {b.fullname : b \in s.actions} = {b.name : b \in info.actions}
  <2>1. KnownFrom(cat, p, n)
    BY <1>1 DEF IInv
  <2>2. QED
    BY <1>8, <2>1 DEF KnownFrom
<1>11. s = w
  <2>1. s \in cat.known /\ SameService(s, w)
    BY <1>3, <1>6, <1>7, <1>9 DEF FindService, SameService
  <2>2. QED
    BY <2>1 DEF IInv, Fit, ServicesFit
<1>12. key \in {b.name : b \in info.actions}
  BY <1>5, <1>10, <1>11
<1>13. PICK j \in DOMAIN p.actions : key = p.actions[j].fullname
  BY <1>9, <1>12
<1>14. ActionKey(p.actions[j], p) = key
  BY <1>3, <1>13 DEF ActionKey
<1>15. p.actions[j] \in ToSet(p.actions)
  BY DEF ToSet
<1>16. QED
  BY <1>1, <1>14, <1>15

\* Calls are routed by entries that agree with what is known, and the name in a
\* request is one that its receiver has.
THEOREM RoutesFollow == Spec => []RoutesAgree
<1>1. IInv => RoutesAgree
  <2>1. ASSUME IInv PROVE RoutedCallsAreFound
    <3>1. ASSUME NEW n \in UpToDate, NEW s \in ToSet(published[n]), NEW key \in DOMAIN cat.actions,
                 s.version = NoVersion, key.version = NoVersion, key.service = s.name,
                 \E e \in DOMAIN cat.actions[key] : e.node = n
          PROVE  key \in OwnKeys(n)
      <4>1. PICK i \in DOMAIN published[n] : s = published[n][i]
        BY DEF ToSet
      <4>2. PICK e \in DOMAIN cat.actions[key] : e.node = n
        BY <3>1
      <4>3. \E a \in ToSet(published[n][i].actions) : key = ActionKey(a, published[n][i])
        BY <2>1, <3>1, <4>1, <4>2, RoutedIsOwn
      <4>4. key \in {ActionKey(a, s) : a \in ToSet(s.actions)}
        BY <4>1, <4>3
      <4>5. QED
        BY <4>4 DEF OwnKeys
    <3>2. QED
      BY <3>1 DEF RoutedCallsAreFound
  <2>2. ASSUME IInv, NEW s \in cat.known, NEW a \in s.actions
        PROVE  LET entries == EntriesOf(cat.actions, KeyOf(a, s))
               IN  /\ EntryOf(s) \in DOMAIN entries
                   /\ s.version = NoVersion => entries[EntryOf(s)] = 1
    BY <2>2 DEF IInv, Fit, ActionsFit, In, Once
  <2>3. ASSUME IInv, NEW key \in DOMAIN cat.actions, NEW e \in DOMAIN cat.actions[key]
        PROVE  WithVersion(key) \/ \E s \in cat.known : EntryOf(s) = e /\ \E a \in s.actions : a.fullname = key
    BY <2>3 DEF IInv, Fit, ActionsFit
  <2>4. QED
    BY <2>1, <2>2, <2>3 DEF RoutesAgree
<1>2. QED
  BY <1>1, Invariance, PTL

LEMMA ListsFitAlways == IInv => ListsFit
<1> SUFFICES ASSUME IInv PROVE ListsFit
  OBVIOUS
<1>1. PICK only : only = [onlyLocal |-> FALSE, onlyAvailable |-> TRUE, skipInternal |-> FALSE]
  OBVIOUS
<1>2. PICK services : services = {i.name : i \in NodeServices(only)}
  OBVIOUS
<1>3. PICK actions : actions = {i.name : i \in NodeActions(only)}
  OBVIOUS
<1>4. \A name, entries : Listed(only, name, entries) <=> Has(entries, Available)
  BY <1>1 DEF Listed
<1>5. actions = {k \in DOMAIN cat.actions : Has(DOMAIN cat.actions[k], Available)}
  <2>1. PICK keys : keys = {k \in DOMAIN cat.actions : Has(DOMAIN cat.actions[k], Available)}
    OBVIOUS
  <2>2. NodeActions(only) = {Item(k, BagCardinality(cat.actions[k]), DOMAIN cat.actions[k]) : k \in keys}
    BY <1>4, <2>1 DEF NodeActions
  <2>3. \A k, count, entries : Item(k, count, entries).name = k
    BY DEF Item
  <2>4. QED
    BY <1>3, <2>1, <2>2, <2>3
<1>6. services = {s.fullname : s \in {t \in cat.known : Has(ListByName(t.fullname), Available)}}
  <2>1. PICK names : names = {s.fullname : s \in {t \in cat.known : Has(ListByName(t.fullname), Available)}}
    OBVIOUS
  <2>2. NodeServices(only) = {Item(f, Cardinality(ListByName(f)), ListByName(f)) : f \in names}
    BY <1>4, <2>1 DEF NodeServices
  <2>3. \A k, count, entries : Item(k, count, entries).name = k
    BY DEF Item
  <2>4. QED
    BY <1>2, <2>1, <2>2, <2>3
<1>7. ASSUME NEW k \in actions, ~WithVersion(k)
      PROVE  \E f \in services : \E s \in ListByName(f) : s.node \in Available /\ \E a \in s.actions : a.fullname = k
  <2>1. PICK e \in DOMAIN cat.actions[k] : e.node \in Available
    BY <1>5, <1>7 DEF Has
  <2>2. k \in DOMAIN cat.actions
    BY <1>5
  <2>3. PICK s \in cat.known : EntryOf(s) = e /\ \E a \in s.actions : a.fullname = k
    BY <1>7, <2>1, <2>2 DEF IInv, Fit, ActionsFit
  <2>4. s.node \in Available
    BY <2>1, <2>3, EntryIs
  <2>5. s \in ListByName(s.fullname)
    BY DEF ListByName
  <2>6. s.fullname \in services
    BY <1>6, <2>4, <2>5 DEF Has
  <2>7. QED
    BY <2>3, <2>4, <2>5, <2>6
<1>8. ASSUME NEW f \in services, NEW s \in ListByName(f), s.node \in Available, NEW a \in s.actions
      PROVE  KeyOf(a, s) \in actions
  <2>1. s \in cat.known
    BY DEF ListByName
  <2>2. In(cat.actions, KeyOf(a, s), EntryOf(s))
    BY <2>1 DEF IInv, Fit, ActionsFit
  <2>3. EntryOf(s).node \in Available
    BY <1>8, EntryIs
  <2>4. QED
    BY <1>5, <2>2, <2>3, InIs DEF Has
<1>9. QED
  BY <1>1, <1>2, <1>3, <1>7, <1>8 DEF ListsFit

\* $node answers, and what it lists as available fits, whatever nodes come and go.
THEOREM FilteredListsAreAnswered == Spec => []FilteredListsAnswer
<1>1. ASSUME NEW opts \in Options, opts.onlyAvailable \/ opts.onlyLocal PROVE ~NodeEvents(opts).panics
  <2>1. PICK names : names = {k \in DOMAIN cat.events : Listed(opts, k, DOMAIN cat.events[k])}
    OBVIOUS
  <2>2. NodeEvents(opts).panics <=> \E k \in names : cat.events[k] = EmptyBag
    BY <2>1 DEF NodeEvents
  <2>3. \A k \in names : DOMAIN cat.events[k] # {}
    BY <1>1, <2>1 DEF Listed, Has
  <2>4. DOMAIN EmptyBag = {}
    BY DEF EmptyBag, SetToBag
  <2>5. QED
    BY <2>2, <2>3, <2>4
<1>2. IInv => FilteredListsAnswer
  BY <1>1, ListsFitAlways DEF FilteredListsAnswer
<1>3. QED
  BY <1>2, Invariance, PTL


-----------------------------------------------------------------------------
(* What FromSchema makes of the mixins *)

\* What is published was built from a schema: what the two theorems below say of
\* the sources of a service is said of every service (broker/main.go:119-165).
SourcesExist == \A b \in Brokers : \A s \in ToSet(published[b]) : Sources(b, s) # {}

THEOREM PublishedFromSchemas == Spec => []SourcesExist
<1>1. IInv => SourcesExist
  <2>1. ASSUME IInv, NEW b \in Brokers, NEW s \in ToSet(published[b]) PROVE Sources(b, s) # {}
    <3>1. PICK i \in DOMAIN published[b] : s = published[b][i]
      BY <2>1 DEF ToSet
    <3>2. DOMAIN Built = Schemas
      BY DEF Built
    <3>3. CASE b = Self
      <4>1. s \in OwnBuilt
        BY <2>1, <3>1, <3>3 DEF IInv, PublishedFits
      <4>2. PICK schema \in Schemas : s = ApplyServiceConfig(Built[schema])
        BY <4>1 DEF OwnBuilt, Schemas
      <4>3. QED
        BY <3>2, <3>3, <4>2 DEF Sources
    <3>4. CASE b # Self
      <4>1. s \in RemoteBuilt
        BY <2>1, <3>1, <3>4 DEF IInv, PublishedFits, Brokers
      <4>2. PICK schema \in Schemas : s = Built[schema]
        BY <4>1 DEF RemoteBuilt, Schemas
      <4>3. QED
        BY <3>2, <3>4, <4>2 DEF Sources
    <3>5. QED
      BY <3>3, <3>4
  <2>2. QED
    BY <2>1 DEF SourcesExist
<1>2. QED
  BY Invariance, <1>1, PTL

\* A published service and a schema it was built from.
LEMMA SourceIs ==
  ASSUME NEW b, NEW s, NEW schema \in Sources(b, s), NEW p, p = Built[schema]
  PROVE  /\ schema \in Schemas
         /\ s = p \/ (b = Self /\ s = ApplyServiceConfig(p))
         /\ b = Self => s = ApplyServiceConfig(p)
         /\ s.name = p.name /\ s.actions = p.actions
         /\ s.created = p.created /\ s.started = p.started /\ s.stopped = p.stopped
<1>1. /\ schema \in Schemas
      /\ s = p \/ (b = Self /\ s = ApplyServiceConfig(p))
      /\ b = Self => s = ApplyServiceConfig(p)
  BY DEF Sources, Built
<1>2. PICK q : q = ApplyServiceConfig(p)
  OBVIOUS
<1>3. /\ q.name = p.name /\ q.actions = p.actions
      /\ q.created = p.created /\ q.started = p.started /\ q.stopped = p.stopped
  BY <1>1, <1>2, ConfiguredIs
<1>4. QED
  BY <1>1, <1>2, <1>3

\* For any schemas and any number of mixins, in any order: the actions and the
\* settings of the service are its own, every action of a mixin is there once, and
\* only the configuration of the broker comes before (service.go:184-227,
\* broker/main.go:71-99).
THEOREM DefinitionsAreKept == Spec => []OwnDefinitionsWin
<1>1. ASSUME NEW b, NEW s, NEW schema \in Sources(b, s)
      PROVE  /\ \A a \in ToSet(schema.actions) \union UNION {ToSet(m.actions) : m \in MixinsOf(schema)} :
                  \E i \in DOMAIN s.actions :
                    /\ {j \in DOMAIN s.actions : s.actions[j].name = a.name} = {i}
                    /\ \A own \in ToSet(schema.actions) : own.name = a.name => s.actions[i].from = own.from
             /\ \A k \in DOMAIN schema.settings :
                  s.settings[k] = schema.settings[k] \/ (b = Self /\ s.name \in DOMAIN Config)
             /\ b = Self /\ s.name \in DOMAIN Config =>
                  \A k \in DOMAIN Config[s.name].settings :
                    k \in DOMAIN Config[s.name].metadata \/ s.settings[k] = Config[s.name].settings[k]
  <2>1. PICK p : p = Built[schema]
    OBVIOUS
  <2>2. /\ schema \in Schemas
        /\ s = p \/ (b = Self /\ s = ApplyServiceConfig(p))
        /\ b = Self => s = ApplyServiceConfig(p)
        /\ s.name = p.name /\ s.actions = p.actions
    BY <1>1, <2>1, SourceIs
  <2>3. /\ NamesOnce(p.actions)
        /\ \A i \in DOMAIN schema.actions : /\ i \in DOMAIN p.actions
                                            /\ p.actions[i].name = schema.actions[i].name
                                            /\ p.actions[i].from = schema.actions[i].from
        /\ \A m \in MixinsOf(schema) : \A i \in DOMAIN m.actions : FindAction(m.actions[i].name, p.actions)
        /\ Keeps(schema.settings, p.settings)
    BY <2>1, <2>2, BuiltIs
  <2>4. ASSUME NEW a \in ToSet(schema.actions) \union UNION {ToSet(m.actions) : m \in MixinsOf(schema)}
        PROVE  \E i \in DOMAIN s.actions :
                 /\ {j \in DOMAIN s.actions : s.actions[j].name = a.name} = {i}
                 /\ \A own \in ToSet(schema.actions) : own.name = a.name => s.actions[i].from = own.from
    <3>1. \E i \in DOMAIN p.actions : p.actions[i].name = a.name
      <4>1. CASE a \in ToSet(schema.actions)
        BY <2>3, <4>1 DEF ToSet
      <4>2. CASE a \notin ToSet(schema.actions)
        <5>1. PICK m \in MixinsOf(schema) : a \in ToSet(m.actions)
          BY <2>4, <4>2
        <5>2. PICK i \in DOMAIN m.actions : a = m.actions[i]
          BY <5>1 DEF ToSet
        <5>3. QED
          BY <2>3, <5>1, <5>2 DEF FindAction
      <4>3. QED
        BY <4>1, <4>2
    <3>2. PICK i \in DOMAIN p.actions : p.actions[i].name = a.name
      BY <3>1
    <3>3. {j \in DOMAIN p.actions : p.actions[j].name = a.name} = {i}
      BY <2>3, <3>2 DEF NamesOnce
    <3>4. ASSUME NEW own \in ToSet(schema.actions), own.name = a.name PROVE p.actions[i].from = own.from
      <4>1. PICK j \in DOMAIN schema.actions : own = schema.actions[j]
        BY <3>4 DEF ToSet
      <4>2. j \in DOMAIN p.actions /\ p.actions[j].name = a.name /\ p.actions[j].from = own.from
        BY <2>3, <3>4, <4>1
      <4>3. j = i
        BY <2>3, <3>2, <4>2 DEF NamesOnce
      <4>4. QED
        BY <4>2, <4>3
    <3>5. QED
      BY <2>2, <3>2, <3>3, <3>4
  <2>5. ASSUME NEW k \in DOMAIN schema.settings
        PROVE  s.settings[k] = schema.settings[k] \/ (b = Self /\ s.name \in DOMAIN Config)
    <3>1. p.settings[k] = schema.settings[k]
      BY <2>3 DEF Keeps
    <3>2. CASE s = p
      BY <3>1, <3>2
    <3>3. CASE b = Self /\ s = ApplyServiceConfig(p)
      <4>1. s.name \notin DOMAIN Config => s.settings = p.settings
        BY <2>1, <2>2, <3>3, ConfiguredIs
      <4>2. QED
        BY <3>1, <3>3, <4>1
    <3>4. QED
      BY <2>2, <3>2, <3>3
  <2>6. ASSUME b = Self, s.name \in DOMAIN Config, NEW k \in DOMAIN Config[s.name].settings
        PROVE  k \in DOMAIN Config[s.name].metadata \/ s.settings[k] = Config[s.name].settings[k]
    BY <2>1, <2>2, <2>6, ConfiguredIs
  <2>7. QED
    BY <2>4, <2>5, <2>6
<1>2. OwnDefinitionsWin
  BY <1>1 DEF OwnDefinitionsWin
<1>3. QED
  BY <1>2, PTL

\* For any number of mixins each hook of the mixins and of the service runs once,
\* and the service's own runs last (service.go:244-315).
THEOREM HooksRunInOrder == Spec => []HooksInOrder
<1>1. ASSUME NEW b, NEW s, NEW schema \in Sources(b, s)
      PROVE  /\ \A hook \in {s.created, s.started, s.stopped} :
                  /\ IsInjective(hook)
                  /\ \A i \in DOMAIN hook : hook[i] = schema.name => i = Len(hook)
             /\ ToSet(s.stopped) = ToSet(schema.stopped) \union
                                   UNION {ToSet(m.stopped) : m \in MixinsOf(schema)}
  <2>1. PICK p : p = Built[schema]
    OBVIOUS
  <2>2. schema \in Schemas /\ s.created = p.created /\ s.started = p.started /\ s.stopped = p.stopped
    BY <1>1, <2>1, SourceIs
  <2>3. \A h \in Hooks : Chained(schema, h, Len(schema.mixins), p[h])
    BY <2>1, <2>2, BuiltIs
  <2>4. \A h \in Hooks : IsInjective(p[h]) /\ \A i \in DOMAIN p[h] : p[h][i] = schema.name => i = Len(p[h])
    BY <2>3 DEF Chained
  <2>5. "created" \in Hooks /\ "started" \in Hooks /\ "stopped" \in Hooks
    BY DEF Hooks
  <2>6. ToSet(s.stopped) = Owners(schema, "stopped", Len(schema.mixins))
    BY <2>2, <2>3, <2>5 DEF Chained
  <2>7. MixinsOf(schema) = {schema.mixins[j] : j \in 1..Len(schema.mixins)}
    BY <2>2, ActionsAssumption DEF MixinsOf, ToSet
  <2>8. Owners(schema, "stopped", Len(schema.mixins)) =
          ToSet(schema.stopped) \union UNION {ToSet(m.stopped) : m \in MixinsOf(schema)}
    BY <2>7 DEF Owners
  <2>9. QED
    BY <2>2, <2>4, <2>5, <2>6, <2>8
<1>2. HooksInOrder
  BY <1>1 DEF HooksInOrder
<1>3. QED
  BY <1>2, PTL
=============================================================================
