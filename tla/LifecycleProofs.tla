-------------------------- MODULE LifecycleProofs ---------------------------
(***************************************************************************)
(* Proofs about Lifecycle, for any publishers and services and any number  *)
(* of starts, stops and failures: the inductive invariant, one part for    *)
(* each question, and the safety properties it implies.                    *)
(***************************************************************************)
EXTENDS Lifecycle, TLAPS

Values == Services \union Nodes

\* Where a goroutine starts a service, and where Main is inside Start, after the
\* transport was connected and before it has started.
Launch == {"depend", "find", "add", "hook"}
InStart == {"services", "each", "append", "store", "check", "check2", "started"} \union Launch
MainPlaces == {"idle", "connect", "connecting", "notStarting", "stopEach", "disconnect", "stopped"}
                \union InStart
PublisherPlaces == {"idle", "waiting", "append", "store", "check", "check2"} \union Launch
Labels == MainPlaces \union PublisherPlaces
Place == [at : Labels, cur : Values \union {None}, then : Labels, todo : Seq(Values)]
Places == pc \in [Procs -> Place]

Typed ==
  /\ {started, starting, connected, stopping} \subseteq BOOLEAN
  /\ services \in Seq(Values)
  /\ endpoints \in [Names -> Nat]
  /\ loops \in Seq({"alive", "ended"})
  /\ starts \in 0..MaxStarts
  /\ Places

\* Main, and the flags it alone writes: a broker that is connected has a loop of
\* heartbeats that nobody told to stop.
MainInv ==
  LET m == pc[Main]
  IN  /\ m.at \in MainPlaces
      /\ m.at = "idle" => (connected <=> started)
      /\ m.at \in {"connect", "connecting"} => ~started /\ starting /\ ~connected
      /\ m.at = "connecting" => ~stopping
      /\ m.at \in InStart => ~started /\ starting /\ connected
      /\ m.at \in {"connect", "connecting"} \union InStart => starts \in Nodes
      /\ m.at \in {"notStarting", "stopEach", "disconnect"} => started /\ connected
      /\ m.at = "stopped" => started /\ ~connected
      /\ connected => ~stopping /\ \E i \in DOMAIN loops : loops[i] = "alive"
      /\ m.at \in {"append", "store", "check", "check2"} => m.cur = starts
      /\ m.at \in Launch => /\ m.then \in {"services", "each", "started"}
                            /\ m.cur \in Values
                            /\ m.then # "each" => m.cur = starts

\* The publishers: what they publish while Main is busy is in overlap.
PublisherInv(p) ==
  LET q == pc[p]
  IN  /\ q.at \in PublisherPlaces
      /\ q.at # "idle" => q.cur \in Services
      /\ q.at \in Launch => q.then = "idle"
      /\ q.at \notin {"idle", "waiting"} =>
           PublishedBy[q.cur] = p /\ (MainIsBusy => q.cur \in overlap)
      /\ q.at \in Launch => started \/ starting \/ q.cur \in overlap
PublishersInv == \A p \in Publishers : PublisherInv(p)

Control == Typed /\ MainInv /\ PublishersInv

\* Who is about to add a service that was not published during a Start or Stop
\* found that it is not in the catalog, and is alone with it.
RegInv ==
  /\ RegisteredOnce
  /\ \A p \in Procs :
       pc[p].at = "add" /\ Name(pc[p].cur) \notin overlap => endpoints[Name(pc[p].cur)] = 0

\* What was appended is in the list, or a race lost it.
Listed == ToSet(services) \union raced

\* A publisher that appended its service and is not done with it, and Main with
\* its $node.
Appended(p) == pc[p].at \in {"check", "check2"} \union Launch
Late == {pc[p].cur : p \in {q \in Publishers : Appended(q)}}
Launches(then) == pc[Main].at \in Launch /\ pc[Main].then = then
OwnLate == pc[Main].at \in {"check", "check2"} \/ Launches("started")

\* From the first StartService of Start to the append, $node runs and is not listed.
Unlisted ==
  {k \in {starts} : \/ Launches("services") \/ Launches("each")
                    \/ pc[Main].at \in {"services", "each", "append", "store"}}

ProcsListed ==
  \A p \in Procs :
    /\ pc[p].at = "store" => ToSet(pc[p].todo) \subseteq Listed
    /\ p \in Publishers /\ Appended(p) => pc[p].cur \in Listed
MainListed ==
  /\ pc[Main].at = "each" \/ Launches("each") => ToSet(pc[Main].todo) \subseteq Listed
  /\ Launches("each") => pc[Main].cur \in Listed
  /\ OwnLate \/ pc[Main].at = "started" => starts \in Listed
RunningListed == running \subseteq Listed \union Unlisted
ListInv == ProcsListed /\ MainListed /\ RunningListed

\* What Stop has not stopped yet is in its list.
StopInv ==
  /\ pc[Main].at = "stopEach" => running \subseteq overlap \union raced \union ToSet(pc[Main].todo)
  /\ pc[Main].at \in {"disconnect", "stopped"} => running \subseteq overlap \union raced
  /\ pc[Main].at = "idle" /\ ~started /\ ~starting => running \subseteq overlap \union raced

\* What Start has not started yet is in its list, or a publisher will start it.
StartInv ==
  /\ pc[Main].at = "each" =>
       ToSet(services) \subseteq running \union raced \union Late \union ToSet(pc[Main].todo)
  /\ Launches("each") =>
       ToSet(services) \subseteq running \union raced \union Late \union ToSet(pc[Main].todo)
                                  \union {pc[Main].cur}
  /\ OwnLate => ToSet(services) \subseteq running \union raced \union Late \union {starts}
  /\ \/ pc[Main].at \in {"append", "store", "started", "notStarting"}
     \/ pc[Main].at = "idle" /\ started
     => ToSet(services) \subseteq running \union raced \union Late

IInv == Control /\ RegInv /\ ListInv /\ StopInv /\ StartInv

-----------------------------------------------------------------------------
(* Sequences as sets *)

\* A list that grows by one element.
LEMMA ToSetAppend ==
  ASSUME NEW S, NEW s \in Seq(S), NEW x \in S
  PROVE  ToSet(Append(s, x)) = ToSet(s) \union {x}
<1>1. /\ DOMAIN Append(s, x) = DOMAIN s \union {Len(s) + 1}
      /\ \A i \in DOMAIN s : Append(s, x)[i] = s[i]
      /\ Append(s, x)[Len(s) + 1] = x
  OBVIOUS
<1>2. QED
  BY <1>1 DEF ToSet

\* A list is its head and the rest.
LEMMA ToSetTail ==
  ASSUME NEW S, NEW s \in Seq(S), s # <<>>
  PROVE  /\ Head(s) \in S /\ Tail(s) \in Seq(S)
         /\ ToSet(s) = {Head(s)} \union ToSet(Tail(s))
<1>1. /\ Len(s) >= 1 /\ Len(Tail(s)) = Len(s) - 1
      /\ \A i \in 1..Len(s) - 1 : Tail(s)[i] = s[i + 1]
      /\ Head(s) = s[1] /\ s[1] \in S /\ Tail(s) \in Seq(S)
  OBVIOUS
<1>2. \A i \in DOMAIN s : i = 1 \/ (i - 1 \in DOMAIN Tail(s) /\ Tail(s)[i - 1] = s[i])
  BY <1>1
<1>3. \A i \in DOMAIN Tail(s) : i + 1 \in DOMAIN s /\ Tail(s)[i] = s[i + 1]
  BY <1>1
<1>4. 1 \in DOMAIN s
  BY <1>1
<1>5. ToSet(s) \subseteq {Head(s)} \union ToSet(Tail(s))
  BY <1>1, <1>2 DEF ToSet
<1>6. {Head(s)} \union ToSet(Tail(s)) \subseteq ToSet(s)
  BY <1>1, <1>3, <1>4 DEF ToSet
<1>7. QED
  BY <1>1, <1>5, <1>6

\* The list of nothing.
LEMMA ToSetEmpty == ToSet(<<>>) = {}
BY DEF ToSet

-----------------------------------------------------------------------------
(* What a step does to the goroutines.  First the forms of assignment that  *)
(* the actions use, then the actions.                                       *)

Moves(p, at, cur, then, todo) ==
  /\ Places'
  /\ pc'[p].at = at /\ pc'[p].cur = cur /\ pc'[p].then = then /\ pc'[p].todo = todo
  /\ \A q \in Procs \ {p} : pc'[q] = pc[q]

\* Goto.
LEMMA MovesAt ==
  ASSUME Places, NEW p \in Procs, NEW at \in Labels, Goto(p, at)
  PROVE  Moves(p, at, pc[p].cur, pc[p].then, pc[p].todo)
BY DEF Places, Place, Moves, Goto

\* A goroutine gets a record.
LEMMA MovesTo ==
  ASSUME Places, NEW p \in Procs, NEW r \in Place, pc' = [pc EXCEPT ![p] = r]
  PROVE  Moves(p, r.at, r.cur, r.then, r.todo)
BY DEF Places, Place, Moves

\* A goroutine is done with what it was called for.
LEMMA MovesIdle ==
  ASSUME Places, NEW p \in Procs, pc' = [pc EXCEPT ![p] = Idle]
  PROVE  Moves(p, "idle", None, "idle", <<>>)
BY DEF Idle, Place, Places, Moves, Labels, MainPlaces

\* A goroutine goes on with a list.
LEMMA MovesTodo ==
  ASSUME Places, NEW p \in Procs, NEW at \in Labels, NEW todo \in Seq(Values),
         pc' = [pc EXCEPT ![p].at = at, ![p].todo = todo]
  PROVE  Moves(p, at, pc[p].cur, pc[p].then, todo)
BY DEF Places, Place, Moves

\* A goroutine stays with a list.
LEMMA MovesRest ==
  ASSUME Places, NEW p \in Procs, NEW todo \in Seq(Values), pc' = [pc EXCEPT ![p].todo = todo]
  PROVE  Moves(p, pc[p].at, pc[p].cur, pc[p].then, todo)
BY DEF Places, Place, Moves

\* A goroutine goes on with a service.
LEMMA MovesCur ==
  ASSUME Places, NEW p \in Procs, NEW at \in Labels, NEW cur \in Values \union {None},
         pc' = [pc EXCEPT ![p].at = at, ![p].cur = cur]
  PROVE  Moves(p, at, cur, pc[p].then, pc[p].todo)
BY DEF Places, Place, Moves

\* A goroutine starts a service.
LEMMA MovesThen ==
  ASSUME Places, NEW p \in Procs, NEW cur \in Values, NEW then \in Labels,
         StartService(p, cur, then)
  PROVE  Moves(p, "depend", cur, then, pc[p].todo)
<1>1. "depend" \in Labels
  BY DEF Labels, MainPlaces, InStart, Launch
<1>2. QED
  BY <1>1 DEF Places, Place, Moves, StartService

\* The steps of Main.
LEMMA MainMoves ==
  ASSUME Typed, MainInv
  PROVE  LET m == pc[Main]
         IN  /\ Start => \/ started /\ pc' = pc
                         \/ ~started /\ Moves(Main, "connect", m.cur, m.then, m.todo)
             /\ Stop => \/ ~started /\ pc' = pc
                        \/ started /\ Moves(Main, "stopEach", m.cur, m.then, services)
             /\ Connect => Moves(Main, "connecting", m.cur, m.then, m.todo)
             /\ Connected => Moves(Main, "depend", starts, "services", m.todo)
             /\ ConnectFails => Moves(Main, "idle", m.cur, m.then, m.todo)
             /\ TakeServices => Moves(Main, "each", m.cur, m.then, services)
             /\ StartEach => \/ m.todo = <<>> /\ Moves(Main, "append", starts, m.then, m.todo)
                             \/ m.todo # <<>> /\ Moves(Main, "depend", Head(m.todo), "each", Tail(m.todo))
             /\ SetStarted => Moves(Main, "notStarting", m.cur, m.then, m.todo)
             /\ ResetStarting => Moves(Main, "idle", None, "idle", <<>>)
             /\ StopEach => \/ m.todo = <<>> /\ Moves(Main, "disconnect", m.cur, m.then, m.todo)
                            \/ m.todo # <<>> /\ Moves(Main, "stopEach", m.cur, m.then, Tail(m.todo))
             /\ Disconnect => Moves(Main, "stopped", m.cur, m.then, m.todo)
             /\ Stopped => Moves(Main, "idle", None, "idle", <<>>)
<1> DEFINE m == pc[Main]
<1> USE DEF Labels, MainPlaces, InStart, Launch
<1>1. Main \in Procs /\ Places /\ m \in Place /\ m.todo \in Seq(Values) /\ services \in Seq(Values)
  BY DEF Typed, Places, Place, Procs
<1>2. m.at \in {"connect", "connecting"} \union InStart => starts \in Values
  BY DEF MainInv, Values
<1>3. m.todo # <<>> => Head(m.todo) \in Values /\ Tail(m.todo) \in Seq(Values)
  BY <1>1
<1>4. Start => \/ started /\ pc' = pc
               \/ ~started /\ Moves(Main, "connect", m.cur, m.then, m.todo)
  BY <1>1, MovesAt DEF Start
<1>5. Stop => \/ ~started /\ pc' = pc
              \/ started /\ Moves(Main, "stopEach", m.cur, m.then, services)
  BY <1>1, MovesTodo DEF Stop
<1>6. Connect => Moves(Main, "connecting", m.cur, m.then, m.todo)
  BY <1>1, MovesAt DEF Connect, MainInv
<1>7. Connected => Moves(Main, "depend", starts, "services", m.todo)
  BY <1>1, <1>2, MovesThen DEF Connected
<1>8. ConnectFails => Moves(Main, "idle", m.cur, m.then, m.todo)
  BY <1>1, MovesAt DEF ConnectFails
<1>9. TakeServices => Moves(Main, "each", m.cur, m.then, services)
  BY <1>1, MovesTodo DEF TakeServices
<1>10. ASSUME StartEach
       PROVE  \/ m.todo = <<>> /\ Moves(Main, "append", starts, m.then, m.todo)
              \/ m.todo # <<>> /\ Moves(Main, "depend", Head(m.todo), "each", Tail(m.todo))
  <2>1. CASE m.todo = <<>>
    <3>1. pc' = [pc EXCEPT ![Main].at = "append", ![Main].cur = starts]
      BY <1>1, <1>10, <2>1 DEF StartEach, Places, Place
    <3>2. starts \in Values
      BY <1>2, <1>10 DEF StartEach
    <3>3. QED
      BY <1>1, <2>1, <3>1, <3>2, MovesCur
  <2>2. CASE m.todo # <<>>
    <3>1. [at |-> "depend", cur |-> Head(m.todo), then |-> "each", todo |-> Tail(m.todo)] \in Place
      BY <1>3, <2>2 DEF Place
    <3>2. QED
      BY <1>1, <1>10, <2>2, <3>1, MovesTo DEF StartEach
  <2>3. QED
    BY <2>1, <2>2
<1>11. SetStarted => Moves(Main, "notStarting", m.cur, m.then, m.todo)
  BY <1>1, MovesAt DEF SetStarted
<1>12. ResetStarting => Moves(Main, "idle", None, "idle", <<>>)
  BY <1>1, MovesIdle DEF ResetStarting
<1>13. ASSUME StopEach
       PROVE  \/ m.todo = <<>> /\ Moves(Main, "disconnect", m.cur, m.then, m.todo)
              \/ m.todo # <<>> /\ Moves(Main, "stopEach", m.cur, m.then, Tail(m.todo))
  <2>1. CASE m.todo = <<>>
    BY <1>1, <1>13, <2>1, MovesAt DEF StopEach
  <2>2. CASE m.todo # <<>>
    BY <1>1, <1>3, <1>13, <2>2, MovesRest DEF StopEach
  <2>3. QED
    BY <2>1, <2>2
<1>14. Disconnect => Moves(Main, "stopped", m.cur, m.then, m.todo)
  BY <1>1, MovesAt DEF Disconnect, MainInv
<1>15. Stopped => Moves(Main, "idle", None, "idle", <<>>)
  BY <1>1, MovesIdle DEF Stopped
<1>16. QED
  BY <1>4, <1>5, <1>6, <1>7, <1>8, <1>9, <1>10, <1>11, <1>12, <1>13, <1>14, <1>15

\* The steps that every goroutine may take.
LEMMA StepMoves ==
  ASSUME Typed, MainInv, PublishersInv, NEW p \in Procs
  PROVE  LET q == pc[p]
         IN  /\ AppendLoad(p) => Moves(p, "store", q.cur, q.then, services)
             /\ AppendStore(p) => Moves(p, "check", q.cur, q.then, <<>>)
             /\ ReadStarted(p) => \/ started /\ Moves(p, "depend", q.cur, After(p), q.todo)
                                  \/ ~started /\ Moves(p, "check2", q.cur, q.then, q.todo)
             /\ ReadStarting(p) => \/ starting /\ Moves(p, "depend", q.cur, After(p), q.todo)
                                   \/ ~starting /\ Moves(p, "idle", None, "idle", <<>>)
             /\ WaitForDependencies(p) => Moves(p, "find", q.cur, q.then, q.todo)
             /\ DependenciesTimeout(p) => Moves(p, "find", q.cur, q.then, q.todo)
             /\ Find(p) => \/ endpoints[Name(q.cur)] > 0 /\ Moves(p, "hook", q.cur, q.then, q.todo)
                           \/ ~(endpoints[Name(q.cur)] > 0) /\ Moves(p, "add", q.cur, q.then, q.todo)
             /\ Add(p) => Moves(p, "hook", q.cur, q.then, q.todo)
             /\ StartedHook(p) => \/ q.then = "idle" /\ Moves(p, "idle", None, "idle", <<>>)
                                  \/ q.then # "idle" /\ Moves(p, q.then, q.cur, q.then, q.todo)
             /\ WaitForService(p) => Moves(p, "idle", None, "idle", <<>>)
<1> DEFINE q == pc[p]
<1> USE DEF Labels, MainPlaces, PublisherPlaces, InStart, Launch
<1>1. Places /\ q \in Place /\ q.then \in Labels /\ services \in Seq(Values) /\ <<>> \in Seq(Values)
  BY DEF Typed, Places, Place
<1>2. q.at \in {"check", "check2"} => q.cur \in Values
  BY DEF Procs, MainInv, PublishersInv, PublisherInv, Values
<1>3. After(p) \in Labels
  BY DEF After
<1>4. AppendLoad(p) => Moves(p, "store", q.cur, q.then, services)
  BY <1>1, MovesTodo DEF AppendLoad
<1>5. AppendStore(p) => Moves(p, "check", q.cur, q.then, <<>>)
  BY <1>1, MovesTodo DEF AppendStore
<1>6. ReadStarted(p) => \/ started /\ Moves(p, "depend", q.cur, After(p), q.todo)
                        \/ ~started /\ Moves(p, "check2", q.cur, q.then, q.todo)
  BY <1>1, <1>2, <1>3, MovesAt, MovesThen DEF ReadStarted
<1>7. ReadStarting(p) => \/ starting /\ Moves(p, "depend", q.cur, After(p), q.todo)
                         \/ ~starting /\ Moves(p, "idle", None, "idle", <<>>)
  BY <1>1, <1>2, <1>3, MovesIdle, MovesThen DEF ReadStarting
<1>8. WaitForDependencies(p) \/ DependenciesTimeout(p) => Moves(p, "find", q.cur, q.then, q.todo)
  BY <1>1, MovesAt DEF WaitForDependencies, DependenciesTimeout
<1>9. Find(p) => \/ endpoints[Name(q.cur)] > 0 /\ Moves(p, "hook", q.cur, q.then, q.todo)
                 \/ ~(endpoints[Name(q.cur)] > 0) /\ Moves(p, "add", q.cur, q.then, q.todo)
  BY <1>1, MovesAt DEF Find
<1>10. Add(p) => Moves(p, "hook", q.cur, q.then, q.todo)
  BY <1>1, MovesAt DEF Add
<1>11. ASSUME StartedHook(p)
       PROVE  \/ q.then = "idle" /\ Moves(p, "idle", None, "idle", <<>>)
              \/ q.then # "idle" /\ Moves(p, q.then, q.cur, q.then, q.todo)
  <2>1. CASE q.then = "idle"
    BY <1>1, <1>11, <2>1, MovesIdle DEF StartedHook
  <2>2. CASE q.then # "idle"
    <3>1. Goto(p, q.then)
      BY <1>1, <1>11, <2>2 DEF StartedHook, Goto, Places, Place
    <3>2. QED
      BY <1>1, <2>2, <3>1, MovesAt
  <2>3. QED
    BY <2>1, <2>2
<1>12. WaitForService(p) => Moves(p, "idle", None, "idle", <<>>)
  BY <1>1, MovesIdle DEF WaitForService
<1>13. QED
  BY <1>4, <1>5, <1>6, <1>7, <1>8, <1>9, <1>10, <1>11, <1>12

\* The calls of a publisher.
LEMMA PublisherMoves ==
  ASSUME Typed, NEW p \in Publishers, NEW svc \in Services
  PROVE  /\ PublishServices(p, svc) => Moves(p, "append", svc, pc[p].then, pc[p].todo)
         /\ WaitFor(p, svc) => Moves(p, "waiting", svc, pc[p].then, pc[p].todo)
<1>1. Places /\ p \in Procs /\ svc \in Values
  BY DEF Typed, Procs, Values
<1>2. {"append", "waiting"} \subseteq Labels
  BY DEF Labels, PublisherPlaces
<1>3. QED
  BY <1>1, <1>2, MovesCur DEF PublishServices, WaitFor

-----------------------------------------------------------------------------
(* Control *)

\* Whoever is in startService or addService has a service.
LEMMA CurIsNamed ==
  ASSUME MainInv, PublishersInv, NEW p \in Procs,
         pc[p].at \in {"append", "store", "check", "check2"} \union Launch
  PROVE  pc[p].cur \in Values /\ Name(pc[p].cur) \in Names
<1>1. pc[p].cur \in Values
  <2>1. CASE p \in Publishers
    BY <2>1 DEF PublishersInv, PublisherInv, Values, Launch
  <2>2. CASE p = Main
    BY <2>2 DEF MainInv, Values, InStart
  <2>3. QED
    BY <2>1, <2>2 DEF Procs
<1>2. QED
  BY <1>1 DEF Values, Name, Names

\* The types.
LEMMA TypedStep ==
  ASSUME Typed, MainInv, PublishersInv, [Next]_vars
  PROVE  Typed'
<1>1. CASE Start
  <2>1. Places'
    BY <1>1, MainMoves DEF Moves, Typed, Places
  <2>2. starts' \in 0..MaxStarts
    BY <1>1, MaxAssumption DEF Start, Typed
  <2>3. starting' \in BOOLEAN
    BY <1>1, Zenon DEF Start, Typed
  <2>4. UNCHANGED <<started, services, endpoints, connected, stopping, loops>>
    BY <1>1 DEF Start
  <2>5. QED
    BY <2>1, <2>2, <2>3, <2>4 DEF Typed
<1>2. CASE Stop
  BY <1>2, MainMoves DEF Stop, Moves, Typed, Places
<1>3. CASE Connect
  BY <1>3, MainMoves DEF Connect, Moves, Typed, Places
<1>4. CASE Connected
  BY <1>4, MainMoves DEF Connected, Moves, Typed, Places
<1>5. CASE ConnectFails
  BY <1>5, MainMoves DEF ConnectFails, Moves, Typed, Places
<1>6. CASE TakeServices
  BY <1>6, MainMoves DEF TakeServices, Moves, Typed, Places
<1>7. CASE StartEach
  BY <1>7, MainMoves DEF StartEach, Moves, Typed, Places
<1>8. CASE SetStarted
  BY <1>8, MainMoves DEF SetStarted, Moves, Typed, Places
<1>9. CASE ResetStarting
  BY <1>9, MainMoves DEF ResetStarting, Moves, Typed, Places
<1>10. CASE StopEach
  BY <1>10, MainMoves DEF StopEach, Moves, Typed, Places
<1>11. CASE Disconnect
  BY <1>11, MainMoves DEF Disconnect, Moves, Typed, Places
<1>12. CASE Stopped
  BY <1>12, MainMoves DEF Stopped, Moves, Typed, Places
<1>13. ASSUME NEW p \in Procs, AppendLoad(p) PROVE Typed'
  BY <1>13, StepMoves DEF AppendLoad, Moves, Typed, Places
<1>14. ASSUME NEW p \in Procs, AppendStore(p) PROVE Typed'
  <2>1. pc[p].todo \in Seq(Values) /\ pc[p].cur \in Values
    BY <1>14, CurIsNamed DEF AppendStore, Typed, Places, Place
  <2>2. services' \in Seq(Values)
    BY <1>14, <2>1 DEF AppendStore
  <2>3. QED
    BY <1>14, <2>2, StepMoves DEF AppendStore, Moves, Typed
<1>15. ASSUME NEW p \in Procs, ReadStarted(p) PROVE Typed'
  BY <1>15, StepMoves DEF ReadStarted, Moves, Typed, Places
<1>16. ASSUME NEW p \in Procs, ReadStarting(p) PROVE Typed'
  BY <1>16, StepMoves DEF ReadStarting, Moves, Typed, Places
<1>17. ASSUME NEW p \in Procs, WaitForDependencies(p) PROVE Typed'
  BY <1>17, StepMoves DEF WaitForDependencies, Moves, Typed, Places
<1>18. ASSUME NEW p \in Procs, DependenciesTimeout(p) PROVE Typed'
  BY <1>18, StepMoves DEF DependenciesTimeout, Moves, Typed, Places
<1>19. ASSUME NEW p \in Procs, Find(p) PROVE Typed'
  BY <1>19, StepMoves DEF Find, Moves, Typed, Places
<1>20. ASSUME NEW p \in Procs, Add(p) PROVE Typed'
  <2>1. endpoints' \in [Names -> Nat]
    <3>1. endpoints' = [endpoints EXCEPT ![Name(pc[p].cur)] = endpoints[Name(pc[p].cur)] + 1]
         /\ endpoints \in [Names -> Nat]
      BY <1>20 DEF Add, Typed
    <3>2. Name(pc[p].cur) \in Names
      BY <1>20, CurIsNamed DEF Add, Launch
    <3>3. QED
      BY <3>1, <3>2
  <2>2. Places'
    BY <1>20, StepMoves DEF Moves
  <2>3. UNCHANGED <<started, starting, services, connected, stopping, loops, starts>>
    BY <1>20 DEF Add
  <2>4. QED
    BY <2>1, <2>2, <2>3 DEF Typed
<1>21. ASSUME NEW p \in Procs, StartedHook(p) PROVE Typed'
  BY <1>21, StepMoves DEF StartedHook, Moves, Typed, Places
<1>22. ASSUME NEW p \in Procs, WaitForService(p) PROVE Typed'
  BY <1>22, StepMoves DEF WaitForService, Moves, Typed, Places
<1>23. ASSUME NEW p \in Publishers, NEW svc \in Services, PublishServices(p, svc) PROVE Typed'
  BY <1>23, PublisherMoves DEF PublishServices, Moves, Typed, Places
<1>24. ASSUME NEW p \in Publishers, NEW svc \in Services, WaitFor(p, svc) PROVE Typed'
  BY <1>24, PublisherMoves DEF WaitFor, Moves, Typed, Places
<1>25. ASSUME NEW i \in DOMAIN loops, LoopEnds(i) PROVE Typed'
  BY <1>25 DEF LoopEnds, Typed, Places
<1>26. CASE UNCHANGED vars
  BY <1>26 DEF vars, Typed, Places
<1>27. QED
  BY <1>1, <1>2, <1>3, <1>4, <1>5, <1>6, <1>7, <1>8, <1>9, <1>10, <1>11, <1>12, <1>13, <1>14,
     <1>15, <1>16, <1>17, <1>18, <1>19, <1>20, <1>21, <1>22, <1>23, <1>24, <1>25, <1>26 DEF
     Next, MainStep, Step, AddService, StartsService

\* Main and its flags.
LEMMA MainInvStep ==
  ASSUME Typed, MainInv, PublishersInv, [Next]_vars
  PROVE  MainInv'
<1>1. CASE Start
  <2>1. starts < MaxStarts => starts + 1 \in Nodes
    BY MaxAssumption DEF Typed, Nodes
  <2>2. QED
    BY <1>1, <2>1, MainMoves DEF Start, Moves, MainInv, MainPlaces, InStart, Launch, Procs
<1>2. CASE Stop
  BY <1>2, MainMoves, GoroutinesAssumption DEF Stop, Moves, MainInv, MainPlaces, InStart,
     Launch, Procs
<1>3. CASE Connect
  BY <1>3, MainMoves, GoroutinesAssumption DEF Connect, Moves, MainInv, MainPlaces, InStart,
     Launch, Procs
<1>4. CASE Connected
  <2>1. Moves(Main, "depend", starts, "services", pc[Main].todo)
    BY <1>4, MainMoves
  <2>2. connected' /\ ~stopping' /\ starts' \in Nodes /\ starts' \in Values
    BY <1>4 DEF Connected, Values, MainInv
  <2>3. \E i \in DOMAIN loops' : loops'[i] = "alive"
    <3>1. loops' = Append(loops, "alive") /\ loops \in Seq({"alive", "ended"})
      BY <1>4 DEF Connected, Typed
    <3>2. Len(loops) + 1 \in DOMAIN loops' /\ loops'[Len(loops) + 1] = "alive"
      BY <3>1
    <3>3. QED
      BY <3>2
  <2>4. QED
    BY <1>4, <2>1, <2>2, <2>3 DEF Connected, Moves, MainInv, MainPlaces, InStart, Launch, Procs
<1>5. CASE ConnectFails
  BY <1>5, MainMoves, GoroutinesAssumption DEF ConnectFails, Moves, MainInv, MainPlaces,
     InStart, Launch, Procs
<1>6. CASE TakeServices
  BY <1>6, MainMoves, GoroutinesAssumption DEF TakeServices, Moves, MainInv, MainPlaces,
     InStart, Launch, Procs
<1>7. CASE StartEach
  BY <1>7, MainMoves, GoroutinesAssumption, ToSetTail DEF StartEach, Moves, MainInv,
     MainPlaces, InStart, Launch, Procs, Typed, Places, Place, Values
<1>8. CASE SetStarted
  BY <1>8, MainMoves, GoroutinesAssumption DEF SetStarted, Moves, MainInv, MainPlaces, InStart,
     Launch, Procs
<1>9. CASE ResetStarting
  BY <1>9, MainMoves, GoroutinesAssumption DEF ResetStarting, Moves, MainInv, MainPlaces,
     InStart, Launch, Procs
<1>10. CASE StopEach
  BY <1>10, MainMoves, GoroutinesAssumption DEF StopEach, Moves, MainInv, MainPlaces, InStart,
     Launch, Procs
<1>11. CASE Disconnect
  BY <1>11, MainMoves, GoroutinesAssumption DEF Disconnect, Moves, MainInv, MainPlaces,
     InStart, Launch, Procs
<1>12. CASE Stopped
  BY <1>12, MainMoves, GoroutinesAssumption DEF Stopped, Moves, MainInv, MainPlaces, InStart,
     Launch, Procs
<1>13. ASSUME NEW p \in Procs, AppendLoad(p) PROVE MainInv'
  <2>1. Moves(p, "store", pc[p].cur, pc[p].then, services)
    BY <1>13, StepMoves
  <2>2. QED
    BY <1>13, <2>1, GoroutinesAssumption DEF AppendLoad, Moves, MainInv, MainPlaces, InStart,
       Launch, Procs
<1>14. ASSUME NEW p \in Procs, AppendStore(p) PROVE MainInv'
  <2>1. Moves(p, "check", pc[p].cur, pc[p].then, <<>>)
    BY <1>14, StepMoves
  <2>2. QED
    BY <1>14, <2>1, GoroutinesAssumption DEF AppendStore, Moves, MainInv, MainPlaces, InStart,
       Launch, Procs
<1>15. ASSUME NEW p \in Procs, ReadStarted(p) PROVE MainInv'
  BY <1>15, StepMoves, GoroutinesAssumption DEF ReadStarted, Moves, MainInv, MainPlaces,
     InStart, Launch, Procs, After
<1>16. ASSUME NEW p \in Procs, ReadStarting(p) PROVE MainInv'
  <2>1. \/ starting /\ Moves(p, "depend", pc[p].cur, After(p), pc[p].todo)
        \/ ~starting /\ Moves(p, "idle", None, "idle", <<>>)
    BY <1>16, StepMoves
  <2>2. UNCHANGED <<started, starting, connected, stopping, loops, starts>>
    BY <1>16 DEF ReadStarting
  <2>3. CASE p = Main
    <3>1. pc[Main].at = "check2" /\ starting /\ pc[Main].cur = starts /\ starts \in Values
      BY <1>16, <2>3 DEF ReadStarting, MainInv, InStart, Values
    <3>2. Moves(Main, "depend", starts, "started", pc[Main].todo)
      BY <2>1, <2>3, <3>1 DEF After
    <3>3. QED
      BY <2>2, <3>1, <3>2 DEF Moves, MainInv, MainPlaces, InStart, Launch, Procs
  <2>4. CASE p # Main
    <3>1. pc'[Main] = pc[Main]
      BY <2>1, <2>4 DEF Moves, Procs
    <3>2. QED
      BY <2>2, <3>1 DEF MainInv, MainPlaces, InStart, Launch, Procs
  <2>5. QED
    BY <2>3, <2>4
<1>17. ASSUME NEW p \in Procs, WaitForDependencies(p) PROVE MainInv'
  BY <1>17, StepMoves, GoroutinesAssumption DEF WaitForDependencies, Moves, MainInv,
     MainPlaces, InStart, Launch, Procs
<1>18. ASSUME NEW p \in Procs, DependenciesTimeout(p) PROVE MainInv'
  BY <1>18, StepMoves, GoroutinesAssumption DEF DependenciesTimeout, Moves, MainInv,
     MainPlaces, InStart, Launch, Procs
<1>19. ASSUME NEW p \in Procs, Find(p) PROVE MainInv'
  BY <1>19, StepMoves, GoroutinesAssumption DEF Find, Moves, MainInv, MainPlaces, InStart,
     Launch, Procs
<1>20. ASSUME NEW p \in Procs, Add(p) PROVE MainInv'
  <2>1. Moves(p, "hook", pc[p].cur, pc[p].then, pc[p].todo)
    BY <1>20, StepMoves
  <2>2. QED
    BY <1>20, <2>1, GoroutinesAssumption DEF Add, Moves, MainInv, MainPlaces, InStart, Launch,
       Procs
<1>21. ASSUME NEW p \in Procs, StartedHook(p) PROVE MainInv'
  <2>1. \/ pc[p].then = "idle" /\ Moves(p, "idle", None, "idle", <<>>)
        \/ pc[p].then # "idle" /\ Moves(p, pc[p].then, pc[p].cur, pc[p].then, pc[p].todo)
    BY <1>21, StepMoves, Zenon
  <2>2. pc[p].at = "hook" /\ UNCHANGED <<started, starting, connected, stopping, loops, starts>>
    BY <1>21 DEF StartedHook
  <2>3. CASE p = Main
    BY <2>1, <2>2, <2>3 DEF Moves, MainInv, MainPlaces, InStart, Launch
  <2>4. CASE p # Main
    BY <2>1, <2>2, <2>4 DEF Moves, MainInv, MainPlaces, InStart, Launch, Procs
  <2>5. QED
    BY <2>3, <2>4
<1>22. ASSUME NEW p \in Procs, WaitForService(p) PROVE MainInv'
  BY <1>22, StepMoves, GoroutinesAssumption DEF WaitForService, Moves, MainInv, MainPlaces,
     InStart, Launch, Procs
<1>23. ASSUME NEW p \in Publishers, NEW svc \in Services, PublishServices(p, svc) PROVE MainInv'
  <2>1. pc'[Main] = pc[Main]
    BY <1>23, PublisherMoves, GoroutinesAssumption DEF Moves, Procs
  <2>2. UNCHANGED <<started, starting, connected, stopping, loops, starts>>
    BY <1>23 DEF PublishServices
  <2>3. QED
    BY <2>1, <2>2 DEF MainInv
<1>24. ASSUME NEW p \in Publishers, NEW svc \in Services, WaitFor(p, svc) PROVE MainInv'
  <2>1. pc'[Main] = pc[Main]
    BY <1>24, PublisherMoves, GoroutinesAssumption DEF Moves, Procs
  <2>2. UNCHANGED <<started, starting, connected, stopping, loops, starts>>
    BY <1>24 DEF WaitFor
  <2>3. QED
    BY <2>1, <2>2 DEF MainInv
<1>25. ASSUME NEW i \in DOMAIN loops, LoopEnds(i) PROVE MainInv'
  BY <1>25, GoroutinesAssumption DEF LoopEnds, MainInv, MainPlaces, InStart, Launch, Procs,
     Typed
<1>26. CASE UNCHANGED vars
  BY <1>26, GoroutinesAssumption DEF vars, MainInv, MainPlaces, InStart, Launch, Procs
<1>27. QED
  BY <1>1, <1>2, <1>3, <1>4, <1>5, <1>6, <1>7, <1>8, <1>9, <1>10, <1>11, <1>12, <1>13, <1>14,
     <1>15, <1>16, <1>17, <1>18, <1>19, <1>20, <1>21, <1>22, <1>23, <1>24, <1>25, <1>26 DEF
     Next, MainStep, Step, AddService, StartsService

\* Who moves leaves the others where they are.
LEMMA OthersStay ==
  ASSUME Typed, MainInv, PublishersInv
  PROVE  /\ Start \/ Stop \/ ConnectFails \/ MainStep => \A q \in Publishers : pc'[q] = pc[q]
         /\ \A p \in Procs : Step(p) => \A q \in Procs \ {p} : pc'[q] = pc[q]
         /\ \A p \in Publishers, svc \in Services :
              PublishServices(p, svc) \/ WaitFor(p, svc) => \A q \in Procs \ {p} : pc'[q] = pc[q]
<1>1. \A q \in Publishers : q \in Procs \ {Main}
  BY GoroutinesAssumption DEF Procs
<1>2. ASSUME Start \/ Stop \/ ConnectFails \/ MainStep
      PROVE  \A q \in Publishers : pc'[q] = pc[q]
  BY <1>1, <1>2, MainMoves DEF MainStep, Moves
<1>3. ASSUME NEW p \in Procs, Step(p)
      PROVE  \A q \in Procs \ {p} : pc'[q] = pc[q]
  BY <1>3, StepMoves DEF Step, AddService, StartsService, Moves
<1>4. ASSUME NEW p \in Publishers, NEW svc \in Services, PublishServices(p, svc) \/ WaitFor(p, svc)
      PROVE  \A q \in Procs \ {p} : pc'[q] = pc[q]
  BY <1>4, PublisherMoves DEF Moves
<1>5. QED
  BY <1>2, <1>3, <1>4

\* A step that moves no publisher keeps what is said of them, if one that makes
\* Main busy notes what is being published, and only a busy Main resets the flags.
LEMMA PublishersStay ==
  ASSUME PublishersInv,
         \A q \in Publishers : pc'[q] = pc[q],
         overlap \subseteq overlap',
         MainIsBusy' => MainIsBusy \/ BeingPublished \subseteq overlap',
         started \/ starting => started' \/ starting' \/ MainIsBusy
  PROVE  PublishersInv'
<1> SUFFICES ASSUME NEW p \in Publishers
             PROVE  PublisherInv(p)'
  BY DEF PublishersInv
<1>1. PublisherInv(p) /\ pc'[p] = pc[p]
  BY DEF PublishersInv
<1>2. pc[p].at \notin {"idle", "waiting"} => pc[p].cur \in BeingPublished
  BY DEF BeingPublished
<1>3. QED
  BY <1>1, <1>2 DEF PublisherInv, PublisherPlaces, Launch

\* Nor does a step of one publisher concern the others.
LEMMA PublisherAlone ==
  ASSUME PublishersInv, NEW p \in Publishers,
         \A q \in Procs \ {p} : pc'[q] = pc[q],
         overlap \subseteq overlap', started' = started, starting' = starting,
         PublisherInv(p)'
  PROVE  PublishersInv'
<1> SUFFICES ASSUME NEW q \in Publishers, q # p
             PROVE  PublisherInv(q)'
  BY DEF PublishersInv
<1>1. PublisherInv(q) /\ pc'[q] = pc[q] /\ pc'[Main] = pc[Main]
  BY GoroutinesAssumption DEF PublishersInv, Procs
<1>2. QED
  BY <1>1 DEF PublisherInv, MainIsBusy

\* The publishers.
LEMMA PublishersInvStep ==
  ASSUME Typed, MainInv, PublishersInv, [Next]_vars
  PROVE  PublishersInv'
<1>1. CASE Start
  <2>1. \A q \in Publishers : pc'[q] = pc[q]
    BY <1>1, OthersStay
  <2>2. /\ overlap \subseteq overlap'
        /\ (started \/ starting => started' \/ starting' \/ MainIsBusy)
        /\ MainIsBusy' => MainIsBusy \/ BeingPublished \subseteq overlap'
    BY <1>1 DEF Start, MainIsBusy
  <2>3. QED
    BY <2>1, <2>2, PublishersStay
<1>2. CASE Stop
  <2>1. \A q \in Publishers : pc'[q] = pc[q]
    BY <1>2, OthersStay
  <2>2. /\ overlap \subseteq overlap'
        /\ (started \/ starting => started' \/ starting' \/ MainIsBusy)
        /\ MainIsBusy' => MainIsBusy \/ BeingPublished \subseteq overlap'
    BY <1>2 DEF Stop, MainIsBusy
  <2>3. QED
    BY <2>1, <2>2, PublishersStay
<1>3. CASE Connect
  <2>1. \A q \in Publishers : pc'[q] = pc[q]
    BY <1>3, OthersStay DEF MainStep
  <2>2. QED
    BY <1>3, <2>1, PublishersStay DEF Connect, MainIsBusy
<1>4. CASE Connected
  <2>1. \A q \in Publishers : pc'[q] = pc[q]
    BY <1>4, OthersStay DEF MainStep
  <2>2. QED
    BY <1>4, <2>1, PublishersStay DEF Connected, MainIsBusy
<1>5. CASE ConnectFails
  <2>1. \A q \in Publishers : pc'[q] = pc[q]
    BY <1>5, OthersStay DEF MainStep
  <2>2. QED
    BY <1>5, <2>1, PublishersStay DEF ConnectFails, MainIsBusy
<1>6. CASE TakeServices
  <2>1. \A q \in Publishers : pc'[q] = pc[q]
    BY <1>6, OthersStay DEF MainStep
  <2>2. QED
    BY <1>6, <2>1, PublishersStay DEF TakeServices, MainIsBusy
<1>7. CASE StartEach
  <2>1. \A q \in Publishers : pc'[q] = pc[q]
    BY <1>7, OthersStay DEF MainStep
  <2>2. QED
    BY <1>7, <2>1, PublishersStay DEF StartEach, MainIsBusy
<1>8. CASE SetStarted
  <2>1. \A q \in Publishers : pc'[q] = pc[q]
    BY <1>8, OthersStay DEF MainStep
  <2>2. QED
    BY <1>8, <2>1, PublishersStay DEF SetStarted, MainIsBusy
<1>9. CASE ResetStarting
  <2>1. \A q \in Publishers : pc'[q] = pc[q]
    BY <1>9, OthersStay DEF MainStep
  <2>2. QED
    BY <1>9, <2>1, PublishersStay DEF ResetStarting, MainIsBusy
<1>10. CASE StopEach
  <2>1. \A q \in Publishers : pc'[q] = pc[q]
    BY <1>10, OthersStay DEF MainStep
  <2>2. QED
    BY <1>10, <2>1, PublishersStay DEF StopEach, MainIsBusy
<1>11. CASE Disconnect
  <2>1. \A q \in Publishers : pc'[q] = pc[q]
    BY <1>11, OthersStay DEF MainStep
  <2>2. QED
    BY <1>11, <2>1, PublishersStay DEF Disconnect, MainIsBusy
<1>12. CASE Stopped
  <2>1. \A q \in Publishers : pc'[q] = pc[q]
    BY <1>12, OthersStay DEF MainStep
  <2>2. QED
    BY <1>12, <2>1, PublishersStay DEF Stopped, MainIsBusy
<1>13. ASSUME NEW p \in Procs, AppendLoad(p) PROVE PublishersInv'
  <2>1. /\ UNCHANGED <<started, starting, overlap>>
        /\ \A q \in Procs \ {p} : pc'[q] = pc[q]
    BY <1>13, OthersStay DEF AppendLoad, Step, AddService, StartsService
  <2>2. CASE p = Main
    <3>1. MainIsBusy /\ \A q \in Publishers : pc'[q] = pc[q]
      BY <1>13, <2>1, <2>2, GoroutinesAssumption DEF AppendLoad, MainIsBusy, Procs
    <3>2. QED
      BY <2>1, <3>1, PublishersStay
  <2>3. CASE p \in Publishers
    <3>1. PublisherInv(p) /\ pc'[Main] = pc[Main]
      BY <2>1, <2>3, GoroutinesAssumption DEF PublishersInv, Procs
    <3>2. PublisherInv(p)'
      BY <1>13, <2>1, <2>3, <3>1, StepMoves DEF AppendLoad, Moves, PublisherInv,
           PublisherPlaces, Launch, MainIsBusy
    <3>3. QED
      BY <2>1, <2>3, <3>2, PublisherAlone
  <2>4. QED
    BY <2>2, <2>3 DEF Procs
<1>14. ASSUME NEW p \in Procs, AppendStore(p) PROVE PublishersInv'
  <2>1. /\ UNCHANGED <<started, starting, overlap>>
        /\ \A q \in Procs \ {p} : pc'[q] = pc[q]
    BY <1>14, OthersStay DEF AppendStore, Step, AddService, StartsService
  <2>2. CASE p = Main
    <3>1. MainIsBusy /\ \A q \in Publishers : pc'[q] = pc[q]
      BY <1>14, <2>1, <2>2, GoroutinesAssumption DEF AppendStore, MainIsBusy, Procs
    <3>2. QED
      BY <2>1, <3>1, PublishersStay
  <2>3. CASE p \in Publishers
    <3>1. PublisherInv(p) /\ pc'[Main] = pc[Main]
      BY <2>1, <2>3, GoroutinesAssumption DEF PublishersInv, Procs
    <3>2. PublisherInv(p)'
      BY <1>14, <2>1, <2>3, <3>1, StepMoves DEF AppendStore, Moves, PublisherInv,
           PublisherPlaces, Launch, MainIsBusy
    <3>3. QED
      BY <2>1, <2>3, <3>2, PublisherAlone
  <2>4. QED
    BY <2>2, <2>3 DEF Procs
<1>15. ASSUME NEW p \in Procs, ReadStarted(p) PROVE PublishersInv'
  <2>1. /\ UNCHANGED <<started, starting, overlap>>
        /\ \A q \in Procs \ {p} : pc'[q] = pc[q]
    BY <1>15, OthersStay DEF ReadStarted, Step, AddService, StartsService
  <2>2. CASE p = Main
    <3>1. MainIsBusy /\ \A q \in Publishers : pc'[q] = pc[q]
      BY <1>15, <2>1, <2>2, GoroutinesAssumption DEF ReadStarted, MainIsBusy, Procs
    <3>2. QED
      BY <2>1, <3>1, PublishersStay
  <2>3. CASE p \in Publishers
    <3>1. PublisherInv(p) /\ pc'[Main] = pc[Main]
      BY <2>1, <2>3, GoroutinesAssumption DEF PublishersInv, Procs
    <3>2. PublisherInv(p)'
      BY <1>15, <2>1, <2>3, <3>1, StepMoves, GoroutinesAssumption DEF ReadStarted, After,
           Moves, PublisherInv, PublisherPlaces, Launch, MainIsBusy
    <3>3. QED
      BY <2>1, <2>3, <3>2, PublisherAlone
  <2>4. QED
    BY <2>2, <2>3 DEF Procs
<1>16. ASSUME NEW p \in Procs, ReadStarting(p) PROVE PublishersInv'
  <2>1. /\ UNCHANGED <<started, starting, overlap>>
        /\ \A q \in Procs \ {p} : pc'[q] = pc[q]
    BY <1>16, OthersStay DEF ReadStarting, Step, AddService, StartsService
  <2>2. CASE p = Main
    <3>1. MainIsBusy /\ \A q \in Publishers : pc'[q] = pc[q]
      BY <1>16, <2>1, <2>2, GoroutinesAssumption DEF ReadStarting, MainIsBusy, Procs
    <3>2. QED
      BY <2>1, <3>1, PublishersStay
  <2>3. CASE p \in Publishers
    <3>1. PublisherInv(p) /\ pc'[Main] = pc[Main]
      BY <2>1, <2>3, GoroutinesAssumption DEF PublishersInv, Procs
    <3>2. PublisherInv(p)'
      BY <1>16, <2>1, <2>3, <3>1, StepMoves, GoroutinesAssumption DEF ReadStarting, After,
           Moves, PublisherInv, PublisherPlaces, Launch, MainIsBusy
    <3>3. QED
      BY <2>1, <2>3, <3>2, PublisherAlone
  <2>4. QED
    BY <2>2, <2>3 DEF Procs
<1>17. ASSUME NEW p \in Procs, WaitForDependencies(p) PROVE PublishersInv'
  <2>1. /\ UNCHANGED <<started, starting, overlap>>
        /\ \A q \in Procs \ {p} : pc'[q] = pc[q]
    BY <1>17, OthersStay DEF WaitForDependencies, Step, AddService, StartsService
  <2>2. CASE p = Main
    <3>1. MainIsBusy /\ \A q \in Publishers : pc'[q] = pc[q]
      BY <1>17, <2>1, <2>2, GoroutinesAssumption DEF WaitForDependencies, MainIsBusy, Procs
    <3>2. QED
      BY <2>1, <3>1, PublishersStay
  <2>3. CASE p \in Publishers
    <3>1. PublisherInv(p) /\ pc'[Main] = pc[Main]
      BY <2>1, <2>3, GoroutinesAssumption DEF PublishersInv, Procs
    <3>2. PublisherInv(p)'
      BY <1>17, <2>1, <2>3, <3>1, StepMoves DEF WaitForDependencies, Moves, PublisherInv,
           PublisherPlaces, Launch, MainIsBusy
    <3>3. QED
      BY <2>1, <2>3, <3>2, PublisherAlone
  <2>4. QED
    BY <2>2, <2>3 DEF Procs
<1>18. ASSUME NEW p \in Procs, DependenciesTimeout(p) PROVE PublishersInv'
  <2>1. /\ UNCHANGED <<started, starting, overlap>>
        /\ \A q \in Procs \ {p} : pc'[q] = pc[q]
    BY <1>18, OthersStay DEF DependenciesTimeout, Step, AddService, StartsService
  <2>2. CASE p = Main
    <3>1. MainIsBusy /\ \A q \in Publishers : pc'[q] = pc[q]
      BY <1>18, <2>1, <2>2, GoroutinesAssumption DEF DependenciesTimeout, MainIsBusy, Procs
    <3>2. QED
      BY <2>1, <3>1, PublishersStay
  <2>3. CASE p \in Publishers
    <3>1. PublisherInv(p) /\ pc'[Main] = pc[Main]
      BY <2>1, <2>3, GoroutinesAssumption DEF PublishersInv, Procs
    <3>2. PublisherInv(p)'
      BY <1>18, <2>1, <2>3, <3>1, StepMoves DEF DependenciesTimeout, Moves, PublisherInv,
           PublisherPlaces, Launch, MainIsBusy
    <3>3. QED
      BY <2>1, <2>3, <3>2, PublisherAlone
  <2>4. QED
    BY <2>2, <2>3 DEF Procs
<1>19. ASSUME NEW p \in Procs, Find(p) PROVE PublishersInv'
  <2>1. /\ UNCHANGED <<started, starting, overlap>>
        /\ \A q \in Procs \ {p} : pc'[q] = pc[q]
    BY <1>19, OthersStay DEF Find, Step, AddService, StartsService
  <2>2. CASE p = Main
    <3>1. MainIsBusy /\ \A q \in Publishers : pc'[q] = pc[q]
      BY <1>19, <2>1, <2>2, GoroutinesAssumption DEF Find, MainIsBusy, Procs
    <3>2. QED
      BY <2>1, <3>1, PublishersStay
  <2>3. CASE p \in Publishers
    <3>1. PublisherInv(p) /\ pc'[Main] = pc[Main]
      BY <2>1, <2>3, GoroutinesAssumption DEF PublishersInv, Procs
    <3>2. PublisherInv(p)'
      BY <1>19, <2>1, <2>3, <3>1, StepMoves DEF Find, Moves, PublisherInv, PublisherPlaces,
           Launch, MainIsBusy
    <3>3. QED
      BY <2>1, <2>3, <3>2, PublisherAlone
  <2>4. QED
    BY <2>2, <2>3 DEF Procs
<1>20. ASSUME NEW p \in Procs, Add(p) PROVE PublishersInv'
  <2>1. /\ UNCHANGED <<started, starting, overlap>>
        /\ \A q \in Procs \ {p} : pc'[q] = pc[q]
    BY <1>20, OthersStay DEF Add, Step, AddService, StartsService
  <2>2. CASE p = Main
    <3>1. MainIsBusy /\ \A q \in Publishers : pc'[q] = pc[q]
      BY <1>20, <2>1, <2>2, GoroutinesAssumption DEF Add, MainIsBusy, Procs
    <3>2. QED
      BY <2>1, <3>1, PublishersStay
  <2>3. CASE p \in Publishers
    <3>1. PublisherInv(p) /\ pc'[Main] = pc[Main]
      BY <2>1, <2>3, GoroutinesAssumption DEF PublishersInv, Procs
    <3>2. PublisherInv(p)'
      <4>1. pc[p].at = "add" /\ Moves(p, "hook", pc[p].cur, pc[p].then, pc[p].todo)
        BY <1>20, StepMoves DEF Add
      <4>2. QED
        BY <2>1, <3>1, <4>1 DEF Moves, PublisherInv, PublisherPlaces, Launch, MainIsBusy
    <3>3. QED
      BY <2>1, <2>3, <3>2, PublisherAlone
  <2>4. QED
    BY <2>2, <2>3 DEF Procs
<1>21. ASSUME NEW p \in Procs, StartedHook(p) PROVE PublishersInv'
  <2>1. /\ UNCHANGED <<started, starting, overlap>>
        /\ \A q \in Procs \ {p} : pc'[q] = pc[q]
    BY <1>21, OthersStay DEF StartedHook, Step, AddService, StartsService
  <2>2. CASE p = Main
    <3>1. MainIsBusy /\ \A q \in Publishers : pc'[q] = pc[q]
      BY <1>21, <2>1, <2>2, GoroutinesAssumption DEF StartedHook, MainIsBusy, Procs
    <3>2. QED
      BY <2>1, <3>1, PublishersStay
  <2>3. CASE p \in Publishers
    <3>1. PublisherInv(p) /\ pc'[Main] = pc[Main]
      BY <2>1, <2>3, GoroutinesAssumption DEF PublishersInv, Procs
    <3>2. PublisherInv(p)'
      BY <1>21, <2>1, <2>3, <3>1, StepMoves DEF StartedHook, Moves, PublisherInv,
           PublisherPlaces, Launch, MainIsBusy
    <3>3. QED
      BY <2>1, <2>3, <3>2, PublisherAlone
  <2>4. QED
    BY <2>2, <2>3 DEF Procs
<1>22. ASSUME NEW p \in Procs, WaitForService(p) PROVE PublishersInv'
  <2>1. /\ UNCHANGED <<started, starting, overlap>>
        /\ \A q \in Procs \ {p} : pc'[q] = pc[q]
    BY <1>22, OthersStay DEF WaitForService, Step, AddService, StartsService
  <2>2. CASE p = Main
    <3>1. MainIsBusy /\ \A q \in Publishers : pc'[q] = pc[q]
      BY <1>22, <2>1, <2>2, GoroutinesAssumption DEF WaitForService, MainIsBusy, Procs
    <3>2. QED
      BY <2>1, <3>1, PublishersStay
  <2>3. CASE p \in Publishers
    <3>1. PublisherInv(p) /\ pc'[Main] = pc[Main]
      BY <2>1, <2>3, GoroutinesAssumption DEF PublishersInv, Procs
    <3>2. PublisherInv(p)'
      BY <1>22, <2>1, <2>3, <3>1, StepMoves DEF WaitForService, Moves, PublisherInv,
           PublisherPlaces, Launch, MainIsBusy
    <3>3. QED
      BY <2>1, <2>3, <3>2, PublisherAlone
  <2>4. QED
    BY <2>2, <2>3 DEF Procs
<1>23. ASSUME NEW p \in Publishers, NEW svc \in Services, PublishServices(p, svc) PROVE
     PublishersInv'
  <2>1. /\ overlap \subseteq overlap' /\ UNCHANGED <<started, starting>>
        /\ \A q \in Procs \ {p} : pc'[q] = pc[q]
    BY <1>23, OthersStay DEF PublishServices
  <2>2. PublisherInv(p) /\ pc'[Main] = pc[Main]
    BY <2>1, GoroutinesAssumption DEF PublishersInv, Procs
  <2>3. PublisherInv(p)'
    <3>1. Moves(p, "append", svc, pc[p].then, pc[p].todo)
      BY <1>23, PublisherMoves
    <3>2. PublishedBy[svc] = p /\ (MainIsBusy => svc \in overlap')
      BY <1>23 DEF PublishServices
    <3>3. QED
      BY <2>1, <2>2, <3>1, <3>2 DEF Moves, PublisherInv, PublisherPlaces, Launch, MainIsBusy
  <2>4. QED
    BY <2>1, <2>3, PublisherAlone
<1>24. ASSUME NEW p \in Publishers, NEW svc \in Services, WaitFor(p, svc) PROVE PublishersInv'
  <2>1. /\ overlap \subseteq overlap' /\ UNCHANGED <<started, starting>>
        /\ \A q \in Procs \ {p} : pc'[q] = pc[q]
    BY <1>24, OthersStay DEF WaitFor
  <2>2. PublisherInv(p) /\ pc'[Main] = pc[Main]
    BY <2>1, GoroutinesAssumption DEF PublishersInv, Procs
  <2>3. PublisherInv(p)'
    <3>1. Moves(p, "waiting", svc, pc[p].then, pc[p].todo)
      BY <1>24, PublisherMoves
    <3>2. QED
      BY <2>1, <2>2, <3>1 DEF Moves, PublisherInv, PublisherPlaces, Launch, MainIsBusy
  <2>4. QED
    BY <2>1, <2>3, PublisherAlone
<1>25. ASSUME NEW i \in DOMAIN loops, LoopEnds(i) PROVE PublishersInv'
  BY <1>25, PublishersStay DEF LoopEnds, MainIsBusy
<1>26. CASE UNCHANGED vars
  BY <1>26, PublishersStay DEF vars, MainIsBusy
<1>27. QED
  BY <1>1, <1>2, <1>3, <1>4, <1>5, <1>6, <1>7, <1>8, <1>9, <1>10, <1>11, <1>12, <1>13, <1>14,
     <1>15, <1>16, <1>17, <1>18, <1>19, <1>20, <1>21, <1>22, <1>23, <1>24, <1>25, <1>26 DEF
     Next, MainStep, Step, AddService, StartsService

\* Every step keeps the goroutines at their places.
LEMMA ControlStep == Control /\ [Next]_vars => Control'
BY TypedStep, MainInvStep, PublishersInvStep DEF Control

\* At first nobody does anything.
LEMMA InitControl == Init => Control
<1> SUFFICES ASSUME Init PROVE Control
  OBVIOUS
<1>1. Idle \in Place
  BY DEF Idle, Place, Labels, MainPlaces
<1>2. Typed
  <2>1. Places
    BY <1>1 DEF Init, Places
  <2>2. /\ {started, starting, connected, stopping} \subseteq BOOLEAN
        /\ endpoints \in [Names -> Nat]
    BY DEF Init
  <2>3. services \in Seq(Values) /\ loops \in Seq({"alive", "ended"}) /\ starts \in 0..MaxStarts
    BY MaxAssumption DEF Init
  <2>4. QED
    BY <2>1, <2>2, <2>3 DEF Typed
<1>3. \A p \in Procs : pc[p] = Idle
  BY DEF Init
<1>4. MainInv
  BY <1>3, GoroutinesAssumption DEF Init, Idle, MainInv, MainPlaces, InStart, Launch, Procs
<1>5. PublishersInv
  BY <1>3 DEF Idle, PublishersInv, PublisherInv, PublisherPlaces, Launch, Procs
<1>6. QED
  BY <1>2, <1>4, <1>5 DEF Control

-----------------------------------------------------------------------------
(* The catalogs of services *)

\* Two goroutines are about to add the same service only if Main met a publisher.
LEMMA AddAlone ==
  ASSUME MainInv, PublishersInv, NEW p \in Procs, NEW q \in Procs, p # q,
         pc[p].at = "add", pc[q].at = "add", Name(pc[p].cur) = Name(pc[q].cur)
  PROVE  Name(pc[p].cur) \in overlap
<1>1. ASSUME NEW r \in Publishers, pc[r].at = "add"
      PROVE  /\ Name(pc[r].cur) = pc[r].cur /\ PublishedBy[pc[r].cur] = r
             /\ MainIsBusy => pc[r].cur \in overlap
  BY <1>1, NamesAssumption DEF PublishersInv, PublisherInv, Name, Nodes
<1>2. CASE p \in Publishers /\ q \in Publishers
  BY <1>1, <1>2
<1>3. CASE p = Main \/ q = Main
  BY <1>1, <1>3 DEF MainIsBusy, Procs
<1>4. QED
  BY <1>2, <1>3 DEF Procs

\* Nobody comes to add a service.
NobodyAdds ==
  \A p \in Procs : pc'[p].at = "add" => pc[p].at = "add" /\ pc'[p].cur = pc[p].cur
LEMMA NobodyAddsIs ==
  /\ pc' = pc => NobodyAdds
  /\ \A p, at, cur, then, todo :
       Moves(p, at, cur, then, todo) /\ at # "add" => NobodyAdds
BY DEF Moves, NobodyAdds

\* A step that adds nothing and brings nobody to add.
LEMMA CatalogStays ==
  ASSUME RegInv, endpoints' = endpoints, overlap \subseteq overlap', NobodyAdds
  PROVE  RegInv'
BY DEF RegInv, RegisteredOnce, NobodyAdds

\* The catalogs: nobody adds what is there, and only one goroutine is about to
\* add a service that was not published during a Start or Stop (registry.go:529).
LEMMA RegInvStep ==
  ASSUME Control, RegInv, [Next]_vars
  PROVE  RegInv'
<1>1. CASE Start
  BY <1>1, MainMoves, NobodyAddsIs, CatalogStays DEF Control, Start
<1>2. CASE Stop
  BY <1>2, MainMoves, NobodyAddsIs, CatalogStays DEF Control, Stop
<1>3. CASE Connect
  BY <1>3, MainMoves, NobodyAddsIs, CatalogStays DEF Control, Connect
<1>4. CASE Connected
  BY <1>4, MainMoves, NobodyAddsIs, CatalogStays DEF Control, Connected
<1>5. CASE ConnectFails
  BY <1>5, MainMoves, NobodyAddsIs, CatalogStays DEF Control, ConnectFails
<1>6. CASE TakeServices
  BY <1>6, MainMoves, NobodyAddsIs, CatalogStays DEF Control, TakeServices
<1>7. CASE StartEach
  BY <1>7, MainMoves, NobodyAddsIs, CatalogStays DEF Control, StartEach
<1>8. CASE SetStarted
  BY <1>8, MainMoves, NobodyAddsIs, CatalogStays DEF Control, SetStarted
<1>9. CASE ResetStarting
  BY <1>9, MainMoves, NobodyAddsIs, CatalogStays DEF Control, ResetStarting
<1>10. CASE StopEach
  BY <1>10, MainMoves, NobodyAddsIs, CatalogStays DEF Control, StopEach
<1>11. CASE Disconnect
  BY <1>11, MainMoves, NobodyAddsIs, CatalogStays DEF Control, Disconnect
<1>12. CASE Stopped
  BY <1>12, MainMoves, NobodyAddsIs, CatalogStays DEF Control, Stopped
<1>13. ASSUME NEW p \in Procs, AppendLoad(p) PROVE RegInv'
  BY <1>13, StepMoves, NobodyAddsIs, CatalogStays DEF Control, AppendLoad
<1>14. ASSUME NEW p \in Procs, AppendStore(p) PROVE RegInv'
  BY <1>14, StepMoves, NobodyAddsIs, CatalogStays DEF Control, AppendStore
<1>15. ASSUME NEW p \in Procs, ReadStarted(p) PROVE RegInv'
  BY <1>15, StepMoves, NobodyAddsIs, CatalogStays DEF Control, ReadStarted
<1>16. ASSUME NEW p \in Procs, ReadStarting(p) PROVE RegInv'
  BY <1>16, StepMoves, NobodyAddsIs, CatalogStays DEF Control, ReadStarting
<1>17. ASSUME NEW p \in Procs, WaitForDependencies(p) PROVE RegInv'
  BY <1>17, StepMoves, NobodyAddsIs, CatalogStays DEF Control, WaitForDependencies
<1>18. ASSUME NEW p \in Procs, DependenciesTimeout(p) PROVE RegInv'
  BY <1>18, StepMoves, NobodyAddsIs, CatalogStays DEF Control, DependenciesTimeout
<1>19. ASSUME NEW p \in Procs, Find(p) PROVE RegInv'
  <2>1. UNCHANGED <<endpoints, overlap>> /\ endpoints \in [Names -> Nat]
    BY <1>19 DEF Find, Control, Typed
  <2>2. Name(pc[p].cur) \in Names
    BY <1>19, CurIsNamed DEF Find, Control, Launch
  <2>3. CASE Moves(p, "hook", pc[p].cur, pc[p].then, pc[p].todo)
    BY <2>1, <2>3, NobodyAddsIs, CatalogStays
  <2>4. CASE endpoints[Name(pc[p].cur)] = 0 /\ Moves(p, "add", pc[p].cur, pc[p].then, pc[p].todo)
    BY <2>1, <2>4 DEF Moves, RegInv, RegisteredOnce
  <2>5. endpoints[Name(pc[p].cur)] > 0 \/ endpoints[Name(pc[p].cur)] = 0
    BY <2>1, <2>2
  <2>6. QED
    BY <1>19, <2>3, <2>4, <2>5, StepMoves DEF Control
<1>20. ASSUME NEW p \in Procs, Add(p) PROVE RegInv'
  <2> DEFINE name == Name(pc[p].cur)
  <2>1. /\ pc[p].at = "add" /\ UNCHANGED overlap
        /\ endpoints' = [endpoints EXCEPT ![name] = endpoints[name] + 1]
        /\ endpoints \in [Names -> Nat]
    BY <1>20 DEF Add, Control, Typed
  <2>2. name \in Names
    BY <2>1, CurIsNamed DEF Control, Launch
  <2>3. Moves(p, "hook", pc[p].cur, pc[p].then, pc[p].todo)
    BY <1>20, StepMoves DEF Control
  <2>4. name \notin overlap => endpoints[name] = 0
    BY <2>1 DEF RegInv
  <2>5. RegisteredOnce'
    BY <2>1, <2>2, <2>4 DEF RegInv, RegisteredOnce
  <2>6. ASSUME NEW q \in Procs, pc'[q].at = "add", Name(pc'[q].cur) \notin overlap
        PROVE  endpoints'[Name(pc'[q].cur)] = 0
    <3>1. q # p /\ pc'[q] = pc[q]
      BY <2>3, <2>6 DEF Moves
    <3>2. Name(pc[q].cur) # name
      BY <2>1, <2>6, <3>1, AddAlone DEF Control
    <3>3. Name(pc[q].cur) \in Names
      BY <2>6, <3>1, CurIsNamed DEF Control, Launch
    <3>4. QED
      BY <2>1, <2>6, <3>1, <3>2, <3>3 DEF RegInv
  <2>7. QED
    BY <2>1, <2>5, <2>6 DEF RegInv
<1>21. ASSUME NEW p \in Procs, StartedHook(p) PROVE RegInv'
  <2>1. pc[p].then # "add"
    BY <1>21 DEF StartedHook, Control, MainInv, PublishersInv, PublisherInv, Launch, Procs
  <2>2. NobodyAdds
    BY <1>21, <2>1, StepMoves, NobodyAddsIs DEF Control
  <2>3. QED
    BY <1>21, <2>2, CatalogStays DEF StartedHook
<1>22. ASSUME NEW p \in Procs, WaitForService(p) PROVE RegInv'
  BY <1>22, StepMoves, NobodyAddsIs, CatalogStays DEF Control, WaitForService
<1>23. ASSUME NEW p \in Publishers, NEW svc \in Services, PublishServices(p, svc) PROVE RegInv'
  BY <1>23, PublisherMoves, NobodyAddsIs, CatalogStays DEF Control, PublishServices
<1>24. ASSUME NEW p \in Publishers, NEW svc \in Services, WaitFor(p, svc) PROVE RegInv'
  BY <1>24, PublisherMoves, NobodyAddsIs, CatalogStays DEF Control, WaitFor
<1>25. ASSUME NEW i \in DOMAIN loops, LoopEnds(i) PROVE RegInv'
  BY <1>25, NobodyAddsIs, CatalogStays DEF LoopEnds
<1>26. CASE UNCHANGED vars
  BY <1>26, NobodyAddsIs, CatalogStays DEF vars
<1>27. QED
  BY <1>1, <1>2, <1>3, <1>4, <1>5, <1>6, <1>7, <1>8, <1>9, <1>10, <1>11, <1>12, <1>13, <1>14,
     <1>15, <1>16, <1>17, <1>18, <1>19, <1>20, <1>21, <1>22, <1>23, <1>24, <1>25, <1>26 DEF
     Next, MainStep, Step, AddService, StartsService

-----------------------------------------------------------------------------
(* The list of services, and what runs *)

\* Who writes the list, what the races lost, and what runs.
LEMMA WhoWrites ==
  ASSUME [Next]_vars
  PROVE  /\ UNCHANGED <<services, raced>> \/ \E p \in Procs : AppendStore(p) \/ ReadStarting(p)
         /\ running' = running \/ StopEach \/ \E p \in Procs : StartedHook(p)
<1>1. ASSUME NEW p \in Procs, Step(p)
      PROVE  /\ UNCHANGED <<services, raced>> \/ AppendStore(p) \/ ReadStarting(p)
             /\ running' = running \/ StartedHook(p)
  <2>1. CASE AppendLoad(p)
    BY <2>1 DEF AppendLoad
  <2>2. CASE AppendStore(p)
    BY <2>2 DEF AppendStore
  <2>3. CASE ReadStarted(p)
    BY <2>3 DEF ReadStarted
  <2>4. CASE ReadStarting(p)
    BY <2>4 DEF ReadStarting
  <2>5. CASE WaitForDependencies(p)
    BY <2>5 DEF WaitForDependencies
  <2>6. CASE DependenciesTimeout(p)
    BY <2>6 DEF DependenciesTimeout
  <2>7. CASE Find(p)
    BY <2>7 DEF Find
  <2>8. CASE Add(p)
    BY <2>8 DEF Add
  <2>9. CASE StartedHook(p)
    BY <2>9 DEF StartedHook
  <2>10. CASE WaitForService(p)
    BY <2>10 DEF WaitForService
  <2>11. QED
    BY <1>1, <2>1, <2>2, <2>3, <2>4, <2>5, <2>6, <2>7, <2>8, <2>9, <2>10
       DEF Step, AddService, StartsService
<1>2. ASSUME Start
      PROVE  UNCHANGED <<services, raced>> /\ (running' = running \/ StopEach)
  BY <1>2 DEF Start
<1>3. ASSUME Stop
      PROVE  UNCHANGED <<services, raced>> /\ (running' = running \/ StopEach)
  BY <1>3 DEF Stop
<1>4. ASSUME Connect
      PROVE  UNCHANGED <<services, raced>> /\ (running' = running \/ StopEach)
  BY <1>4 DEF Connect
<1>5. ASSUME Connected
      PROVE  UNCHANGED <<services, raced>> /\ (running' = running \/ StopEach)
  BY <1>5 DEF Connected
<1>6. ASSUME ConnectFails
      PROVE  UNCHANGED <<services, raced>> /\ (running' = running \/ StopEach)
  BY <1>6 DEF ConnectFails
<1>7. ASSUME TakeServices
      PROVE  UNCHANGED <<services, raced>> /\ (running' = running \/ StopEach)
  BY <1>7 DEF TakeServices
<1>8. ASSUME StartEach
      PROVE  UNCHANGED <<services, raced>> /\ (running' = running \/ StopEach)
  BY <1>8 DEF StartEach
<1>9. ASSUME SetStarted
      PROVE  UNCHANGED <<services, raced>> /\ (running' = running \/ StopEach)
  BY <1>9 DEF SetStarted
<1>10. ASSUME ResetStarting
      PROVE  UNCHANGED <<services, raced>> /\ (running' = running \/ StopEach)
  BY <1>10 DEF ResetStarting
<1>11. ASSUME StopEach
      PROVE  UNCHANGED <<services, raced>> /\ (running' = running \/ StopEach)
  BY <1>11 DEF StopEach
<1>12. ASSUME Disconnect
      PROVE  UNCHANGED <<services, raced>> /\ (running' = running \/ StopEach)
  BY <1>12 DEF Disconnect
<1>13. ASSUME Stopped
      PROVE  UNCHANGED <<services, raced>> /\ (running' = running \/ StopEach)
  BY <1>13 DEF Stopped
<1>14. ASSUME NEW p \in Publishers, NEW svc \in Services, PublishServices(p, svc) \/ WaitFor(p, svc)
       PROVE  UNCHANGED <<services, raced, running>>
  BY <1>14 DEF PublishServices, WaitFor
<1>15. ASSUME NEW i \in DOMAIN loops, LoopEnds(i)
       PROVE  UNCHANGED <<services, raced, running>>
  BY <1>15 DEF LoopEnds
<1>16. CASE UNCHANGED vars
  BY <1>16 DEF vars
<1>17. QED
  BY <1>1, <1>2, <1>3, <1>4, <1>5, <1>6, <1>7, <1>8, <1>9, <1>10, <1>11, <1>12, <1>13, <1>14,
     <1>15, <1>16 DEF Next, MainStep

\* What is listed stays listed, and the service that is appended is added to it.
LEMMA ListedGrows ==
  ASSUME Control, [Next]_vars
  PROVE  /\ Listed \subseteq Listed'
         /\ \A p \in Procs : AppendStore(p) => Listed' = Listed \union {pc[p].cur} \union ToSet(pc[p].todo)
<1>1. ASSUME NEW p \in Procs, AppendStore(p)
      PROVE  Listed' = Listed \union {pc[p].cur} \union ToSet(pc[p].todo)
  <2>1. pc[p].todo \in Seq(Values) /\ pc[p].cur \in Values
    BY <1>1, CurIsNamed DEF AppendStore, Control, Typed, Places, Place
  <2>2. ToSet(services') = ToSet(pc[p].todo) \union {pc[p].cur}
    BY <1>1, <2>1, ToSetAppend DEF AppendStore
  <2>3. raced' = raced \union (ToSet(services) \ ToSet(services'))
    BY <1>1 DEF AppendStore
  <2>4. QED
    BY <2>2, <2>3 DEF Listed
<1>2. ASSUME NEW p \in Procs, ReadStarting(p)
      PROVE  Listed \subseteq Listed'
  BY <1>2 DEF ReadStarting, Listed
<1>3. UNCHANGED <<services, raced>> => Listed' = Listed
  BY DEF Listed
<1>4. QED
  BY <1>1, <1>2, <1>3, WhoWrites

\* Who appended its service finds it in the list, or a race lost it.
LEMMA ProcsListedStep ==
  ASSUME Control, ProcsListed, [Next]_vars
  PROVE  ProcsListed'
<1>1. CASE Start
  BY <1>1, MainMoves, GoroutinesAssumption, ListedGrows DEF Start, Moves, ProcsListed,
     Appended, Launch, Procs, Control
<1>2. CASE Stop
  BY <1>2, MainMoves, GoroutinesAssumption, ListedGrows DEF Stop, Moves, ProcsListed, Appended,
     Launch, Procs, Control
<1>3. CASE Connect
  BY <1>3, MainMoves, GoroutinesAssumption, ListedGrows DEF Connect, Moves, ProcsListed,
     Appended, Launch, Procs, Control
<1>4. CASE Connected
  BY <1>4, MainMoves, GoroutinesAssumption, ListedGrows DEF Connected, Moves, ProcsListed,
     Appended, Launch, Procs, Control
<1>5. CASE ConnectFails
  BY <1>5, MainMoves, GoroutinesAssumption, ListedGrows DEF ConnectFails, Moves, ProcsListed,
     Appended, Launch, Procs, Control
<1>6. CASE TakeServices
  BY <1>6, MainMoves, GoroutinesAssumption, ListedGrows DEF TakeServices, Moves, ProcsListed,
     Appended, Launch, Procs, Control
<1>7. CASE StartEach
  BY <1>7, MainMoves, GoroutinesAssumption, ListedGrows DEF StartEach, Moves, ProcsListed,
     Appended, Launch, Procs, Control
<1>8. CASE SetStarted
  BY <1>8, MainMoves, GoroutinesAssumption, ListedGrows DEF SetStarted, Moves, ProcsListed,
     Appended, Launch, Procs, Control
<1>9. CASE ResetStarting
  BY <1>9, MainMoves, GoroutinesAssumption, ListedGrows DEF ResetStarting, Moves, ProcsListed,
     Appended, Launch, Procs, Control
<1>10. CASE StopEach
  BY <1>10, MainMoves, GoroutinesAssumption, ListedGrows DEF StopEach, Moves, ProcsListed,
     Appended, Launch, Procs, Control
<1>11. CASE Disconnect
  BY <1>11, MainMoves, GoroutinesAssumption, ListedGrows DEF Disconnect, Moves, ProcsListed,
     Appended, Launch, Procs, Control
<1>12. CASE Stopped
  BY <1>12, MainMoves, GoroutinesAssumption, ListedGrows DEF Stopped, Moves, ProcsListed,
     Appended, Launch, Procs, Control
<1>13. ASSUME NEW p \in Procs, AppendLoad(p) PROVE ProcsListed'
  <2>1. pc[p].at = "append"
    BY <1>13 DEF AppendLoad
  <2>2. Moves(p, "store", pc[p].cur, pc[p].then, services)
    BY <1>13, StepMoves DEF Control
  <2>3. ToSet(services) \subseteq Listed
    BY DEF Listed
  <2>4. QED
    BY <2>1, <2>2, <2>3, ListedGrows, GoroutinesAssumption DEF Moves, ProcsListed, Appended,
         Launch, Procs
<1>14. ASSUME NEW p \in Procs, AppendStore(p) PROVE ProcsListed'
  <2>1. pc[p].at = "store"
    BY <1>14 DEF AppendStore
  <2>2. Moves(p, "check", pc[p].cur, pc[p].then, <<>>)
    BY <1>14, StepMoves DEF Control
  <2>3. pc[p].cur \in Listed'
    BY <1>14, ListedGrows
  <2>4. QED
    BY <2>1, <2>2, <2>3, ListedGrows, GoroutinesAssumption DEF Moves, ProcsListed, Appended,
         Launch, Procs
<1>15. ASSUME NEW p \in Procs, ReadStarted(p) PROVE ProcsListed'
  BY <1>15, StepMoves, GoroutinesAssumption, ListedGrows DEF ReadStarted, Moves, ProcsListed,
     Appended, Launch, Procs, Control
<1>16. ASSUME NEW p \in Procs, ReadStarting(p) PROVE ProcsListed'
  BY <1>16, StepMoves, GoroutinesAssumption, ListedGrows DEF ReadStarting, Moves, ProcsListed,
     Appended, Launch, Procs, Control
<1>17. ASSUME NEW p \in Procs, WaitForDependencies(p) PROVE ProcsListed'
  BY <1>17, StepMoves, GoroutinesAssumption, ListedGrows DEF WaitForDependencies, Moves,
     ProcsListed, Appended, Launch, Procs, Control
<1>18. ASSUME NEW p \in Procs, DependenciesTimeout(p) PROVE ProcsListed'
  BY <1>18, StepMoves, GoroutinesAssumption, ListedGrows DEF DependenciesTimeout, Moves,
     ProcsListed, Appended, Launch, Procs, Control
<1>19. ASSUME NEW p \in Procs, Find(p) PROVE ProcsListed'
  BY <1>19, StepMoves, GoroutinesAssumption, ListedGrows DEF Find, Moves, ProcsListed,
     Appended, Launch, Procs, Control
<1>20. ASSUME NEW p \in Procs, Add(p) PROVE ProcsListed'
  <2>1. Moves(p, "hook", pc[p].cur, pc[p].then, pc[p].todo)
    BY <1>20, StepMoves DEF Control
  <2>2. QED
    BY <1>20, <2>1, GoroutinesAssumption, ListedGrows DEF Add, Moves, ProcsListed, Appended,
       Launch, Procs, Control
<1>21. ASSUME NEW p \in Procs, StartedHook(p) PROVE ProcsListed'
  <2>1. pc[p].at = "hook"
    BY <1>21 DEF StartedHook
  <2>2. \/ pc[p].then = "idle" /\ Moves(p, "idle", None, "idle", <<>>)
        \/ pc[p].then # "idle" /\ Moves(p, pc[p].then, pc[p].cur, pc[p].then, pc[p].todo)
    BY <1>21, StepMoves DEF Control
  <2>3. pc[p].then \in {"idle", "services", "each", "started"} /\ (p # Main => pc[p].then =
       "idle")
    BY <2>1 DEF Control, MainInv, PublishersInv, PublisherInv, Launch, Procs
  <2>4. QED
    BY <2>1, <2>2, <2>3, ListedGrows, GoroutinesAssumption DEF Moves, ProcsListed, Appended,
         Launch, Procs
<1>22. ASSUME NEW p \in Procs, WaitForService(p) PROVE ProcsListed'
  <2>1. pc[p].at = "waiting"
    BY <1>22 DEF WaitForService
  <2>2. Moves(p, "idle", None, "idle", <<>>)
    BY <1>22, StepMoves DEF Control
  <2>3. QED
    BY <2>1, <2>2, ListedGrows, GoroutinesAssumption DEF Moves, ProcsListed, Appended, Launch,
         Procs
<1>23. ASSUME NEW p \in Publishers, NEW svc \in Services, PublishServices(p, svc) PROVE
     ProcsListed'
  <2>1. pc[p].at = "idle"
    BY <1>23 DEF PublishServices
  <2>2. Moves(p, "append", svc, pc[p].then, pc[p].todo)
    BY <1>23, PublisherMoves DEF Control
  <2>3. QED
    BY <2>1, <2>2, ListedGrows, GoroutinesAssumption DEF Moves, ProcsListed, Appended, Launch,
         Procs
<1>24. ASSUME NEW p \in Publishers, NEW svc \in Services, WaitFor(p, svc) PROVE ProcsListed'
  <2>1. pc[p].at = "idle"
    BY <1>24 DEF WaitFor
  <2>2. Moves(p, "waiting", svc, pc[p].then, pc[p].todo)
    BY <1>24, PublisherMoves DEF Control
  <2>3. QED
    BY <2>1, <2>2, ListedGrows, GoroutinesAssumption DEF Moves, ProcsListed, Appended, Launch,
         Procs
<1>25. ASSUME NEW i \in DOMAIN loops, LoopEnds(i) PROVE ProcsListed'
  BY <1>25, GoroutinesAssumption, ListedGrows DEF LoopEnds, ProcsListed, Appended, Launch,
     Procs, Control
<1>26. CASE UNCHANGED vars
  BY <1>26, GoroutinesAssumption, ListedGrows DEF vars, ProcsListed, Appended, Launch, Procs,
     Control
<1>27. QED
  BY <1>1, <1>2, <1>3, <1>4, <1>5, <1>6, <1>7, <1>8, <1>9, <1>10, <1>11, <1>12, <1>13, <1>14,
     <1>15, <1>16, <1>17, <1>18, <1>19, <1>20, <1>21, <1>22, <1>23, <1>24, <1>25, <1>26 DEF
     Next, MainStep, Step, AddService, StartsService

\* What Main takes from the list, in Start and in Stop, is what was published.
LEMMA MainListedStep ==
  ASSUME Control, ProcsListed, MainListed, [Next]_vars
  PROVE  MainListed'
<1>1. CASE Start
  BY <1>1, MainMoves, GoroutinesAssumption, ListedGrows DEF Start, Moves, Launches, OwnLate,
     Launch, Procs, Control, MainListed
<1>2. CASE Stop
  BY <1>2, MainMoves, GoroutinesAssumption, ListedGrows DEF Stop, Moves, Launches, OwnLate,
     Launch, Procs, Control, MainListed
<1>3. CASE Connect
  BY <1>3, MainMoves, GoroutinesAssumption, ListedGrows DEF Connect, Moves, Launches, OwnLate,
     Launch, Procs, Control, MainListed
<1>4. CASE Connected
  BY <1>4, MainMoves, GoroutinesAssumption, ListedGrows DEF Connected, Moves, Launches,
     OwnLate, Launch, Procs, Control, MainListed
<1>5. CASE ConnectFails
  BY <1>5, MainMoves, GoroutinesAssumption, ListedGrows DEF ConnectFails, Moves, Launches,
     OwnLate, Launch, Procs, Control, MainListed
<1>6. CASE TakeServices
  <2>1. pc[Main].at = "services"
    BY <1>6 DEF TakeServices
  <2>2. Moves(Main, "each", pc[Main].cur, pc[Main].then, services)
    BY <1>6, MainMoves DEF Control
  <2>3. ToSet(services) \subseteq Listed
    BY DEF Listed
  <2>4. QED
    BY <2>1, <2>2, <2>3, ListedGrows DEF Moves, Launches, OwnLate, Launch, Procs, MainListed
<1>7. CASE StartEach
  <2>1. pc[Main].at = "each" /\ starts' = starts
    BY <1>7 DEF StartEach
  <2>2. CASE pc[Main].todo = <<>>
    <3>1. Moves(Main, "append", starts, pc[Main].then, pc[Main].todo)
      BY <1>7, <2>2, MainMoves DEF Control
    <3>2. QED
      BY <3>1 DEF Moves, Launches, OwnLate, Launch, MainListed
  <2>3. CASE pc[Main].todo # <<>>
    <3>1. Moves(Main, "depend", Head(pc[Main].todo), "each", Tail(pc[Main].todo))
      BY <1>7, <2>3, MainMoves DEF Control
    <3>2. ToSet(pc[Main].todo) = {Head(pc[Main].todo)} \union ToSet(Tail(pc[Main].todo))
      BY <2>3, ToSetTail DEF Control, Typed, Places, Place, Procs
    <3>3. QED
      BY <2>1, <3>1, <3>2, ListedGrows DEF Moves, Launches, OwnLate, Launch, MainListed
  <2>4. QED
    BY <2>2, <2>3
<1>8. CASE SetStarted
  BY <1>8, MainMoves, GoroutinesAssumption, ListedGrows DEF SetStarted, Moves, Launches,
     OwnLate, Launch, Procs, Control, MainListed
<1>9. CASE ResetStarting
  BY <1>9, MainMoves, GoroutinesAssumption, ListedGrows DEF ResetStarting, Moves, Launches,
     OwnLate, Launch, Procs, Control, MainListed
<1>10. CASE StopEach
  BY <1>10, MainMoves, GoroutinesAssumption, ListedGrows DEF StopEach, Moves, Launches,
     OwnLate, Launch, Procs, Control, MainListed
<1>11. CASE Disconnect
  BY <1>11, MainMoves, GoroutinesAssumption, ListedGrows DEF Disconnect, Moves, Launches,
     OwnLate, Launch, Procs, Control, MainListed
<1>12. CASE Stopped
  BY <1>12, MainMoves, GoroutinesAssumption, ListedGrows DEF Stopped, Moves, Launches, OwnLate,
     Launch, Procs, Control, MainListed
<1>13. ASSUME NEW p \in Procs, AppendLoad(p) PROVE MainListed'
  <2>1. Moves(p, "store", pc[p].cur, pc[p].then, services)
    BY <1>13, StepMoves DEF Control
  <2>2. QED
    BY <1>13, <2>1, GoroutinesAssumption, ListedGrows DEF AppendLoad, Moves, Launches, OwnLate,
       Launch, Procs, Control, MainListed
<1>14. ASSUME NEW p \in Procs, AppendStore(p) PROVE MainListed'
  <2>1. pc[p].at = "store"
    BY <1>14 DEF AppendStore
  <2>2. Moves(p, "check", pc[p].cur, pc[p].then, <<>>)
    BY <1>14, StepMoves DEF Control
  <2>3. starts' = starts /\ (p = Main => starts \in Listed')
    BY <1>14, <2>1, ListedGrows DEF AppendStore, Control, MainInv
  <2>4. QED
    BY <2>1, <2>2, <2>3, ListedGrows DEF Moves, Launches, OwnLate, Launch, Procs, MainListed
<1>15. ASSUME NEW p \in Procs, ReadStarted(p) PROVE MainListed'
  <2>1. pc[p].at = "check"
    BY <1>15 DEF ReadStarted
  <2>2. \/ started /\ Moves(p, "depend", pc[p].cur, After(p), pc[p].todo)
        \/ ~started /\ Moves(p, "check2", pc[p].cur, pc[p].then, pc[p].todo)
    BY <1>15, StepMoves DEF Control
  <2>3. starts' = starts /\ (p = Main => ~started /\ starting)
    BY <1>15, <2>1 DEF ReadStarted, Control, MainInv, InStart
  <2>4. QED
    BY <2>1, <2>2, <2>3, ListedGrows DEF Moves, Launches, OwnLate, Launch, Procs, MainListed,
         After
<1>16. ASSUME NEW p \in Procs, ReadStarting(p) PROVE MainListed'
  <2>1. pc[p].at = "check2"
    BY <1>16 DEF ReadStarting
  <2>2. \/ starting /\ Moves(p, "depend", pc[p].cur, After(p), pc[p].todo)
        \/ ~starting /\ Moves(p, "idle", None, "idle", <<>>)
    BY <1>16, StepMoves DEF Control
  <2>3. starts' = starts /\ (p = Main => ~started /\ starting)
    BY <1>16, <2>1 DEF ReadStarting, Control, MainInv, InStart
  <2>4. QED
    BY <2>1, <2>2, <2>3, ListedGrows DEF Moves, Launches, OwnLate, Launch, Procs, MainListed,
         After
<1>17. ASSUME NEW p \in Procs, WaitForDependencies(p) PROVE MainListed'
  BY <1>17, StepMoves, GoroutinesAssumption, ListedGrows DEF WaitForDependencies, Moves,
     Launches, OwnLate, Launch, Procs, Control, MainListed
<1>18. ASSUME NEW p \in Procs, DependenciesTimeout(p) PROVE MainListed'
  BY <1>18, StepMoves, GoroutinesAssumption, ListedGrows DEF DependenciesTimeout, Moves,
     Launches, OwnLate, Launch, Procs, Control, MainListed
<1>19. ASSUME NEW p \in Procs, Find(p) PROVE MainListed'
  BY <1>19, StepMoves, GoroutinesAssumption, ListedGrows DEF Find, Moves, Launches, OwnLate,
     Launch, Procs, Control, MainListed
<1>20. ASSUME NEW p \in Procs, Add(p) PROVE MainListed'
  BY <1>20, StepMoves, GoroutinesAssumption, ListedGrows DEF Add, Moves, Launches, OwnLate,
     Launch, Procs, Control, MainListed
<1>21. ASSUME NEW p \in Procs, StartedHook(p) PROVE MainListed'
  <2>1. pc[p].at = "hook"
    BY <1>21 DEF StartedHook
  <2>2. \/ pc[p].then = "idle" /\ Moves(p, "idle", None, "idle", <<>>)
        \/ pc[p].then # "idle" /\ Moves(p, pc[p].then, pc[p].cur, pc[p].then, pc[p].todo)
    BY <1>21, StepMoves DEF Control
  <2>3. starts' = starts
    BY <1>21 DEF StartedHook
  <2>4. p = Main => pc[p].then \in {"services", "each", "started"}
    BY <2>1 DEF Control, MainInv, Launch
  <2>5. QED
    BY <2>1, <2>2, <2>3, <2>4, ListedGrows DEF Moves, Launches, OwnLate, Launch, Procs,
         MainListed
<1>22. ASSUME NEW p \in Procs, WaitForService(p) PROVE MainListed'
  <2>1. Moves(p, "idle", None, "idle", <<>>)
    BY <1>22, StepMoves DEF Control
  <2>2. QED
    BY <1>22, <2>1, GoroutinesAssumption, ListedGrows DEF WaitForService, Moves, Launches,
       OwnLate, Launch, Procs, Control, MainListed
<1>23. ASSUME NEW p \in Publishers, NEW svc \in Services, PublishServices(p, svc) PROVE
     MainListed'
  <2>1. pc[p].at = "idle"
    BY <1>23 DEF PublishServices
  <2>2. Moves(p, "append", svc, pc[p].then, pc[p].todo)
    BY <1>23, PublisherMoves DEF Control
  <2>3. starts' = starts
    BY <1>23 DEF PublishServices
  <2>4. QED
    BY <2>1, <2>2, <2>3, ListedGrows, GoroutinesAssumption DEF Moves, Launches, OwnLate,
         Launch, Procs, MainListed
<1>24. ASSUME NEW p \in Publishers, NEW svc \in Services, WaitFor(p, svc) PROVE MainListed'
  <2>1. pc[p].at = "idle"
    BY <1>24 DEF WaitFor
  <2>2. Moves(p, "waiting", svc, pc[p].then, pc[p].todo)
    BY <1>24, PublisherMoves DEF Control
  <2>3. starts' = starts
    BY <1>24 DEF WaitFor
  <2>4. QED
    BY <2>1, <2>2, <2>3, ListedGrows, GoroutinesAssumption DEF Moves, Launches, OwnLate,
         Launch, Procs, MainListed
<1>25. ASSUME NEW i \in DOMAIN loops, LoopEnds(i) PROVE MainListed'
  BY <1>25, GoroutinesAssumption, ListedGrows DEF LoopEnds, Launches, OwnLate, Launch, Procs,
     Control, MainListed
<1>26. CASE UNCHANGED vars
  BY <1>26, GoroutinesAssumption, ListedGrows DEF vars, Launches, OwnLate, Launch, Procs,
     Control, MainListed
<1>27. QED
  BY <1>1, <1>2, <1>3, <1>4, <1>5, <1>6, <1>7, <1>8, <1>9, <1>10, <1>11, <1>12, <1>13, <1>14,
     <1>15, <1>16, <1>17, <1>18, <1>19, <1>20, <1>21, <1>22, <1>23, <1>24, <1>25, <1>26 DEF
     Next, MainStep, Step, AddService, StartsService

\* What runs is in the list, or on its way to it.
LEMMA RunningListedStep ==
  ASSUME Control, ProcsListed, MainListed, RunningListed, [Next]_vars
  PROVE  RunningListed'
<1>1. CASE Start
  BY <1>1, MainMoves, GoroutinesAssumption, ListedGrows DEF Start, Moves, Launches, OwnLate,
     Launch, Procs, Control, Unlisted, RunningListed
<1>2. CASE Stop
  BY <1>2, MainMoves, GoroutinesAssumption, ListedGrows DEF Stop, Moves, Launches, OwnLate,
     Launch, Procs, Control, Unlisted, RunningListed
<1>3. CASE Connect
  BY <1>3, MainMoves, GoroutinesAssumption, ListedGrows DEF Connect, Moves, Launches, OwnLate,
     Launch, Procs, Control, Unlisted, RunningListed
<1>4. CASE Connected
  BY <1>4, MainMoves, GoroutinesAssumption, ListedGrows DEF Connected, Moves, Launches,
     OwnLate, Launch, Procs, Control, Unlisted, RunningListed
<1>5. CASE ConnectFails
  BY <1>5, MainMoves, GoroutinesAssumption, ListedGrows DEF ConnectFails, Moves, Launches,
     OwnLate, Launch, Procs, Control, Unlisted, RunningListed
<1>6. CASE TakeServices
  BY <1>6, MainMoves, GoroutinesAssumption, ListedGrows DEF TakeServices, Moves, Launches,
     OwnLate, Launch, Procs, Control, Unlisted, RunningListed
<1>7. CASE StartEach
  BY <1>7, MainMoves, GoroutinesAssumption, ListedGrows DEF StartEach, Moves, Launches,
     OwnLate, Launch, Procs, Control, Unlisted, RunningListed
<1>8. CASE SetStarted
  BY <1>8, MainMoves, GoroutinesAssumption, ListedGrows DEF SetStarted, Moves, Launches,
     OwnLate, Launch, Procs, Control, Unlisted, RunningListed
<1>9. CASE ResetStarting
  BY <1>9, MainMoves, GoroutinesAssumption, ListedGrows DEF ResetStarting, Moves, Launches,
     OwnLate, Launch, Procs, Control, Unlisted, RunningListed
<1>10. CASE StopEach
  BY <1>10, MainMoves, GoroutinesAssumption, ListedGrows DEF StopEach, Moves, Launches,
     OwnLate, Launch, Procs, Control, Unlisted, RunningListed
<1>11. CASE Disconnect
  BY <1>11, MainMoves, GoroutinesAssumption, ListedGrows DEF Disconnect, Moves, Launches,
     OwnLate, Launch, Procs, Control, Unlisted, RunningListed
<1>12. CASE Stopped
  BY <1>12, MainMoves, GoroutinesAssumption, ListedGrows DEF Stopped, Moves, Launches, OwnLate,
     Launch, Procs, Control, Unlisted, RunningListed
<1>13. ASSUME NEW p \in Procs, AppendLoad(p) PROVE RunningListed'
  <2>1. Moves(p, "store", pc[p].cur, pc[p].then, services)
    BY <1>13, StepMoves DEF Control
  <2>2. QED
    BY <1>13, <2>1, GoroutinesAssumption, ListedGrows DEF AppendLoad, Moves, Launches, OwnLate,
       Launch, Procs, Control, Unlisted, RunningListed
<1>14. ASSUME NEW p \in Procs, AppendStore(p) PROVE RunningListed'
  <2>1. pc[p].at = "store"
    BY <1>14 DEF AppendStore
  <2>2. Moves(p, "check", pc[p].cur, pc[p].then, <<>>)
    BY <1>14, StepMoves DEF Control
  <2>3. /\ starts' = starts /\ running' = running /\ Listed \subseteq Listed'
        /\ p = Main => starts \in Listed'
    BY <1>14, <2>1, ListedGrows DEF AppendStore, Control, MainInv
  <2>4. QED
    BY <2>1, <2>2, <2>3 DEF Moves, Launches, Launch, Procs, Unlisted, RunningListed
<1>15. ASSUME NEW p \in Procs, ReadStarted(p) PROVE RunningListed'
  BY <1>15, StepMoves, GoroutinesAssumption, ListedGrows DEF ReadStarted, Moves, Launches,
     OwnLate, Launch, Procs, Control, Unlisted, RunningListed
<1>16. ASSUME NEW p \in Procs, ReadStarting(p) PROVE RunningListed'
  BY <1>16, StepMoves, GoroutinesAssumption, ListedGrows DEF ReadStarting, Moves, Launches,
     OwnLate, Launch, Procs, Control, Unlisted, RunningListed
<1>17. ASSUME NEW p \in Procs, WaitForDependencies(p) PROVE RunningListed'
  BY <1>17, StepMoves, GoroutinesAssumption, ListedGrows DEF WaitForDependencies, Moves,
     Launches, OwnLate, Launch, Procs, Control, Unlisted, RunningListed
<1>18. ASSUME NEW p \in Procs, DependenciesTimeout(p) PROVE RunningListed'
  BY <1>18, StepMoves, GoroutinesAssumption, ListedGrows DEF DependenciesTimeout, Moves,
     Launches, OwnLate, Launch, Procs, Control, Unlisted, RunningListed
<1>19. ASSUME NEW p \in Procs, Find(p) PROVE RunningListed'
  BY <1>19, StepMoves, GoroutinesAssumption, ListedGrows DEF Find, Moves, Launches, OwnLate,
     Launch, Procs, Control, Unlisted, RunningListed
<1>20. ASSUME NEW p \in Procs, Add(p) PROVE RunningListed'
  <2>1. Moves(p, "hook", pc[p].cur, pc[p].then, pc[p].todo)
    BY <1>20, StepMoves DEF Control
  <2>2. QED
    BY <1>20, <2>1, GoroutinesAssumption, ListedGrows DEF Add, Moves, Launches, OwnLate, Launch,
       Procs, Control, Unlisted, RunningListed
<1>21. ASSUME NEW p \in Procs, StartedHook(p) PROVE RunningListed'
  <2>1. pc[p].at = "hook" /\ starts' = starts /\ running' = running \union {pc[p].cur}
    BY <1>21 DEF StartedHook
  <2>2. Listed \subseteq Listed'
    BY ListedGrows
  <2>3. CASE p = Main
    <3>1. /\ pc[Main].then \in {"services", "each", "started"}
          /\ pc[Main].then # "each" => pc[Main].cur = starts
      BY <2>1, <2>3 DEF Control, MainInv, Launch
    <3>2. Moves(Main, pc[Main].then, pc[Main].cur, pc[Main].then, pc[Main].todo)
      BY <1>21, <2>3, <3>1, StepMoves DEF Control
    <3>3. pc[Main].cur \in Listed \union Unlisted'
      BY <2>1, <2>3, <3>1, <3>2 DEF Moves, MainListed, OwnLate, Unlisted, Launches, Launch
    <3>4. Unlisted \subseteq Unlisted'
      BY <2>1, <2>3, <3>1, <3>2 DEF Moves, Unlisted, Launches, Launch
    <3>5. QED
      BY <2>1, <2>2, <2>3, <3>3, <3>4 DEF RunningListed
  <2>4. CASE p # Main
    <3>1. pc'[Main] = pc[Main]
      BY <1>21, <2>4, OthersStay DEF Control, Procs, Step, StartsService
    <3>2. pc[p].cur \in Listed
      BY <2>1, <2>4 DEF ProcsListed, Appended, Launch, Procs
    <3>3. Unlisted' = Unlisted
      BY <2>1, <3>1 DEF Unlisted, Launches
    <3>4. QED
      BY <2>1, <2>2, <3>2, <3>3 DEF RunningListed
  <2>5. QED
    BY <2>3, <2>4
<1>22. ASSUME NEW p \in Procs, WaitForService(p) PROVE RunningListed'
  BY <1>22, StepMoves, GoroutinesAssumption, ListedGrows DEF WaitForService, Moves, Launches,
     OwnLate, Launch, Procs, Control, Unlisted, RunningListed
<1>23. ASSUME NEW p \in Publishers, NEW svc \in Services, PublishServices(p, svc) PROVE
     RunningListed'
  <2>1. pc'[Main] = pc[Main] /\ starts' = starts /\ running' = running
    BY <1>23, OthersStay, GoroutinesAssumption DEF PublishServices, Control, Procs
  <2>2. QED
    BY <2>1, ListedGrows DEF RunningListed, Unlisted, Launches
<1>24. ASSUME NEW p \in Publishers, NEW svc \in Services, WaitFor(p, svc) PROVE RunningListed'
  <2>1. pc'[Main] = pc[Main] /\ starts' = starts /\ running' = running
    BY <1>24, OthersStay, GoroutinesAssumption DEF WaitFor, Control, Procs
  <2>2. QED
    BY <2>1, ListedGrows DEF RunningListed, Unlisted, Launches
<1>25. ASSUME NEW i \in DOMAIN loops, LoopEnds(i) PROVE RunningListed'
  BY <1>25, GoroutinesAssumption, ListedGrows DEF LoopEnds, Launches, OwnLate, Launch, Procs,
     Control, Unlisted, RunningListed
<1>26. CASE UNCHANGED vars
  BY <1>26, GoroutinesAssumption, ListedGrows DEF vars, Launches, OwnLate, Launch, Procs,
     Control, Unlisted, RunningListed
<1>27. QED
  BY <1>1, <1>2, <1>3, <1>4, <1>5, <1>6, <1>7, <1>8, <1>9, <1>10, <1>11, <1>12, <1>13, <1>14,
     <1>15, <1>16, <1>17, <1>18, <1>19, <1>20, <1>21, <1>22, <1>23, <1>24, <1>25, <1>26 DEF
     Next, MainStep, Step, AddService, StartsService

\* Steps of others that run nothing.
LEMMA StopStays ==
  ASSUME StopInv, pc'[Main] = pc[Main], running' = running, overlap \subseteq overlap',
         raced \subseteq raced', started' = started, starting' = starting
  PROVE  StopInv'
BY DEF StopInv

\* Whoever runs while Main stops the broker is still to be stopped.
LEMMA StopInvStep ==
  ASSUME Control, ListInv, StopInv, [Next]_vars
  PROVE  StopInv'
<1>1. CASE Start
  BY <1>1, MainMoves, GoroutinesAssumption DEF Start, Moves, Control, StopInv, Procs
<1>2. CASE Stop
  <2>1. \/ ~started /\ pc' = pc
        \/ started /\ Moves(Main, "stopEach", pc[Main].cur, pc[Main].then, services)
    BY <1>2, MainMoves DEF Control
  <2>2. /\ pc[Main].at = "idle" /\ overlap \subseteq overlap'
        /\ UNCHANGED <<started, starting, running, raced>>
    BY <1>2 DEF Stop
  <2>3. running \subseteq raced \union ToSet(services)
    BY <2>2 DEF ListInv, RunningListed, Listed, Unlisted, Launches, Launch
  <2>4. QED
    BY <2>1, <2>2, <2>3 DEF Moves, StopInv
<1>3. CASE Connect
  BY <1>3, MainMoves, GoroutinesAssumption DEF Connect, Moves, Control, StopInv, Procs
<1>4. CASE Connected
  BY <1>4, MainMoves, GoroutinesAssumption DEF Connected, Moves, Control, StopInv, Procs
<1>5. CASE ConnectFails
  BY <1>5, MainMoves, GoroutinesAssumption DEF ConnectFails, Moves, Control, StopInv, Procs,
     MainInv
<1>6. CASE TakeServices
  BY <1>6, MainMoves, GoroutinesAssumption DEF TakeServices, Moves, Control, StopInv, Procs
<1>7. CASE StartEach
  BY <1>7, MainMoves, GoroutinesAssumption DEF StartEach, Moves, Control, StopInv, Procs
<1>8. CASE SetStarted
  BY <1>8, MainMoves, GoroutinesAssumption DEF SetStarted, Moves, Control, StopInv, Procs
<1>9. CASE ResetStarting
  <2>1. Moves(Main, "idle", None, "idle", <<>>)
    BY <1>9, MainMoves DEF Control
  <2>2. started'
    BY <1>9 DEF ResetStarting, Control, MainInv
  <2>3. QED
    BY <2>1, <2>2 DEF Moves, StopInv
<1>10. CASE StopEach
  <2>1. pc[Main].at = "stopEach" /\ UNCHANGED <<overlap, raced>>
    BY <1>10 DEF StopEach
  <2>2. CASE pc[Main].todo = <<>>
    <3>1. Moves(Main, "disconnect", pc[Main].cur, pc[Main].then, pc[Main].todo) /\ running' =
         running
      BY <1>10, <2>2, MainMoves DEF Control, StopEach
    <3>2. QED
      BY <2>1, <2>2, <3>1, ToSetEmpty DEF Moves, StopInv
  <2>3. CASE pc[Main].todo # <<>>
    <3>1. Moves(Main, "stopEach", pc[Main].cur, pc[Main].then, Tail(pc[Main].todo))
      BY <1>10, <2>3, MainMoves DEF Control
    <3>2. running' = running \ {Head(pc[Main].todo)}
      BY <1>10, <2>3 DEF StopEach
    <3>3. ToSet(pc[Main].todo) = {Head(pc[Main].todo)} \union ToSet(Tail(pc[Main].todo))
      BY <2>3, ToSetTail DEF Control, Typed, Places, Place, Procs
    <3>4. QED
      BY <2>1, <3>1, <3>2, <3>3 DEF Moves, StopInv
  <2>4. QED
    BY <2>2, <2>3
<1>11. CASE Disconnect
  BY <1>11, MainMoves, GoroutinesAssumption DEF Disconnect, Moves, Control, StopInv, Procs
<1>12. CASE Stopped
  BY <1>12, MainMoves, GoroutinesAssumption DEF Stopped, Moves, Control, StopInv, Procs
<1>13. ASSUME NEW p \in Procs, AppendLoad(p) PROVE StopInv'
  BY <1>13, StepMoves, GoroutinesAssumption DEF AppendLoad, Moves, Control, StopInv, Procs
<1>14. ASSUME NEW p \in Procs, AppendStore(p) PROVE StopInv'
  BY <1>14, StepMoves, GoroutinesAssumption DEF AppendStore, Moves, Control, StopInv, Procs
<1>15. ASSUME NEW p \in Procs, ReadStarted(p) PROVE StopInv'
  BY <1>15, StepMoves, GoroutinesAssumption DEF ReadStarted, Moves, Control, StopInv, Procs
<1>16. ASSUME NEW p \in Procs, ReadStarting(p) PROVE StopInv'
  <2>1. UNCHANGED <<started, starting, running, overlap>> /\ raced \subseteq raced'
    BY <1>16 DEF ReadStarting
  <2>2. CASE p = Main
    <3>1. Moves(Main, "depend", pc[Main].cur, After(Main), pc[Main].todo)
      BY <1>16, <2>2, StepMoves DEF ReadStarting, Control, MainInv, InStart
    <3>2. QED
      BY <3>1 DEF Moves, StopInv
  <2>3. CASE p # Main
    <3>1. pc'[Main] = pc[Main]
      BY <1>16, <2>3, OthersStay DEF Control, Procs, Step, AddService
    <3>2. QED
      BY <2>1, <3>1, StopStays
  <2>4. QED
    BY <2>2, <2>3
<1>17. ASSUME NEW p \in Procs, WaitForDependencies(p) PROVE StopInv'
  BY <1>17, StepMoves, GoroutinesAssumption DEF WaitForDependencies, Moves, Control, StopInv,
     Procs
<1>18. ASSUME NEW p \in Procs, DependenciesTimeout(p) PROVE StopInv'
  BY <1>18, StepMoves, GoroutinesAssumption DEF DependenciesTimeout, Moves, Control, StopInv,
     Procs
<1>19. ASSUME NEW p \in Procs, Find(p) PROVE StopInv'
  BY <1>19, StepMoves, GoroutinesAssumption DEF Find, Moves, Control, StopInv, Procs
<1>20. ASSUME NEW p \in Procs, Add(p) PROVE StopInv'
  BY <1>20, StepMoves, GoroutinesAssumption DEF Add, Moves, Control, StopInv, Procs
<1>21. ASSUME NEW p \in Procs, StartedHook(p) PROVE StopInv'
  <2>1. /\ pc[p].at = "hook" /\ UNCHANGED <<started, starting, overlap, raced>>
        /\ running' = running \union {pc[p].cur}
    BY <1>21 DEF StartedHook
  <2>2. CASE p = Main
    <3>1. pc[Main].then \in {"services", "each", "started"}
      BY <2>1, <2>2 DEF Control, MainInv, Launch
    <3>2. Moves(Main, pc[Main].then, pc[Main].cur, pc[Main].then, pc[Main].todo)
      BY <1>21, <2>2, <3>1, StepMoves DEF Control
    <3>3. QED
      BY <3>1, <3>2 DEF Moves, StopInv
  <2>3. CASE p \in Publishers
    <3>1. pc'[Main] = pc[Main]
      BY <1>21, <2>3, OthersStay, GoroutinesAssumption DEF Control, Procs, Step, StartsService
    <3>2. /\ pc[Main].at # "idle" => pc[p].cur \in overlap
          /\ ~started /\ ~starting => pc[p].cur \in overlap
      BY <2>1, <2>3 DEF Control, PublishersInv, PublisherInv, MainIsBusy, Launch
    <3>3. QED
      BY <2>1, <3>1, <3>2 DEF StopInv
  <2>4. QED
    BY <2>2, <2>3 DEF Procs
<1>22. ASSUME NEW p \in Procs, WaitForService(p) PROVE StopInv'
  <2>1. p # Main
    BY <1>22 DEF WaitForService, Control, MainInv, MainPlaces, InStart, Launch
  <2>2. pc'[Main] = pc[Main] /\ UNCHANGED <<started, starting, running, overlap, raced>>
    BY <1>22, <2>1, OthersStay DEF WaitForService, Control, Procs, Step
  <2>3. QED
    BY <2>2, StopStays
<1>23. ASSUME NEW p \in Publishers, NEW svc \in Services, PublishServices(p, svc) PROVE StopInv'
  <2>1. /\ UNCHANGED <<started, starting, running, raced>> /\ overlap \subseteq overlap'
        /\ pc'[Main] = pc[Main]
    BY <1>23, OthersStay, GoroutinesAssumption DEF PublishServices, Control, Procs
  <2>2. QED
    BY <2>1, StopStays
<1>24. ASSUME NEW p \in Publishers, NEW svc \in Services, WaitFor(p, svc) PROVE StopInv'
  <2>1. /\ UNCHANGED <<started, starting, running, raced>> /\ overlap \subseteq overlap'
        /\ pc'[Main] = pc[Main]
    BY <1>24, OthersStay, GoroutinesAssumption DEF WaitFor, Control, Procs
  <2>2. QED
    BY <2>1, StopStays
<1>25. ASSUME NEW i \in DOMAIN loops, LoopEnds(i) PROVE StopInv'
  BY <1>25, GoroutinesAssumption DEF LoopEnds, Control, StopInv, Procs
<1>26. CASE UNCHANGED vars
  BY <1>26, GoroutinesAssumption DEF vars, Control, StopInv, Procs
<1>27. QED
  BY <1>1, <1>2, <1>3, <1>4, <1>5, <1>6, <1>7, <1>8, <1>9, <1>10, <1>11, <1>12, <1>13, <1>14,
     <1>15, <1>16, <1>17, <1>18, <1>19, <1>20, <1>21, <1>22, <1>23, <1>24, <1>25, <1>26 DEF
     Next, MainStep, Step, AddService, StartsService

\* Steps of others, which may store the list, and which run what was late.
LEMMA StartStays ==
  ASSUME StartInv, pc'[Main] = pc[Main], starts' = starts, started' = started,
         ToSet(services') \subseteq ToSet(services) \union raced' \union Late',
         running \subseteq running', raced \subseteq raced',
         Late \subseteq Late' \union running' \union raced'
  PROVE  StartInv'
BY DEF StartInv, Launches, OwnLate

\* Who moves concerns the late services with its own.
LEMMA LateStays ==
  ASSUME NEW p \in Procs, \A q \in Publishers : q # p => pc'[q] = pc[q]
  PROVE  /\ \/ Late \subseteq Late'
            \/ p \in Publishers /\ Appended(p) /\ Late \subseteq Late' \union {pc[p].cur}
         /\ p \in Publishers /\ Appended(p)' => pc'[p].cur \in Late'
BY DEF Late, Appended

\* Whoever does not run while Main starts the broker is still to be started, by
\* Main or by the publisher that is late.
LEMMA StartInvStep ==
  ASSUME Control, ListInv, StartInv, [Next]_vars
  PROVE  StartInv'
<1>1. CASE Start
  <2>1. \/ started /\ pc' = pc /\ starts' = starts + 1
        \/ ~started /\ Moves(Main, "connect", pc[Main].cur, pc[Main].then, pc[Main].todo)
    BY <1>1, MainMoves DEF Control, Start
  <2>2. /\ pc[Main].at = "idle" /\ UNCHANGED <<started, services, running, raced>>
    BY <1>1 DEF Start
  <2>3. Late \subseteq Late'
    BY <1>1, OthersStay DEF Control, Late, Appended
  <2>4. QED
    BY <2>1, <2>2, <2>3 DEF Moves, StartInv, Launches, OwnLate, Launch
<1>2. CASE Stop
  BY <1>2, MainMoves, GoroutinesAssumption DEF Stop, Moves, Control, StartInv, Late, Appended,
     Launches, OwnLate, Launch, Procs
<1>3. CASE Connect
  BY <1>3, MainMoves, GoroutinesAssumption DEF Connect, Moves, Control, StartInv, Late,
     Appended, Launches, OwnLate, Launch, Procs
<1>4. CASE Connected
  BY <1>4, MainMoves, GoroutinesAssumption DEF Connected, Moves, Control, StartInv, Late,
     Appended, Launches, OwnLate, Launch, Procs
<1>5. CASE ConnectFails
  BY <1>5, MainMoves, GoroutinesAssumption DEF ConnectFails, Moves, Control, StartInv, Late,
     Appended, Launches, OwnLate, Launch, Procs, MainInv
<1>6. CASE TakeServices
  BY <1>6, MainMoves, GoroutinesAssumption DEF TakeServices, Moves, Control, StartInv, Late,
     Appended, Launches, OwnLate, Launch, Procs
<1>7. CASE StartEach
  <2>1. pc[Main].at = "each" /\ UNCHANGED <<services, running, raced, starts>>
    BY <1>7 DEF StartEach
  <2>2. Late' = Late
    BY <1>7, OthersStay DEF Control, Late, Appended, MainStep
  <2>3. CASE pc[Main].todo = <<>>
    <3>1. Moves(Main, "append", starts, pc[Main].then, pc[Main].todo)
      BY <1>7, <2>3, MainMoves DEF Control
    <3>2. QED
      BY <2>1, <2>2, <2>3, <3>1, ToSetEmpty DEF Moves, StartInv, Launches, OwnLate, Launch
  <2>4. CASE pc[Main].todo # <<>>
    <3>1. Moves(Main, "depend", Head(pc[Main].todo), "each", Tail(pc[Main].todo))
      BY <1>7, <2>4, MainMoves DEF Control
    <3>2. ToSet(pc[Main].todo) = {Head(pc[Main].todo)} \union ToSet(Tail(pc[Main].todo))
      BY <2>4, ToSetTail DEF Control, Typed, Places, Place, Procs
    <3>3. QED
      BY <2>1, <2>2, <3>1, <3>2 DEF Moves, StartInv, Launches, OwnLate, Launch
  <2>5. QED
    BY <2>3, <2>4
<1>8. CASE SetStarted
  BY <1>8, MainMoves, GoroutinesAssumption DEF SetStarted, Moves, Control, StartInv, Late,
     Appended, Launches, OwnLate, Launch, Procs
<1>9. CASE ResetStarting
  BY <1>9, MainMoves, GoroutinesAssumption DEF ResetStarting, Moves, Control, StartInv, Late,
     Appended, Launches, OwnLate, Launch, Procs
<1>10. CASE StopEach
  BY <1>10, MainMoves, GoroutinesAssumption DEF StopEach, Moves, Control, StartInv, Late,
     Appended, Launches, OwnLate, Launch, Procs
<1>11. CASE Disconnect
  BY <1>11, MainMoves, GoroutinesAssumption DEF Disconnect, Moves, Control, StartInv, Late,
     Appended, Launches, OwnLate, Launch, Procs
<1>12. CASE Stopped
  BY <1>12, MainMoves, GoroutinesAssumption DEF Stopped, Moves, Control, StartInv, Late,
     Appended, Launches, OwnLate, Launch, Procs
<1>13. ASSUME NEW p \in Procs, AppendLoad(p) PROVE StartInv'
  <2>1. \A q \in Procs \ {p} : pc'[q] = pc[q]
    BY <1>13, OthersStay DEF Control, Step, AddService, StartsService
  <2>2. CASE p = Main
    <3>1. Late' = Late
      BY <2>1, <2>2, GoroutinesAssumption DEF Late, Appended, Procs
    <3>2. UNCHANGED <<services, running, raced, starts>>
      BY <1>13 DEF AppendLoad
    <3>3. pc[Main].at = "append" /\ Moves(Main, "store", pc[Main].cur, pc[Main].then, services)
      BY <1>13, <2>2, StepMoves DEF Control, AppendLoad
    <3>4. QED
      BY <3>1, <3>2, <3>3 DEF Moves, StartInv, Launches, OwnLate, Launch
  <2>3. CASE p \in Publishers
    <3>1. pc'[Main] = pc[Main]
      BY <2>1, <2>3, GoroutinesAssumption DEF Procs
    <3>2. /\ \/ Late \subseteq Late'
             \/ Appended(p) /\ Late \subseteq Late' \union {pc[p].cur}
          /\ Appended(p)' => pc'[p].cur \in Late'
      BY <2>1, <2>3, LateStays DEF Procs
    <3>3. UNCHANGED <<services, running, raced, starts, started>> /\ ~Appended(p)
      BY <1>13 DEF AppendLoad, Appended, Launch
    <3>4. QED
      BY <3>1, <3>2, <3>3, StartStays
  <2>4. QED
    BY <2>2, <2>3 DEF Procs
<1>14. ASSUME NEW p \in Procs, AppendStore(p) PROVE StartInv'
  <2>1. \A q \in Procs \ {p} : pc'[q] = pc[q]
    BY <1>14, OthersStay DEF Control, Step, AddService, StartsService
  <2>2. CASE p = Main
    <3>1. Late' = Late
      BY <2>1, <2>2, GoroutinesAssumption DEF Late, Appended, Procs
    <3>2. ToSet(services') \subseteq ToSet(services) \union raced \union {pc[p].cur}
      <4>1. pc[p].todo \in Seq(Values) /\ pc[p].cur \in Values
        BY <1>14, CurIsNamed DEF AppendStore, Control, Typed, Places, Place
      <4>2. ToSet(pc[p].todo) \subseteq Listed
        BY <1>14 DEF AppendStore, ListInv, ProcsListed
      <4>3. services' = Append(pc[p].todo, pc[p].cur)
        BY <1>14 DEF AppendStore
      <4>4. QED
        BY <4>1, <4>2, <4>3, ToSetAppend DEF Listed
    <3>3. pc[p].at = "store" /\ Moves(p, "check", pc[p].cur, pc[p].then, <<>>)
      BY <1>14, StepMoves DEF Control, AppendStore
    <3>4. UNCHANGED <<running, starts, started>> /\ raced \subseteq raced'
      BY <1>14 DEF AppendStore
    <3>5. pc[Main].cur = starts
      BY <2>2, <3>3 DEF Control, MainInv
    <3>6. QED
      BY <2>2, <3>1, <3>2, <3>3, <3>4, <3>5 DEF Moves, StartInv, Launches, OwnLate, Launch
  <2>3. CASE p \in Publishers
    <3>1. pc'[Main] = pc[Main]
      BY <2>1, <2>3, GoroutinesAssumption DEF Procs
    <3>2. /\ \/ Late \subseteq Late'
             \/ Appended(p) /\ Late \subseteq Late' \union {pc[p].cur}
          /\ Appended(p)' => pc'[p].cur \in Late'
      BY <2>1, <2>3, LateStays DEF Procs
    <3>3. ToSet(services') \subseteq ToSet(services) \union raced \union {pc[p].cur}
      <4>1. pc[p].todo \in Seq(Values) /\ pc[p].cur \in Values
        BY <1>14, CurIsNamed DEF AppendStore, Control, Typed, Places, Place
      <4>2. ToSet(pc[p].todo) \subseteq Listed
        BY <1>14 DEF AppendStore, ListInv, ProcsListed
      <4>3. services' = Append(pc[p].todo, pc[p].cur)
        BY <1>14 DEF AppendStore
      <4>4. QED
        BY <4>1, <4>2, <4>3, ToSetAppend DEF Listed
    <3>4. pc[p].at = "store" /\ Moves(p, "check", pc[p].cur, pc[p].then, <<>>)
      BY <1>14, StepMoves DEF Control, AppendStore
    <3>5. UNCHANGED <<running, starts, started>> /\ raced \subseteq raced'
      BY <1>14 DEF AppendStore
    <3>6. ~Appended(p) /\ Appended(p)' /\ pc'[p].cur = pc[p].cur
      BY <3>4 DEF Moves, Appended, Launch
    <3>7. QED
      BY <3>1, <3>2, <3>3, <3>5, <3>6, StartStays
  <2>4. QED
    BY <2>2, <2>3 DEF Procs
<1>15. ASSUME NEW p \in Procs, ReadStarted(p) PROVE StartInv'
  <2>1. \A q \in Procs \ {p} : pc'[q] = pc[q]
    BY <1>15, OthersStay DEF Control, Step, AddService, StartsService
  <2>2. CASE p = Main
    <3>1. Late' = Late
      BY <2>1, <2>2, GoroutinesAssumption DEF Late, Appended, Procs
    <3>2. UNCHANGED <<services, running, starts, started>> /\ raced \subseteq raced'
      BY <1>15 DEF ReadStarted
    <3>3. /\ pc[Main].at = "check" /\ pc[Main].cur = starts
          /\ Moves(Main, "check2", pc[Main].cur, pc[Main].then, pc[Main].todo)
      BY <1>15, <2>2, StepMoves DEF Control, ReadStarted, MainInv, InStart
    <3>4. QED
      BY <3>1, <3>2, <3>3 DEF Moves, StartInv, Launches, OwnLate, Launch
  <2>3. CASE p \in Publishers
    <3>1. pc'[Main] = pc[Main]
      BY <2>1, <2>3, GoroutinesAssumption DEF Procs
    <3>2. /\ \/ Late \subseteq Late'
             \/ Appended(p) /\ Late \subseteq Late' \union {pc[p].cur}
          /\ Appended(p)' => pc'[p].cur \in Late'
      BY <2>1, <2>3, LateStays DEF Procs
    <3>3. UNCHANGED <<services, running, starts, started>> /\ raced \subseteq raced'
      BY <1>15 DEF ReadStarted
    <3>4. pc[p].at = "check" /\ \/ Moves(p, "depend", pc[p].cur, After(p), pc[p].todo)
                                \/ Moves(p, "check2", pc[p].cur, pc[p].then, pc[p].todo)
      BY <1>15, StepMoves DEF Control, ReadStarted
    <3>5. Appended(p)' /\ pc'[p].cur = pc[p].cur
      BY <3>4 DEF Moves, Appended, Launch
    <3>6. QED
      BY <3>1, <3>2, <3>3, <3>5, StartStays
  <2>4. QED
    BY <2>2, <2>3 DEF Procs
<1>16. ASSUME NEW p \in Procs, ReadStarting(p) PROVE StartInv'
  <2>1. \A q \in Procs \ {p} : pc'[q] = pc[q]
    BY <1>16, OthersStay DEF Control, Step, AddService, StartsService
  <2>2. CASE p = Main
    <3>1. Late' = Late
      BY <2>1, <2>2, GoroutinesAssumption DEF Late, Appended, Procs
    <3>2. UNCHANGED <<services, running, starts, started>> /\ raced \subseteq raced'
      BY <1>16 DEF ReadStarting
    <3>3. /\ pc[Main].at = "check2" /\ pc[Main].cur = starts
          /\ Moves(Main, "depend", pc[Main].cur, "started", pc[Main].todo)
      BY <1>16, <2>2, StepMoves DEF Control, ReadStarting, MainInv, InStart, After
    <3>4. QED
      BY <3>1, <3>2, <3>3 DEF Moves, StartInv, Launches, OwnLate, Launch
  <2>3. CASE p \in Publishers
    <3>1. pc'[Main] = pc[Main]
      BY <2>1, <2>3, GoroutinesAssumption DEF Procs
    <3>2. /\ \/ Late \subseteq Late'
             \/ Appended(p) /\ Late \subseteq Late' \union {pc[p].cur}
          /\ Appended(p)' => pc'[p].cur \in Late'
      BY <2>1, <2>3, LateStays DEF Procs
    <3>3. UNCHANGED <<services, running, starts, started>> /\ raced \subseteq raced'
      BY <1>16 DEF ReadStarting
    <3>4. CASE starting \/ started
      <4>1. \/ Moves(p, "depend", pc[p].cur, After(p), pc[p].todo)
            \/ pc[p].cur \in raced'
        BY <1>16, <3>4, StepMoves DEF Control, ReadStarting
      <4>2. Late \subseteq Late' \union raced'
        BY <3>2, <4>1 DEF Moves, Appended, Launch
      <4>3. QED
        BY <3>1, <3>3, <4>2, StartStays
    <3>5. CASE ~starting /\ ~started
      <4>1. pc[Main].at = "idle" \/ pc[Main].at = "stopped"
        BY <3>5 DEF Control, MainInv, MainPlaces
      <4>2. QED
        BY <3>1, <3>3, <3>5, <4>1 DEF StartInv, Launches, OwnLate, Launch
    <3>6. QED
      BY <3>4, <3>5
  <2>4. QED
    BY <2>2, <2>3 DEF Procs
<1>17. ASSUME NEW p \in Procs, WaitForDependencies(p) PROVE StartInv'
  BY <1>17, StepMoves, GoroutinesAssumption DEF WaitForDependencies, Moves, Control, StartInv,
     Late, Appended, Launches, OwnLate, Launch, Procs
<1>18. ASSUME NEW p \in Procs, DependenciesTimeout(p) PROVE StartInv'
  BY <1>18, StepMoves, GoroutinesAssumption DEF DependenciesTimeout, Moves, Control, StartInv,
     Late, Appended, Launches, OwnLate, Launch, Procs
<1>19. ASSUME NEW p \in Procs, Find(p) PROVE StartInv'
  BY <1>19, StepMoves, GoroutinesAssumption DEF Find, Moves, Control, StartInv, Late, Appended,
     Launches, OwnLate, Launch, Procs
<1>20. ASSUME NEW p \in Procs, Add(p) PROVE StartInv'
  <2>1. \A q \in Procs \ {p} : pc'[q] = pc[q]
    BY <1>20, OthersStay DEF Control, Step, AddService, StartsService
  <2>2. CASE p = Main
    <3>1. Late' = Late
      BY <2>1, <2>2, GoroutinesAssumption DEF Late, Appended, Procs
    <3>2. UNCHANGED <<services, running, raced, starts>>
      BY <1>20 DEF Add
    <3>3. pc[Main].at = "add" /\ Moves(Main, "hook", pc[Main].cur, pc[Main].then, pc[Main].todo)
      BY <1>20, <2>2, StepMoves DEF Control, Add
    <3>4. QED
      BY <3>1, <3>2, <3>3 DEF Moves, StartInv, Launches, OwnLate, Launch
  <2>3. CASE p \in Publishers
    <3>1. pc'[Main] = pc[Main]
      BY <2>1, <2>3, GoroutinesAssumption DEF Procs
    <3>2. /\ \/ Late \subseteq Late'
             \/ Appended(p) /\ Late \subseteq Late' \union {pc[p].cur}
          /\ Appended(p)' => pc'[p].cur \in Late'
      BY <2>1, <2>3, LateStays DEF Procs
    <3>3. UNCHANGED <<services, running, raced, starts, started>>
      BY <1>20 DEF Add
    <3>4. Moves(p, "hook", pc[p].cur, pc[p].then, pc[p].todo)
      BY <1>20, StepMoves DEF Control
    <3>5. Appended(p)' /\ pc'[p].cur = pc[p].cur
      BY <3>4 DEF Moves, Appended, Launch
    <3>6. QED
      BY <3>1, <3>2, <3>3, <3>5, StartStays
  <2>4. QED
    BY <2>2, <2>3 DEF Procs
<1>21. ASSUME NEW p \in Procs, StartedHook(p) PROVE StartInv'
  <2>1. \A q \in Procs \ {p} : pc'[q] = pc[q]
    BY <1>21, OthersStay DEF Control, Step, AddService, StartsService
  <2>2. CASE p = Main
    <3>1. Late' = Late
      BY <2>1, <2>2, GoroutinesAssumption DEF Late, Appended, Procs
    <3>2. UNCHANGED <<services, raced, starts>> /\ running' = running \union {pc[Main].cur}
      BY <1>21, <2>2 DEF StartedHook
    <3>3. /\ pc[Main].at = "hook" /\ pc[Main].then \in {"services", "each", "started"}
          /\ pc[Main].then = "started" => pc[Main].cur = starts
      BY <1>21, <2>2 DEF StartedHook, Control, MainInv, Launch
    <3>4. Moves(Main, pc[Main].then, pc[Main].cur, pc[Main].then, pc[Main].todo)
      BY <1>21, <2>2, <3>3, StepMoves DEF Control
    <3>5. QED
      BY <3>1, <3>2, <3>3, <3>4 DEF Moves, StartInv, Launches, OwnLate, Launch
  <2>3. CASE p \in Publishers
    <3>1. pc'[Main] = pc[Main]
      BY <2>1, <2>3, GoroutinesAssumption DEF Procs
    <3>2. /\ \/ Late \subseteq Late'
             \/ Appended(p) /\ Late \subseteq Late' \union {pc[p].cur}
          /\ Appended(p)' => pc'[p].cur \in Late'
      BY <2>1, <2>3, LateStays DEF Procs
    <3>3. UNCHANGED <<services, raced, starts, started>> /\ running' = running \union
         {pc[p].cur}
      BY <1>21 DEF StartedHook
    <3>4. QED
      BY <3>1, <3>2, <3>3, StartStays
  <2>4. QED
    BY <2>2, <2>3 DEF Procs
<1>22. ASSUME NEW p \in Procs, WaitForService(p) PROVE StartInv'
  <2>1. p # Main
    BY <1>22 DEF WaitForService, Control, MainInv, MainPlaces, InStart, Launch
  <2>2. (\A q \in Procs \ {p} : pc'[q] = pc[q]) /\ UNCHANGED <<services, running, raced,
       starts, started>>
    BY <1>22, OthersStay DEF WaitForService, Control, Step
  <2>3. pc'[Main] = pc[Main] /\ ~Appended(p)
    BY <1>22, <2>1, <2>2 DEF WaitForService, Procs, Appended, Launch
  <2>4. Late \subseteq Late'
    BY <2>2, <2>3, LateStays DEF Procs
  <2>5. QED
    BY <2>2, <2>3, <2>4, StartStays
<1>23. ASSUME NEW p \in Publishers, NEW svc \in Services, PublishServices(p, svc) PROVE
     StartInv'
  <2>1. /\ UNCHANGED <<services, running, raced, starts, started>> /\ ~Appended(p)
        /\ \A q \in Procs \ {p} : pc'[q] = pc[q]
    BY <1>23, OthersStay DEF PublishServices, Control, Appended, Launch
  <2>2. pc'[Main] = pc[Main] /\ Late \subseteq Late'
    BY <2>1, GoroutinesAssumption, LateStays DEF Procs
  <2>3. QED
    BY <2>1, <2>2, StartStays
<1>24. ASSUME NEW p \in Publishers, NEW svc \in Services, WaitFor(p, svc) PROVE StartInv'
  <2>1. /\ UNCHANGED <<services, running, raced, starts, started>> /\ ~Appended(p)
        /\ \A q \in Procs \ {p} : pc'[q] = pc[q]
    BY <1>24, OthersStay DEF WaitFor, Control, Appended, Launch
  <2>2. pc'[Main] = pc[Main] /\ Late \subseteq Late'
    BY <2>1, GoroutinesAssumption, LateStays DEF Procs
  <2>3. QED
    BY <2>1, <2>2, StartStays
<1>25. ASSUME NEW i \in DOMAIN loops, LoopEnds(i) PROVE StartInv'
  BY <1>25, GoroutinesAssumption DEF LoopEnds, Control, StartInv, Late, Appended, Launches,
     OwnLate, Launch, Procs
<1>26. CASE UNCHANGED vars
  BY <1>26, GoroutinesAssumption DEF vars, Control, StartInv, Late, Appended, Launches,
     OwnLate, Launch, Procs
<1>27. QED
  BY <1>1, <1>2, <1>3, <1>4, <1>5, <1>6, <1>7, <1>8, <1>9, <1>10, <1>11, <1>12, <1>13, <1>14,
     <1>15, <1>16, <1>17, <1>18, <1>19, <1>20, <1>21, <1>22, <1>23, <1>24, <1>25, <1>26 DEF
     Next, MainStep, Step, AddService, StartsService

-----------------------------------------------------------------------------
(* The theorems *)

\* The invariant holds before the first Start.
LEMMA InitInv == Init => IInv
<1> SUFFICES ASSUME Init PROVE IInv
  OBVIOUS
<1>1. Control
  BY InitControl
<1>2. \A p \in Procs : pc[p] = Idle
  BY DEF Init
<1>3. pc[Main].at = "idle" /\ Main \in Procs
  BY <1>2 DEF Idle, Procs
<1>4. RegInv
  BY <1>2 DEF Init, RegInv, RegisteredOnce, Idle
<1>5. ProcsListed
  BY <1>2 DEF ProcsListed, Appended, Launch, Idle
<1>6. MainListed /\ RunningListed /\ StopInv
  BY <1>3 DEF Init, MainListed, RunningListed, StopInv, OwnLate, Launches, Launch
<1>7. StartInv
  BY <1>3 DEF Init, StartInv, OwnLate, Launches, Launch
<1>8. QED
  BY <1>1, <1>4, <1>5, <1>6, <1>7 DEF IInv, ListInv

\* Every step keeps the invariant.
LEMMA NextInv == IInv /\ [Next]_vars => IInv'
BY ControlStep, RegInvStep, ProcsListedStep, MainListedStep, RunningListedStep, StopInvStep,
   StartInvStep
   DEF IInv, ListInv

\* The inductive invariant, for any publishers and services, whatever they depend
\* on, and any number of starts, stops and failures (broker/main.go:176-367).
THEOREM Invariance == Spec => []IInv
<1>1. Init => IInv
  BY InitInv
<1>2. IInv /\ [Next]_vars => IInv'
  BY NextInv
<1>3. QED
  BY <1>1, <1>2, PTL DEF Spec

\* A started broker that is not being stopped has a heartbeat loop that goes on,
\* and stopping was reset (registry.go:389).
THEOREM Heartbeats == Spec => []HeartbeatsGoOn
<1>1. IInv => HeartbeatsGoOn
  BY DEF IInv, Control, MainInv, HeartbeatsGoOn
<1>2. QED
  BY <1>1, Invariance, PTL

\* A service that was not published during a Start or Stop is in the catalogs
\* once, and so is $node (registry.go:529).
THEOREM Registered == Spec => []RegisteredOnce
<1>1. IInv => RegisteredOnce
  BY DEF IInv, RegInv
<1>2. QED
  BY <1>1, Invariance, PTL

\* A stopped broker has run the Stopped hook of every service that was not
\* published during a Start or Stop (main.go:342-344, 365-367).
THEOREM NoneLeftRunning == Spec => []StoppedServices
<1>1. ASSUME IInv PROVE StoppedServices
  <2>1. Quiet => pc[Main].at = "idle"
    BY <1>1 DEF IInv, Control, MainInv, MainPlaces, InStart, Launch, Quiet, Procs
  <2>2. QED
    BY <1>1, <2>1 DEF IInv, StopInv, StoppedServices
<1>2. QED
  BY <1>1, Invariance, PTL

\* When a started broker is quiet, the Started hook of every published service
\* has run since its last Stopped, unless a race lost the service
\* (main.go:186-187, 324, 338).
THEOREM NoneLeftOut == Spec => []EveryServiceIsStarted
<1>1. ASSUME IInv PROVE EveryServiceIsStarted
  <2>1. ASSUME Quiet
        PROVE  pc[Main].at = "idle" /\ Late = {}
    BY <1>1, <2>1 DEF IInv, Control, MainInv, MainPlaces, InStart, Launch, Quiet, Procs, Late,
       Appended
  <2>2. QED
    BY <1>1, <2>1 DEF IInv, StartInv, EveryServiceIsStarted
<1>2. QED
  BY <1>1, Invariance, PTL
=============================================================================
