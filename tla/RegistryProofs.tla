--------------------------- MODULE RegistryProofs ---------------------------
(***************************************************************************)
(* Proofs about Registry, for any number of remote nodes, catalogs and     *)
(* messages in flight: the types, whatever overlaps, and that the catalogs *)
(* are as they are meant to be when handlers run one at a time.            *)
(***************************************************************************)
EXTENDS Registry, FiniteSetTheorems, TLAPS

Present(n) == n \in services /\ \A k \in Positions : n \in entries[k]
Absent(n) == n \notin services /\ \A k \in Positions : n \notin entries[k]
WorksFor(t, n) == t.at # "idle" /\ t.of = n

\* No two handlers run, and the node whose heartbeat is handled is available.
Exclusive ==
  /\ info.t.at # "idle" => \A w \in Workers : disc[w].at = "idle"
  /\ \A v, w \in Workers : disc[v].at # "idle" /\ disc[w].at # "idle" => v = w
  /\ beat # NoNode => \A w \in Workers : disc[w].at = "idle"
  /\ beat # NoNode => node[beat] = "available"

\* How far the handler of an INFO has come with the catalogs.
InfoInv ==
  LET t == info.t
  IN  /\ t.at # "idle" => node[t.of] = "available"
      /\ t.at = "services" => t.k = 1 /\ (Present(t.of) \/ Absent(t.of))
      /\ t.at \in {"load", "store"} =>
           t.of \in services /\ \A k \in Positions : t.of \in entries[k] <=> k < t.k
      /\ t.at = "store" => t.copy = entries[t.k]
      /\ t.at = "last" => Present(t.of)

\* How far a goroutine in disconnectNode has come with them.
DiscInv ==
  \A w \in Workers :
    LET t == disc[w]
    IN  /\ t.at = "services" => t.k = 1
        /\ t.at \in {"load", "store"} =>
             t.of \notin services /\ \A k \in Positions : k < t.k => t.of \notin entries[k]
        /\ t.at = "store" => t.copy = entries[t.k]
        /\ t.at = "last" => Absent(t.of)

\* A node that no handler works for is in all catalogs or in none.
NodeInv ==
  \A n \in Nodes :
    ~WorksFor(info.t, n) /\ (\A w \in Workers : ~WorksFor(disc[w], n)) =>
      IF node[n] = "available" THEN Present(n) ELSE Absent(n)

\* The types; a goroutine in a handler works for a node.
AtWork(t) == t.at # "idle" => t.of \in Nodes
TInv == TypeOK /\ IsFiniteSet(news) /\ AtWork(info.t) /\ \A w \in Workers : AtWork(disc[w])
IInv == TInv /\ Exclusive /\ InfoInv /\ DiscInv /\ NodeInv

-----------------------------------------------------------------------------
(* Threads *)

\* The positions of the catalogs.
LEMMA PositionsOK == 1 \in Positions /\ Len(Catalogs) \in Positions /\ Positions \subseteq Nat
BY CatalogsAssumption DEF Positions

\* A goroutine at the beginning, and one that is done.
LEMMA ThreadBegins ==
  ASSUME NEW n \in Nodes
  PROVE  /\ Begin(n) \in Thread /\ Begin(n).at = "services" /\ Begin(n).of = n /\ Begin(n).k = 1
         /\ Idle \in Thread /\ Idle.at = "idle" /\ Idle.k \in Positions
BY PositionsOK DEF Begin, Idle, Thread, Steps, NoNode

\* A goroutine that is done with a catalog goes on with the next, or is done with
\* all of them.
LEMMA ThreadAdvances ==
  ASSUME NEW t \in Thread, t.k \in Positions
  PROVE  /\ Advance(t) \in Thread /\ Advance(t).of = t.of /\ Advance(t).k \in Positions
         /\ \/ Advance(t).at = "load" /\ Advance(t).k = t.k + 1
            \/ Advance(t).at = "last" /\ \A k \in Positions : k <= t.k
<1>1. Len(Catalogs) \in Nat /\ t.k \in 1..Len(Catalogs)
  BY CatalogsAssumption DEF Positions
<1>2. CASE t.k < Len(Catalogs)
  <2>1. Advance(t) = [t EXCEPT !.at = "load", !.k = t.k + 1, !.copy = {}]
    BY <1>2 DEF Advance
  <2>2. Advance(t).at = "load" /\ Advance(t).of = t.of /\ Advance(t).k = t.k + 1
    BY <2>1 DEF Thread
  <2>3. Advance(t) \in Thread
    <3>1. t.k + 1 \in Nat
      BY <1>1
    <3>2. QED
      BY <2>1, <3>1 DEF Thread, Steps
  <2>4. QED
    BY <1>1, <1>2, <2>2, <2>3 DEF Positions
<1>3. CASE t.k = Len(Catalogs)
  <2>1. Advance(t) = [t EXCEPT !.at = "last", !.copy = {}]
    BY <1>1, <1>3 DEF Advance
  <2>2. Advance(t).at = "last" /\ Advance(t).of = t.of /\ Advance(t).k = t.k
    BY <2>1 DEF Thread
  <2>3. Advance(t) \in Thread
    BY <1>1, <2>1 DEF Thread, Steps
  <2>4. QED
    BY <1>1, <1>3, <2>2, <2>3 DEF Positions
<1>4. QED
  BY <1>1, <1>2, <1>3

-----------------------------------------------------------------------------
(* Types *)

\* Every step keeps the types.
LEMMA TypeStep == TInv /\ [Next]_vars => TypeOK'
<1> SUFFICES ASSUME TInv, [Next]_vars PROVE TypeOK'
  OBVIOUS
<1>1. TypeOK /\ AtWork(info.t) /\ \A w \in Workers : AtWork(disc[w])
  BY DEF TInv
<1> USE DEF remote, wire, catalogs, neighbourhood, threads
<1>2. ASSUME NEW n \in Nodes, Boot(n) PROVE TypeOK'
  BY <1>1, <1>2, BoundsAssumption DEF Boot, TypeOK
<1>3. ASSUME NEW n \in Nodes, Crash(n) PROVE TypeOK'
  BY <1>1, <1>3, BoundsAssumption DEF Crash, TypeOK
<1>4. ASSUME NEW n \in Nodes, StopRemote(n) PROVE TypeOK'
  BY <1>1, <1>4, BoundsAssumption DEF StopRemote, TypeOK
<1>5. ASSUME NEW n \in Nodes, SendHeartbeat(n) PROVE TypeOK'
  BY <1>1, <1>5, BoundsAssumption DEF SendHeartbeat, TypeOK
<1>6. ASSUME NEW n \in Nodes, DiscoverHandler(n) PROVE TypeOK'
  BY <1>1, <1>6, BoundsAssumption DEF DiscoverHandler, TypeOK
<1>7. ASSUME NEW n \in Nodes, HeartbeatTimeout(n) PROVE TypeOK'
  BY <1>1, <1>7, BoundsAssumption DEF HeartbeatTimeout, TypeOK
<1>8. ASSUME NEW n \in Nodes, InfoReceived(n) PROVE TypeOK'
  <2>1. info' \in [known : BOOLEAN, t : Thread] /\ info'.t.k \in Positions
    BY <1>1, <1>8, PositionsOK, ThreadBegins DEF InfoReceived
  <2>2. infos' \in [Nodes -> 0..MaxInfos]
    BY <1>1, <1>8, BoundsAssumption DEF InfoReceived, TypeOK
  <2>3. QED
    BY <1>1, <1>8, <2>1, <2>2 DEF InfoReceived, TypeOK
<1>9. ASSUME NEW n \in Nodes, HeartbeatReceived(n) PROVE TypeOK'
  BY <1>1, <1>9 DEF HeartbeatReceived, TypeOK
<1>10. ASSUME NEW n \in Nodes, DiscoverNode(n) PROVE TypeOK'
  BY <1>1, <1>10 DEF DiscoverNode, TypeOK
<1>11. ASSUME NEW n \in Nodes, DisconnectReceived(n) PROVE TypeOK'
  <2>1. disc' = disc \/ disc' = [disc EXCEPT !["message"] = Begin(n)]
    BY <1>1, <1>11 DEF DisconnectReceived
  <2>2. disc' \in [Workers -> Thread] /\ \A w \in Workers : disc'[w].k \in Positions
    BY <1>1, <2>1, PositionsOK, ThreadBegins DEF TypeOK, Workers
  <2>3. QED
    BY <1>1, <1>11, <2>2 DEF DisconnectReceived, TypeOK
<1>12. ASSUME NEW n \in Nodes, DisconnectExpired(n) PROVE TypeOK'
  <2>1. disc' = disc \/ disc' = [disc EXCEPT !["loop"] = Begin(n)]
    BY <1>1, <1>12 DEF DisconnectExpired
  <2>2. disc' \in [Workers -> Thread] /\ \A w \in Workers : disc'[w].k \in Positions
    BY <1>1, <2>1, PositionsOK, ThreadBegins DEF TypeOK, Workers
  <2>3. QED
    BY <1>1, <1>12, <2>2 DEF DisconnectExpired, TypeOK
<1>13. ASSUME UpdateRemote PROVE TypeOK'
  <2>1. info' \in [known : BOOLEAN, t : Thread] /\ info'.t.k \in Positions
    BY <1>1, <1>13 DEF UpdateRemote, TypeOK, Thread, Steps
  <2>2. info.t.at # "idle" => info.t.of \in Nodes
    BY <1>1 DEF AtWork
  <2>3. QED
    BY <1>1, <1>13, <2>1, <2>2 DEF UpdateRemote, TypeOK
<1>14. ASSUME AddLoad PROVE TypeOK'
  <2>1. info' \in [known : BOOLEAN, t : Thread] /\ info'.t.k \in Positions
    BY <1>1, <1>14 DEF AddLoad, TypeOK, Thread, Steps
  <2>2. info.t.at # "idle" => info.t.of \in Nodes
    BY <1>1 DEF AtWork
  <2>3. QED
    BY <1>1, <1>14, <2>1, <2>2 DEF AddLoad, TypeOK
<1>15. ASSUME AddStore PROVE TypeOK'
  <2>1. info.t \in Thread /\ info.t.k \in Positions
    BY <1>1 DEF TypeOK
  <2>2. info' \in [known : BOOLEAN, t : Thread] /\ info'.t.k \in Positions
    <3>1. info' = [info EXCEPT !.t = Advance(info.t)]
      BY <1>15 DEF AddStore
    <3>2. QED
      BY <1>1, <2>1, <3>1, ThreadAdvances DEF TypeOK
  <2>3. entries' \in [Positions -> SUBSET Nodes]
    BY <1>1, <1>15, <2>1 DEF AddStore, TypeOK, Thread, AtWork
  <2>4. QED
    BY <1>1, <1>15, <2>2, <2>3 DEF AddStore, TypeOK
<1>16. ASSUME InfoDone PROVE TypeOK'
  <2>1. info' \in [known : BOOLEAN, t : Thread] /\ info'.t.k \in Positions
    BY <1>1, <1>16, PositionsOK DEF InfoDone, Idle, Thread, Steps, NoNode
  <2>2. info.t.of \in Nodes
    BY <1>1, <1>16 DEF InfoDone, AtWork
  <2>3. QED
    BY <1>1, <1>16, <2>1, <2>2 DEF InfoDone, TypeOK, Event, Emitted
<1>17. ASSUME HeartBeat PROVE TypeOK'
  BY <1>1, <1>17 DEF HeartBeat, TypeOK, NoNode
<1>18. ASSUME CheckExpired PROVE TypeOK'
  BY <1>1, <1>18 DEF CheckExpired, TypeOK
<1>19. ASSUME NEW w \in Workers, RemoveServices(w) PROVE TypeOK'
  <2>1. disc' \in [Workers -> Thread] /\ \A v \in Workers : disc'[v].k \in Positions
    BY <1>1, <1>19 DEF RemoveServices, TypeOK, Thread, Steps
  <2>2. QED
    BY <1>1, <1>19, <2>1 DEF RemoveServices, TypeOK
<1>20. ASSUME NEW w \in Workers, RemoveLoad(w) PROVE TypeOK'
  <2>1. disc' \in [Workers -> Thread] /\ \A v \in Workers : disc'[v].k \in Positions
    BY <1>1, <1>20 DEF RemoveLoad, TypeOK, Thread, Steps
  <2>2. QED
    BY <1>1, <1>20, <2>1 DEF RemoveLoad, TypeOK
<1>21. ASSUME NEW w \in Workers, RemoveStore(w) PROVE TypeOK'
  <2>1. disc[w] \in Thread /\ disc[w].k \in Positions
    BY <1>1 DEF TypeOK
  <2>2. disc' \in [Workers -> Thread] /\ \A v \in Workers : disc'[v].k \in Positions
    BY <1>1, <1>21, <2>1, ThreadAdvances DEF RemoveStore, TypeOK
  <2>3. entries' \in [Positions -> SUBSET Nodes]
    BY <1>1, <1>21, <2>1 DEF RemoveStore, TypeOK, Thread
  <2>4. QED
    BY <1>1, <1>21, <2>2, <2>3 DEF RemoveStore, TypeOK
<1>22. ASSUME NEW w \in Workers, Unavailable(w) PROVE TypeOK'
  <2>1. disc' \in [Workers -> Thread] /\ \A v \in Workers : disc'[v].k \in Positions
    BY <1>1, <1>22, PositionsOK DEF Unavailable, TypeOK, Idle, Thread, Steps, NoNode
  <2>2. disc[w].of \in Nodes
    BY <1>1, <1>22 DEF Unavailable, AtWork
  <2>3. QED
    BY <1>1, <1>22, <2>1, <2>2 DEF Unavailable, TypeOK, Event, Emitted
<1>23. ASSUME NEW e \in Event, NodeEvent(e) PROVE TypeOK'
  BY <1>1, <1>23 DEF NodeEvent, TypeOK, Event
<1>24. CASE UNCHANGED vars
  BY <1>1, <1>24 DEF vars, TypeOK
<1>25. QED
  BY <1>2, <1>3, <1>4, <1>5, <1>6, <1>7, <1>8, <1>9, <1>10, <1>11, <1>12, <1>13, <1>14, <1>15,
     <1>16, <1>17, <1>18, <1>19, <1>20, <1>21, <1>22, <1>23, <1>24
     DEF Next, InfoStep, DisconnectStep

\* Every step keeps the types and the positions of the goroutines.
LEMMA TInvStep == TInv /\ [Next]_vars => TInv'
<1> SUFFICES ASSUME TInv, [Next]_vars PROVE TInv'
  OBVIOUS
<1> USE DEF remote, wire, catalogs, neighbourhood, threads
<1>1. TypeOK /\ IsFiniteSet(news) /\ AtWork(info.t) /\ \A w \in Workers : AtWork(disc[w])
  BY DEF TInv
<1>2. TypeOK'
  BY TypeStep
<1>3. IsFiniteSet(news')
  <2>1. \A e : IsFiniteSet(news \union {e}) /\ IsFiniteSet(news \ {e})
    BY <1>1, FS_AddElement, FS_RemoveElement
  <2>2. news' = news \/ \E e : news' = news \union {e} \/ news' = news \ {e}
    BY DEF Next, Boot, Crash, StopRemote, SendHeartbeat, DiscoverHandler, HeartbeatTimeout,
       InfoReceived, HeartbeatReceived, DiscoverNode, DisconnectReceived, DisconnectExpired,
       InfoStep, UpdateRemote, AddLoad, AddStore, InfoDone, HeartBeat, CheckExpired,
       DisconnectStep, RemoveServices, RemoveLoad, RemoveStore, Unavailable, NodeEvent, vars
  <2>3. QED
    BY <1>1, <2>1, <2>2
<1>4. CASE UNCHANGED <<info, disc>>
  BY <1>1, <1>2, <1>3, <1>4 DEF TInv, AtWork
<1>5. ASSUME NEW n \in Nodes, InfoReceived(n) PROVE TInv'
  BY <1>1, <1>2, <1>3, <1>5, ThreadBegins DEF InfoReceived, TInv, AtWork
<1>6. CASE UpdateRemote \/ AddLoad
  <2>1. info'.t.of = info.t.of /\ info.t.at # "idle" /\ UNCHANGED disc
    <3>1. info \in [known : BOOLEAN, t : Thread]
      BY <1>1 DEF TypeOK
    <3>2. UpdateRemote => info'.t.of = info.t.of
      BY <3>1 DEF UpdateRemote, Thread
    <3>3. AddLoad => info'.t.of = info.t.of
      <4>1. ASSUME AddLoad PROVE info'.t = [info.t EXCEPT !.at = "store", !.copy = entries[info.t.k]]
        BY <3>1, <4>1 DEF AddLoad
      <4>2. info.t \in Thread
        BY <3>1
      <4>3. QED
        BY <4>1, <4>2 DEF Thread
    <3>4. QED
      BY <1>6, <3>2, <3>3 DEF UpdateRemote, AddLoad
  <2>2. QED
    BY <1>1, <1>2, <1>3, <2>1 DEF TInv, AtWork
<1>7. CASE AddStore
  <2>1. info'.t = Advance(info.t) /\ info.t.at # "idle" /\ UNCHANGED disc
    BY <1>1, <1>7 DEF AddStore, TypeOK
  <2>2. info.t \in Thread /\ info.t.k \in Positions
    BY <1>1 DEF TypeOK
  <2>3. QED
    BY <1>1, <1>2, <1>3, <2>1, <2>2, ThreadAdvances DEF TInv, AtWork
<1>8. CASE InfoDone
  BY <1>1, <1>2, <1>3, <1>8 DEF InfoDone, TInv, AtWork, Idle
<1>9. ASSUME NEW n \in Nodes, DisconnectReceived(n) \/ DisconnectExpired(n) PROVE TInv'
  <2>1. disc' = disc \/ \E w \in Workers : disc' = [disc EXCEPT ![w] = Begin(n)]
    BY <1>9 DEF DisconnectReceived, DisconnectExpired, Workers
  <2>2. UNCHANGED info
    BY <1>9 DEF DisconnectReceived, DisconnectExpired
  <2>3. QED
    BY <1>1, <1>2, <1>3, <2>1, <2>2, ThreadBegins DEF TInv, AtWork, TypeOK
<1>10. ASSUME NEW w \in Workers, DisconnectStep(w) PROVE TInv'
  <2>1. disc[w] \in Thread /\ disc[w].k \in Positions /\ disc \in [Workers -> Thread]
    BY <1>1 DEF TypeOK
  <2>2. PICK t : disc' = [disc EXCEPT ![w] = t] /\ (t.at = "idle" \/ t.of = disc[w].of)
    <3>1. CASE RemoveServices(w)
      <4> DEFINE t == [disc[w] EXCEPT !.at = "load"]
      <4>1. t.of = disc[w].of /\ disc' = [disc EXCEPT ![w] = t]
        BY <2>1, <3>1 DEF RemoveServices, Thread
      <4>2. QED
        BY <4>1
    <3>2. CASE RemoveLoad(w)
      <4> DEFINE t == [disc[w] EXCEPT !.at = "store", !.copy = entries[disc[w].k]]
      <4>1. t.of = disc[w].of /\ disc' = [disc EXCEPT ![w] = t]
        BY <2>1, <3>2 DEF RemoveLoad, Thread
      <4>2. QED
        BY <4>1
    <3>3. CASE RemoveStore(w)
      <4> DEFINE t == Advance(disc[w])
      <4>1. t.of = disc[w].of /\ disc' = [disc EXCEPT ![w] = t]
        BY <2>1, <3>3, ThreadAdvances DEF RemoveStore
      <4>2. QED
        BY <4>1
    <3>4. CASE Unavailable(w)
      <4>1. Idle.at = "idle" /\ disc' = [disc EXCEPT ![w] = Idle]
        BY <3>4 DEF Unavailable, Idle
      <4>2. QED
        BY <4>1
    <3>5. QED
      BY <1>10, <3>1, <3>2, <3>3, <3>4 DEF DisconnectStep
  <2>3. UNCHANGED info /\ disc[w].at # "idle"
    BY <1>10 DEF DisconnectStep, RemoveServices, RemoveLoad, RemoveStore, Unavailable
  <2>4. QED
    BY <1>1, <1>2, <1>3, <2>1, <2>2, <2>3 DEF TInv, AtWork
<1>11. QED
  BY <1>4, <1>5, <1>6, <1>7, <1>8, <1>9, <1>10 DEF Next, InfoStep, Boot, Crash, StopRemote,
     SendHeartbeat, DiscoverHandler, HeartbeatTimeout, HeartbeatReceived, DiscoverNode, HeartBeat,
     CheckExpired, NodeEvent, vars

-----------------------------------------------------------------------------
(* One handler at a time *)

\* A handler that may start is alone.
LEMMA Alone ==
  ASSUME TInv, MaxRunning = 1, MayStart
  PROVE  info.t.at = "idle" /\ beat = NoNode /\ \A w \in Workers : disc[w].at = "idle"
<1> DEFINE busy == {w \in Workers : disc[w].at # "idle"}
<1>1. IsFiniteSet(Workers) /\ IsFiniteSet(news)
  <2>1. IsFiniteSet({"message"}) /\ IsFiniteSet({"message"} \union {"loop"})
    BY FS_Singleton, FS_AddElement
  <2>2. Workers = {"message"} \union {"loop"}
    BY DEF Workers
  <2>3. QED
    BY <2>1, <2>2 DEF TInv
<1>2. IsFiniteSet(busy)
  BY <1>1, FS_Subset
<1>3. Cardinality(busy) \in Nat /\ Cardinality(news) \in Nat
  BY <1>1, <1>2, FS_CardinalityType
<1>4. Running = Cardinality(busy) + (IF info.t.at # "idle" THEN 1 ELSE 0)
                + (IF beat # NoNode THEN 1 ELSE 0) + Cardinality(news)
  BY DEF Running
<1> HIDE DEF busy
<1>5. Cardinality(busy) = 0 /\ info.t.at = "idle" /\ beat = NoNode
  BY <1>3, <1>4 DEF MayStart
<1>6. busy = {}
  BY <1>2, <1>5, FS_EmptySet
<1>7. QED
  BY <1>5, <1>6 DEF busy

\* What matters of the state to the handlers.
Core == <<node, services, entries, info, disc, beat>>

\* What others do does not concern the handlers.
LEMMA CoreStays ==
  ASSUME Exclusive, InfoInv, DiscInv, NodeInv, UNCHANGED Core
  PROVE  Exclusive' /\ InfoInv' /\ DiscInv' /\ NodeInv'
BY DEF Core, Exclusive, InfoInv, DiscInv, NodeInv, Present, Absent, WorksFor

\* A handler of an INFO begins.
LEMMA InfoBegins ==
  ASSUME IInv, MaxRunning = 1, NEW n \in Nodes, InfoReceived(n)
  PROVE  Exclusive' /\ InfoInv' /\ DiscInv' /\ NodeInv'
<1>1. TypeOK /\ NodeInv
  BY DEF IInv, TInv
<1>2. info.t.at = "idle" /\ beat = NoNode /\ \A w \in Workers : disc[w].at = "idle"
  BY Alone DEF InfoReceived, IInv
<1>3. /\ info'.t.at = "services" /\ info'.t.of = n /\ info'.t.k = 1
      /\ UNCHANGED <<services, entries, disc, beat>>
      /\ node'[n] = "available" /\ \A m \in Nodes \ {n} : node'[m] = node[m]
  BY <1>1, ThreadBegins DEF InfoReceived, catalogs, TypeOK
<1>4. Present(n)' \/ Absent(n)'
  BY <1>1, <1>2, <1>3 DEF NodeInv, WorksFor, Present, Absent
<1>5. NodeInv'
  BY <1>1, <1>2, <1>3 DEF NodeInv, WorksFor, Present, Absent
<1>6. QED
  BY <1>2, <1>3, <1>4, <1>5 DEF Exclusive, InfoInv, DiscInv

\* A handler of an INFO goes on.
LEMMA InfoGoesOn ==
  ASSUME IInv, InfoStep
  PROVE  Exclusive' /\ InfoInv' /\ DiscInv' /\ NodeInv'
<1> DEFINE t == info.t
<1>1. PICK n, k : n = t.of /\ k = t.k
  OBVIOUS
<1>2. /\ TypeOK /\ AtWork(t) /\ Exclusive /\ InfoInv /\ NodeInv
      /\ t \in Thread /\ k \in Positions /\ Positions \subseteq Nat
  BY <1>1, PositionsOK DEF IInv, TInv, TypeOK
<1>3. UNCHANGED <<node, disc, beat>> /\ t.at # "idle"
  BY DEF InfoStep, UpdateRemote, AddLoad, AddStore, InfoDone
<1>4. n \in Nodes /\ node[n] = "available" /\ \A w \in Workers : disc[w].at = "idle"
  BY <1>1, <1>2, <1>3 DEF AtWork, InfoInv, Exclusive
<1>5. ASSUME \A m \in Nodes \ {n} : /\ m \in services' <=> m \in services
                                    /\ \A j \in Positions : m \in entries'[j] <=> m \in entries[j],
             (info'.t.at # "idle" /\ info'.t.of = n) \/ Present(n)'
      PROVE  NodeInv'
  <2>1. ASSUME NEW m \in Nodes \ {n}
        PROVE  IF node'[m] = "available" THEN Present(m)' ELSE Absent(m)'
    <3>1. IF node[m] = "available" THEN Present(m) ELSE Absent(m)
      BY <1>1, <1>2, <1>4, <2>1 DEF NodeInv, WorksFor
    <3>2. (Present(m)' <=> Present(m)) /\ (Absent(m)' <=> Absent(m))
      BY <1>5, <2>1 DEF Present, Absent
    <3>3. QED
      BY <1>3, <3>1, <3>2
  <2>2. WorksFor(info.t, n)' \/ (Present(n)' /\ node'[n] = "available")
    BY <1>3, <1>4, <1>5 DEF WorksFor
  <2>3. QED
    BY <2>1, <2>2 DEF NodeInv
<1>6. Exclusive' /\ DiscInv'
  BY <1>1, <1>2, <1>3, <1>4 DEF Exclusive, DiscInv
<1>7. CASE UpdateRemote
  <2>1. /\ t.at = "services" /\ info'.t.of = n /\ info'.t.k = k
        /\ info'.t.at = (IF n \in services THEN "last" ELSE "load")
        /\ services' = services \union {n} /\ UNCHANGED entries
    BY <1>1, <1>2, <1>7 DEF UpdateRemote, TypeOK, Thread
  <2>2. Present(n) \/ Absent(n)
    BY <1>1, <1>2, <2>1 DEF InfoInv
  <2>3. k = 1
    BY <1>1, <1>2, <2>1 DEF InfoInv
  <2>4. NodeInv'
    BY <1>5, <2>1
  <2>5. CASE Present(n)
    BY <1>1, <1>3, <1>4, <1>6, <2>1, <2>4, <2>5 DEF InfoInv, Present
  <2>6. CASE Absent(n)
    BY <1>1, <1>3, <1>4, <1>6, <2>1, <2>3, <2>4, <2>6 DEF InfoInv, Absent, Positions
  <2>7. QED
    BY <2>2, <2>5, <2>6
<1>8. CASE AddLoad
  <2>1. /\ t.at = "load" /\ info'.t.of = n /\ info'.t.k = k
        /\ info'.t.at = "store" /\ info'.t.copy = entries[k] /\ UNCHANGED <<services, entries>>
    BY <1>1, <1>2, <1>8 DEF AddLoad, TypeOK, Thread, catalogs
  <2>2. NodeInv'
    BY <1>5, <2>1
  <2>3. n \in services /\ \A j \in Positions : n \in entries[j] <=> j < k
    BY <1>1, <1>2, <2>1 DEF InfoInv
  <2>4. QED
    BY <1>1, <1>3, <1>4, <1>6, <2>1, <2>2, <2>3 DEF InfoInv
<1>9. CASE AddStore
  <2>1. /\ t.at = "store" /\ info'.t = Advance(t) /\ UNCHANGED services
        /\ entries' = [entries EXCEPT ![k] = entries[k] \union {n}]
    BY <1>1, <1>2, <1>9 DEF AddStore, TypeOK, InfoInv
  <2>2. \A j \in Positions : j < k => n \in entries[j]
    BY <1>1, <1>2, <2>1 DEF InfoInv
  <2>3. /\ \A m \in Nodes \ {n} : \A j \in Positions : m \in entries'[j] <=> m \in entries[j]
        /\ \A j \in Positions : n \in entries'[j] <=> j < k + 1
    BY <1>1, <1>2, <2>1 DEF TypeOK, InfoInv
  <2>4. CASE Advance(t).at = "load" /\ Advance(t).k = k + 1
    <3>1. n \in services /\ Advance(t).of = n
      BY <1>1, <1>2, <2>1, ThreadAdvances DEF InfoInv
    <3>2. NodeInv'
      BY <1>5, <2>1, <2>3, <2>4, <3>1
    <3>3. QED
      BY <1>1, <1>3, <1>4, <1>6, <2>1, <2>3, <2>4, <3>1, <3>2 DEF InfoInv
  <2>5. CASE Advance(t).at = "last" /\ \A j \in Positions : j <= k
    <3>1. Present(n)'
      BY <1>1, <1>2, <2>1, <2>3, <2>5 DEF Present, InfoInv
    <3>2. Advance(t).of = n
      BY <1>1, <1>2, <2>1, ThreadAdvances
    <3>3. NodeInv'
      BY <1>5, <2>1, <2>3, <2>5, <3>1, <3>2
    <3>4. QED
      BY <1>1, <1>3, <1>4, <1>6, <2>1, <2>5, <3>1, <3>2, <3>3 DEF InfoInv
  <2>6. QED
    BY <1>1, <1>2, <2>4, <2>5, ThreadAdvances
<1>10. CASE InfoDone
  <2>1. t.at = "last" /\ info'.t.at = "idle" /\ UNCHANGED <<services, entries>> /\ Present(n)'
    BY <1>1, <1>2, <1>10 DEF InfoDone, Idle, catalogs, InfoInv, Present
  <2>2. QED
    BY <1>1, <1>5, <1>6, <2>1 DEF InfoInv
<1>11. QED
  BY <1>7, <1>8, <1>9, <1>10 DEF InfoStep

\* A goroutine begins with disconnectNode.
LEMMA DisconnectBegins ==
  ASSUME IInv, MaxRunning = 1, NEW n \in Nodes, DisconnectReceived(n) \/ DisconnectExpired(n)
  PROVE  Exclusive' /\ InfoInv' /\ DiscInv' /\ NodeInv'
<1>1. TypeOK /\ Exclusive /\ InfoInv /\ DiscInv /\ NodeInv
  BY DEF IInv, TInv
<1>2. info.t.at = "idle" /\ beat = NoNode /\ \A w \in Workers : disc[w].at = "idle"
  BY Alone DEF DisconnectReceived, DisconnectExpired, IInv
<1>3. UNCHANGED <<node, services, entries, info, beat>>
  BY DEF DisconnectReceived, DisconnectExpired, catalogs
<1>4. CASE disc' = disc
  BY <1>1, <1>3, <1>4, CoreStays DEF Core
<1>5. ASSUME NEW w \in Workers, disc' = [disc EXCEPT ![w] = Begin(n)]
      PROVE  Exclusive' /\ InfoInv' /\ DiscInv' /\ NodeInv'
  <2>1. disc'[w].at = "services" /\ disc'[w].of = n /\ disc'[w].k = 1
        /\ \A v \in Workers \ {w} : disc'[v].at = "idle"
    BY <1>1, <1>2, <1>5, ThreadBegins DEF TypeOK
  <2>2. Exclusive' /\ InfoInv' /\ DiscInv'
    BY <1>2, <1>3, <2>1 DEF Exclusive, InfoInv, DiscInv
  <2>3. NodeInv'
    BY <1>1, <1>2, <1>3, <2>1 DEF NodeInv, WorksFor, Present, Absent
  <2>4. QED
    BY <2>2, <2>3
<1>6. QED
  BY <1>4, <1>5 DEF DisconnectReceived, DisconnectExpired, Workers

\* A goroutine goes on with disconnectNode.
LEMMA DisconnectGoesOn ==
  ASSUME IInv, NEW w \in Workers, DisconnectStep(w)
  PROVE  Exclusive' /\ InfoInv' /\ DiscInv' /\ NodeInv'
<1> DEFINE t == disc[w]
<1>1. PICK n, k : n = t.of /\ k = t.k
  OBVIOUS
<1>2. /\ TypeOK /\ AtWork(t) /\ Exclusive /\ InfoInv /\ DiscInv /\ NodeInv
      /\ t \in Thread /\ k \in Positions /\ Positions \subseteq Nat
  BY <1>1, PositionsOK DEF IInv, TInv, TypeOK
<1>3. UNCHANGED <<info, beat>> /\ t.at # "idle"
  BY DEF DisconnectStep, RemoveServices, RemoveLoad, RemoveStore, Unavailable
<1>4. /\ n \in Nodes /\ info.t.at = "idle" /\ beat = NoNode
      /\ \A v \in Workers \ {w} : disc[v].at = "idle"
  BY <1>1, <1>2, <1>3 DEF AtWork, Exclusive
<1>5. \A v \in Workers \ {w} : disc'[v] = disc[v]
  BY <1>2 DEF DisconnectStep, RemoveServices, RemoveLoad, RemoveStore, Unavailable, TypeOK
<1>6. Exclusive' /\ InfoInv'
  BY <1>1, <1>2, <1>3, <1>4, <1>5 DEF Exclusive, InfoInv
<1>7. ASSUME \A m \in Nodes \ {n} :
               /\ m \in services' <=> m \in services
               /\ \A j \in Positions : m \in entries'[j] <=> m \in entries[j]
               /\ node'[m] = node[m],
             \/ disc'[w].at # "idle" /\ disc'[w].of = n
             \/ disc'[w].at = "idle" /\ Absent(n)' /\ node'[n] = "unavailable"
      PROVE  NodeInv'
  BY <1>1, <1>2, <1>3, <1>4, <1>5, <1>7 DEF NodeInv, WorksFor, Present, Absent
<1>8. CASE RemoveServices(w)
  <2>1. /\ t.at = "services" /\ disc'[w].at = "load" /\ disc'[w].of = n
        /\ services' = services \ {n} /\ UNCHANGED <<entries, node>>
    BY <1>1, <1>2, <1>8 DEF RemoveServices, TypeOK, Thread
  <2>2. NodeInv'
    BY <1>1, <1>7, <2>1
  <2>3. disc'[w].k = 1
    BY <1>1, <1>2, <1>8, <2>1 DEF RemoveServices, TypeOK, Thread, DiscInv
  <2>4. QED
    BY <1>1, <1>4, <1>5, <1>6, <2>1, <2>2, <2>3 DEF DiscInv, Positions
<1>9. CASE RemoveLoad(w)
  <2>1. /\ t.at = "load" /\ disc'[w].at = "store" /\ disc'[w].of = n /\ disc'[w].k = k
        /\ disc'[w].copy = entries[k] /\ UNCHANGED <<services, entries, node>>
    BY <1>1, <1>2, <1>9 DEF RemoveLoad, TypeOK, Thread, catalogs
  <2>2. NodeInv'
    BY <1>1, <1>7, <2>1
  <2>3. QED
    BY <1>1, <1>2, <1>4, <1>5, <1>6, <2>1, <2>2 DEF DiscInv
<1>10. CASE RemoveStore(w)
  <2>1. /\ t.at = "store" /\ disc'[w] = Advance(t) /\ UNCHANGED <<services, node>>
        /\ entries' = [entries EXCEPT ![k] = entries[k] \ {n}]
    BY <1>1, <1>2, <1>10 DEF RemoveStore, TypeOK, DiscInv
  <2>2. n \notin services /\ \A j \in Positions : j < k => n \notin entries[j]
    BY <1>1, <1>2, <2>1 DEF DiscInv
  <2>3. /\ \A m \in Nodes \ {n} : \A j \in Positions : m \in entries'[j] <=> m \in entries[j]
        /\ \A j \in Positions : j < k + 1 => n \notin entries'[j]
    BY <1>1, <1>2, <2>1, <2>2 DEF TypeOK
  <2>4. Advance(t).of = n /\ Advance(t).at \in {"load", "last"}
    BY <1>1, <1>2, ThreadAdvances
  <2>5. NodeInv'
    BY <1>1, <1>7, <2>1, <2>3, <2>4
  <2>6. CASE Advance(t).at = "load" /\ Advance(t).k = k + 1
    BY <1>1, <1>4, <1>5, <1>6, <2>1, <2>2, <2>3, <2>4, <2>5, <2>6 DEF DiscInv
  <2>7. CASE Advance(t).at = "last" /\ \A j \in Positions : j <= k
    <3>1. Absent(n)'
      BY <1>1, <1>2, <2>1, <2>2, <2>3, <2>7 DEF Absent
    <3>2. QED
      BY <1>1, <1>4, <1>5, <1>6, <2>1, <2>4, <2>5, <2>7, <3>1 DEF DiscInv
  <2>8. QED
    BY <1>1, <1>2, <2>6, <2>7, ThreadAdvances
<1>11. CASE Unavailable(w)
  <2>1. /\ t.at = "last" /\ disc'[w].at = "idle" /\ UNCHANGED <<services, entries>>
        /\ node'[n] = "unavailable" /\ \A m \in Nodes \ {n} : node'[m] = node[m]
    BY <1>1, <1>2, <1>4, <1>11 DEF Unavailable, TypeOK, Idle, catalogs
  <2>2. Absent(n)'
    BY <1>1, <1>2, <2>1 DEF DiscInv, Absent
  <2>3. NodeInv'
    BY <1>1, <1>7, <2>1, <2>2
  <2>4. QED
    BY <1>1, <1>4, <1>5, <1>6, <2>1, <2>3 DEF DiscInv
<1>12. QED
  BY <1>8, <1>9, <1>10, <1>11 DEF DisconnectStep

\* A heartbeat of a node that is available.
LEMMA BeatStep ==
  ASSUME IInv, MaxRunning = 1, NEW n \in Nodes, HeartbeatReceived(n) \/ HeartBeat
  PROVE  Exclusive' /\ InfoInv' /\ DiscInv' /\ NodeInv'
<1>1. TypeOK /\ Exclusive /\ InfoInv /\ DiscInv /\ NodeInv
  BY DEF IInv, TInv
<1>2. UNCHANGED <<services, entries, info, disc>>
  BY DEF HeartbeatReceived, HeartBeat, catalogs
<1>3. UNCHANGED node
  BY <1>1 DEF HeartbeatReceived, HeartBeat, TypeOK, Exclusive
<1>4. Exclusive'
  <2>1. CASE HeartbeatReceived(n)
    <3>1. \A v \in Workers : disc[v].at = "idle"
      BY <2>1, Alone DEF HeartbeatReceived, IInv
    <3>2. QED
      BY <1>2, <1>3, <2>1, <3>1 DEF HeartbeatReceived, Exclusive
  <2>2. CASE HeartBeat
    BY <1>1, <1>2, <1>3, <2>2 DEF HeartBeat, Exclusive
  <2>3. QED
    BY <2>1, <2>2
<1>5. QED
  BY <1>1, <1>2, <1>3, <1>4 DEF InfoInv, DiscInv, NodeInv, Present, Absent, WorksFor

-----------------------------------------------------------------------------
(* The theorems *)

\* The invariant holds in an empty catalog.
LEMMA InitInv == Init => IInv
<1> SUFFICES ASSUME Init PROVE IInv
  OBVIOUS
<1>1. Idle \in Thread /\ Idle.at = "idle" /\ Idle.k \in Positions
  BY PositionsOK DEF Idle, Thread, Steps, NoNode
<1>2. info.t = Idle /\ \A w \in Workers : disc[w] = Idle
  BY DEF Init
<1>3. TypeOK
  BY <1>1, <1>2, BoundsAssumption DEF Init, TypeOK, NoNode
<1>4. TInv
  BY <1>1, <1>2, <1>3, FS_EmptySet DEF Init, TInv, AtWork
<1>5. Exclusive /\ InfoInv /\ DiscInv
  BY <1>1, <1>2 DEF Init, Exclusive, InfoInv, DiscInv
<1>6. NodeInv
  BY DEF Init, NodeInv, Absent
<1>7. QED
  BY <1>4, <1>5, <1>6 DEF IInv

\* With one handler at a time every step keeps the invariant.
LEMMA NextInv == ASSUME MaxRunning = 1 PROVE IInv /\ [Next]_vars => IInv'
<1> SUFFICES ASSUME IInv, [Next]_vars PROVE Exclusive' /\ InfoInv' /\ DiscInv' /\ NodeInv'
  BY TInvStep DEF IInv
<1>1. Exclusive /\ InfoInv /\ DiscInv /\ NodeInv
  BY DEF IInv
<1>2. CASE UNCHANGED Core
  BY <1>1, <1>2, CoreStays
<1>3. ASSUME NEW n \in Nodes,
             Boot(n) \/ Crash(n) \/ StopRemote(n) \/ SendHeartbeat(n) \/ DiscoverHandler(n)
               \/ HeartbeatTimeout(n) \/ DiscoverNode(n)
      PROVE  UNCHANGED Core
  BY <1>3 DEF Boot, Crash, StopRemote, SendHeartbeat, DiscoverHandler, HeartbeatTimeout,
     DiscoverNode, Core, catalogs, threads, wire
<1>4. CheckExpired \/ (\E e \in Event : NodeEvent(e)) \/ UNCHANGED vars => UNCHANGED Core
  BY DEF CheckExpired, NodeEvent, Core, catalogs, threads, vars
<1>5. HeartBeat => \E n \in Nodes : HeartbeatReceived(n) \/ HeartBeat
  BY DEF HeartBeat, IInv, TInv, TypeOK
<1>6. CASE HeartBeat \/ \E n \in Nodes : HeartbeatReceived(n)
  BY <1>5, <1>6, BeatStep
<1>7. QED
  BY <1>2, <1>3, <1>4, <1>6, InfoBegins, InfoGoesOn, DisconnectBegins, DisconnectGoesOn DEF Next

\* The types of the state, however many handlers overlap.
THEOREM Types == Spec => []TypeOK
<1>1. Init => TInv
  BY InitInv DEF IInv
<1>2. TInv /\ [Next]_vars => TInv'
  BY TInvStep
<1>3. TInv => TypeOK
  BY DEF TInv
<1>4. QED
  BY <1>1, <1>2, <1>3, PTL DEF Spec

\* The inductive invariant when handlers run one at a time: how far a handler has
\* come with the catalogs, and that all others agree (registry.go:280-420).
THEOREM Invariance == ASSUME MaxRunning = 1 PROVE Spec => []IInv
<1>1. Init => IInv
  BY InitInv
<1>2. IInv /\ [Next]_vars => IInv'
  BY NextInv
<1>3. QED
  BY <1>1, <1>2, PTL DEF Spec

\* When handlers run one at a time, the service catalog and the catalogs of
\* endpoints agree on every node no handler works for, as updateRemote relies on
\* (service-catalog.go:225-231), for any number of nodes and catalogs and however
\* messages are lost, late or out of order.
THEOREM Agreement == ASSUME MaxRunning = 1 PROVE Spec => []CatalogsAgree
<1>1. IInv => CatalogsAgree
  <2>1. SUFFICES ASSUME NodeInv, NEW n \in Nodes, info.t.of # n, \A w \in Workers : disc[w].of # n
                 PROVE  \A k \in Positions : n \in entries[k] <=> n \in services
    BY DEF IInv, CatalogsAgree
  <2>2. Present(n) \/ Absent(n)
    BY <2>1 DEF NodeInv, WorksFor
  <2>3. QED
    BY <2>2 DEF Present, Absent
<1>2. QED
  BY <1>1, Invariance, PTL

\* When handlers run one at a time and none is running, calls and events go to
\* every node that lives and is known to be available, and to none that was found
\* down (registry/README.md:3).
THEOREM Routes == ASSUME MaxRunning = 1 PROVE Spec => []RoutesToTheLiving
<1>1. IInv => RoutesToTheLiving
  <2>1. SUFFICES ASSUME IInv, Quiet PROVE RoutesToTheLiving
    BY DEF RoutesToTheLiving, SavedInRegistry, RemovedFromRegistry
  <2>2. MayStart
    BY <2>1 DEF Quiet, MayStart
  <2>3. \A n \in Nodes : IF node[n] = "available" THEN Present(n) ELSE Absent(n)
    BY <2>1, <2>2, Alone DEF IInv, NodeInv, WorksFor
  <2>4. up \subseteq Nodes
    BY <2>1 DEF IInv, TInv, TypeOK
  <2>5. QED
    BY <2>3, <2>4 DEF RoutesToTheLiving, SavedInRegistry, RemovedFromRegistry, Present, Absent
<1>2. QED
  BY <1>1, Invariance, PTL
=============================================================================
