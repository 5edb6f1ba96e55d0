-------------------------- MODULE MemoryTransport ---------------------------
(***************************************************************************)
(* The memory transporter (transit/memory/memory.go), and another one on   *)
(* the same SharedMemory.  Subscribe and Publish take its mutex;           *)
(* Disconnect copies the handlers that stay and stores the copy without.   *)
(***************************************************************************)
EXTENDS SequencesExt

CONSTANTS Topics, Order

VARIABLES
  status, taken,
  inMemory,   \* how many subscriptions the transit made
  handlers,   \* the subscriptions in the memory, pairs of a transporter and a topic
  copy,       \* [Transporters -> SUBSET handlers], what a Disconnect is about to store
  copying,    \* the transporters inside Disconnect
  raced       \* history: a subscription of this one fell between a copy and its store

Transporters == {"self", "peer"}
memoryVars == <<status, taken, inMemory, handlers, copy, copying, raced>>

MemoryInit ==
  /\ inMemory = 0 /\ handlers = {} /\ raced = FALSE
  /\ copy = [p \in Transporters |-> {}] /\ copying = {}

Become(from, to) == status = from /\ status' = to /\ UNCHANGED <<taken, inMemory, raced>>

Connect == Become("new", "connecting") /\ UNCHANGED <<handlers, copy, copying>>
Connected == Become("connecting", "on") /\ UNCHANGED <<handlers, copy, copying>>

Subscribe ==
  /\ status = "on" /\ inMemory < Len(Order)
  /\ handlers' = handlers \union {<<"self", Order[inMemory + 1]>>}
  /\ inMemory' = inMemory + 1 /\ raced' = (raced \/ copying # {})
  /\ UNCHANGED <<status, taken, copy, copying>>

PeerSubscribes(t) ==
  /\ "peer" \notin copying /\ handlers' = handlers \union {<<"peer", t>>}
  /\ UNCHANGED <<status, taken, inMemory, copy, copying, raced>>

\* A Publish looks the handlers up, under the mutex, and starts a goroutine for
\* each; a Disconnect may come between.
Take(t) ==
  /\ <<"self", t>> \in handlers /\ t \notin taken
  /\ taken' = taken \union {t}
  /\ UNCHANGED <<status, inMemory, handlers, copy, copying, raced>>

Handled(t) ==
  /\ t \in taken /\ taken' = taken \ {t}
  /\ UNCHANGED <<status, inMemory, handlers, copy, copying, raced>>

Copy(p) ==
  /\ copy' = [copy EXCEPT ![p] = {h \in handlers : h[1] # p}]
  /\ copying' = copying \union {p} /\ UNCHANGED handlers

Store(p) ==
  /\ p \in copying /\ handlers' = copy[p]
  /\ copying' = copying \ {p} /\ copy' = [copy EXCEPT ![p] = {}]

Disconnect == inMemory = Len(Order) /\ Become("on", "stopping") /\ Copy("self")

\* Stored beside another Disconnect, whose copy may bring these handlers back,
\* the answer is the same but the promise is not: status says so.
Disconnected ==
  /\ Store("self")
  /\ Become("stopping", IF "peer" \in copying THEN "broken" ELSE "stopped")

PeerDisconnects ==
  /\ "peer" \notin copying /\ Copy("peer")
  /\ UNCHANGED <<status, taken, inMemory, raced>>
PeerDisconnected == Store("peer") /\ UNCHANGED <<status, taken, inMemory, raced>>

MemoryNext ==
  \/ Connect \/ Connected \/ Subscribe \/ Disconnect \/ Disconnected
  \/ (\E t \in Topics : PeerSubscribes(t) \/ Take(t) \/ Handled(t))
  \/ PeerDisconnects \/ PeerDisconnected

\* The transit subscribes, and what was begun is done.
MemoryFairness ==
  /\ WF_memoryVars(Connected) /\ WF_memoryVars(Subscribe) /\ WF_memoryVars(Disconnected)

\* Connect and Disconnect answer.
MemoryReturns ==
  /\ [](status = "connecting" => <>(status = "on"))
  /\ [](status = "stopping" => <>(status \in {"stopped", "broken"}))

\* No other transporter takes the subscriptions of this one away, unless they
\* were made while it disconnected.
MemoryServes == <>[](status = "on" => raced \/ \A t \in ToSet(Order) : <<"self", t>> \in handlers)
=============================================================================
