------------------------------ MODULE Emitter -------------------------------
(***************************************************************************)
(* The local bus of a broker, src/emitter/emitter.go, for one event.       *)
(*                                                                         *)
(* Emitting takes a snapshot of the listeners under the mutex and then     *)
(* visits it: a one-time listener is removed, under the mutex again, and   *)
(* the callback runs.  What is removed is the first listener whose code    *)
(* pointer is that of the callback, and all closures of one function       *)
(* literal have the same code pointer.                                     *)
(***************************************************************************)
EXTENDS Naturals, Sequences, FiniteSets, SequencesExt

CONSTANTS
  Callbacks,   \* the closures that may be registered, each of them once
  CodeOf,      \* [Callbacks -> ...], the code pointer of each closure
  OnceOnly,    \* the closures that are only ever registered with Once
  Removable,   \* the closures that somebody removes again
  Emitters,    \* the goroutines that emit the event
  MaxEmits     \* bound: how often each of them emits it

ASSUME ClosuresAssumption ==
  /\ OnceOnly \subseteq Callbacks
  /\ Removable \subseteq Callbacks
ASSUME MaxEmitsAssumption == MaxEmits \in Nat

VARIABLES
  listeners,   \* the listeners of the event, in the order of registration
  use,         \* [Callbacks -> ...], how the closure was registered
  todo,        \* [Emitters -> ...], the rest of the snapshot of each emitter
  emits,       \* [Emitters -> Nat], events emitted
  runs         \* [Callbacks -> Nat], how often the closure was run

busVars == <<listeners, use, todo, emits, runs>>

Listener == [callback : Callbacks, once : BOOLEAN]

\* A listener runs at most once for every event that is emitted.
BusTypeOK ==
  /\ listeners \in Seq(Listener)
  /\ use \in [Callbacks -> {"new", "on", "once", "removed"}]
  /\ todo \in [Emitters -> Seq(Listener)]
  /\ emits \in [Emitters -> 0..MaxEmits]
  /\ runs \in [Callbacks -> 0..(MaxEmits * Cardinality(Emitters))]

BusInit ==
  /\ listeners = <<>>
  /\ use = [c \in Callbacks |-> "new"]
  /\ todo = [e \in Emitters |-> <<>>]
  /\ emits = [e \in Emitters |-> 0]
  /\ runs = [c \in Callbacks |-> 0]

On(c) ==
  /\ c \notin OnceOnly
  /\ use[c] = "new"
  /\ use' = [use EXCEPT ![c] = "on"]
  /\ listeners' = Append(listeners, [callback |-> c, once |-> FALSE])
  /\ UNCHANGED <<todo, emits, runs>>

Once(c) ==
  /\ use[c] = "new"
  /\ use' = [use EXCEPT ![c] = "once"]
  /\ listeners' = Append(listeners, [callback |-> c, once |-> TRUE])
  /\ UNCHANGED <<todo, emits, runs>>

\* Mutants of Without: nothing, every listener of that code, the oldest.
Without_Nothing(ls, c) == ls
Without_All(ls, c) ==
  SelectSeq(ls, LAMBDA v : CodeOf[v.callback] # CodeOf[c])
\* removeListenerInternal: the listeners without the first one whose code
\* pointer is that of c, or unchanged when there is none.
Without(ls, c) ==
  LET same == {i \in DOMAIN ls : CodeOf[ls[i].callback] = CodeOf[c]}
  IN  IF same = {} THEN ls
      ELSE RemoveAt(ls, CHOOSE i \in same : \A j \in same : i <= j)

RemoveListener(c) ==
  /\ c \in Removable
  /\ use[c] \in {"on", "once"}
  /\ use' = [use EXCEPT ![c] = "removed"]
  /\ listeners' = Without(listeners, c)
  /\ UNCHANGED <<todo, emits, runs>>

\* EmitAsync, EmitSync: Listeners() returns a snapshot.
Emit(e) ==
  /\ todo[e] = <<>>
  /\ emits[e] < MaxEmits
  /\ emits' = [emits EXCEPT ![e] = @ + 1]
  /\ todo' = [todo EXCEPT ![e] = listeners]
  /\ UNCHANGED <<listeners, use, runs>>

\* One turn of the loop over the snapshot.
Visit(e) ==
  /\ todo[e] # <<>>
  /\ LET v == Head(todo[e])
     IN  /\ listeners' = IF v.once THEN Without(listeners, v.callback)
                         ELSE listeners
         /\ runs' = [runs EXCEPT ![v.callback] = @ + 1]
  /\ todo' = [todo EXCEPT ![e] = Tail(@)]
  /\ UNCHANGED <<use, emits>>

BusNext ==
  \/ \E c \in Callbacks : On(c) \/ Once(c) \/ RemoveListener(c)
  \/ \E e \in Emitters : Emit(e) \/ Visit(e)

BusSpec == BusInit /\ [][BusNext]_busVars

-----------------------------------------------------------------------------
(* Properties.                                                             *)

Registered(c) == \E i \in DOMAIN listeners : listeners[i].callback = c
Coming(c) == \E e \in Emitters :
               \E i \in DOMAIN todo[e] : todo[e][i].callback = c

\* "Once() - register a new one-time listener" (emitter.go:73): it runs at
\* most once, although the snapshot is older than its removal.
OnceRunsOnce == \A c \in Callbacks : use[c] = "once" => runs[c] <= 1

\* A one-time listener that has not run is not forgotten: the deferred INFO
\* of discoverHandler and the deferred $registry.service.added of
\* notifyServiceAdded are such listeners (pubsub.go:610, registry.go:561).
\* Nor is a listener of On(), by the removal of another (emitter.go:99-101).
OnceIsNotLost ==
  \A c \in Callbacks :
    /\ use[c] = "once" /\ runs[c] = 0 => Registered(c) \/ Coming(c)
    /\ use[c] = "on" => Registered(c)

=============================================================================
