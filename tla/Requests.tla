------------------------------ MODULE Requests ------------------------------
(***************************************************************************)
(* The request engine of one broker: src/transit/pubsub/pubsub.go, with    *)
(* the goroutine of src/registry/registry.go (invokeRemoteAction) that     *)
(* makes each request.                                                     *)
(*                                                                         *)
(* A caller registers its request in pendingRequests, publishes the REQ,   *)
(* and only then receives from the request's unbuffered channel.  Three    *)
(* kinds of goroutine compete to answer it - the handler of a RES, the     *)
(* request's timer, and the listener of $node.disconnected - and each of   *)
(* them sends on that channel while it HOLDS pendingRequestsMutex.         *)
(*                                                                         *)
(* The network may lose, reorder, delay and repeat: every REQ and every    *)
(* RES that was ever published stays available to its receiver, and none   *)
(* has to arrive.  The remote nodes are therefore one action, Execute.     *)
(***************************************************************************)
CONSTANTS
  Calls,          \* the remote calls (context IDs) this broker makes
  Nodes,          \* the remote nodes
  PublishPanics   \* does Publish panic on a closed transport? (amqp, nats,
                  \* kafka: yes; memory: the message just reaches nobody)

ASSUME PublishPanicsAssumption == PublishPanics \in BOOLEAN

VARIABLES
  stage,      \* [Calls -> Stages], how far the caller's goroutine has come
  target,     \* [Calls -> Nodes], the node chosen by LoadBalanceCall
  got,        \* [Calls -> Results], what came out of the call's resultChan
  final,      \* the same, or "stopping": what the caller of Call() is given
  pending,    \* the keys of pendingRequests
  timer,      \* [Calls -> Timers], the time.AfterFunc of each request
  mutex,      \* pendingRequestsMutex: "free", or the payload that the
              \* goroutine holding it is sending
  sending,    \* the requests the holder of the mutex has still to answer
  notices,    \* nodes with a goroutine of onNodeDisconnected not yet run
  cut,        \* the nodes ever reported disconnected (history)
  sent,       \* the calls whose REQ was published
  answers,    \* the calls for which a RES was published
  link,       \* the transport: "up", "recovering" (amqp only) or "closed"
  stopping,   \* ServiceRegistry.stopping
  crashed     \* did a goroutine panic? nothing recovers it: the process ends

caller   == <<stage, got, final>>
engine   == <<pending, timer, mutex, sending>>
network  == <<sent, answers, link>>
vars == <<stage, target, got, final, pending, timer, mutex, sending,
          notices, cut, sent, answers, link, stopping, crashed>>

\* "reply" is what a RES carries: data, or the error of the remote action.
Results == {"none", "reply", "timeout", "disconnected"}
Stages  == {"idle", "invoked", "registered", "published", "waiting",
            "received", "done"}
\* "fired": the goroutine of requestTimedOut runs, and wants the mutex
Timers  == {"unset", "armed", "fired", "handled", "stopped"}

TypeOK ==
  /\ stage \in [Calls -> Stages]
  /\ target \in [Calls -> Nodes]
  /\ got \in [Calls -> Results]
  /\ final \in [Calls -> Results \union {"stopping"}]
  /\ pending \subseteq Calls
  /\ timer \in [Calls -> Timers]
  /\ mutex \in {"free", "reply", "timeout", "disconnected"}
  /\ sending \subseteq Calls
  /\ notices \subseteq Nodes
  /\ cut \subseteq Nodes
  /\ sent \subseteq Calls
  /\ answers \subseteq Calls
  /\ link \in {"up", "recovering", "closed"}
  /\ stopping \in BOOLEAN
  /\ crashed \in BOOLEAN

Init ==
  /\ stage = [c \in Calls |-> "idle"]
  /\ target \in [Calls -> Nodes]
  /\ got = [c \in Calls |-> "none"]
  /\ final = [c \in Calls |-> "none"]
  /\ pending = {}
  /\ timer = [c \in Calls |-> "unset"]
  /\ mutex = "free"
  /\ sending = {}
  /\ notices = {}
  /\ cut = {}
  /\ sent = {}
  /\ answers = {}
  /\ link = "up"
  /\ stopping = FALSE
  /\ crashed = FALSE

-----------------------------------------------------------------------------
(* The caller's goroutine.                                                 *)

\* LoadBalanceCall picked target[c], and invokeRemoteAction starts.
Invoke(c) ==
  /\ stage[c] = "idle"
  /\ stage' = [stage EXCEPT ![c] = "invoked"]
  /\ UNCHANGED <<target, got, final, engine, notices, cut, network,
                 stopping, crashed>>

\* Mutant of Register: the timer is not set.
Register_NoTimer(c) ==
  /\ stage[c] = "invoked"
  /\ mutex = "free"
  /\ stage' = [stage EXCEPT ![c] = "registered"]
  /\ pending' = pending \union {c}
  /\ UNCHANGED <<target, got, final, timer, mutex, sending, notices, cut,
                 network, stopping, crashed>>

\* Request: lock, add the pending request and its timer, unlock.
Register(c) ==
  /\ stage[c] = "invoked"
  /\ mutex = "free"
  /\ stage' = [stage EXCEPT ![c] = "registered"]
  /\ pending' = pending \union {c}
  /\ timer' = [timer EXCEPT ![c] = "armed"]
  /\ UNCHANGED <<target, got, final, mutex, sending, notices, cut, network,
                 stopping, crashed>>

\* Request: transport.Publish("REQ", ...).  A recovering transport keeps the
\* caller inside Publish; a closed one drops the message or panics.
Publish(c) ==
  /\ stage[c] = "registered"
  /\ link # "recovering"
  /\ IF link = "closed" /\ PublishPanics
     THEN crashed' = TRUE /\ UNCHANGED <<stage, sent>>
     ELSE /\ stage' = [stage EXCEPT ![c] = "published"]
          /\ sent' = IF link = "up" THEN sent \union {c} ELSE sent
          /\ UNCHANGED crashed
  /\ UNCHANGED <<target, got, final, engine, notices, cut, answers, link,
                 stopping>>

\* Request returns resultChan, and the goroutine starts to receive from it.
Receive(c) ==
  /\ stage[c] = "published"
  /\ stage' = [stage EXCEPT ![c] = "waiting"]
  /\ UNCHANGED <<target, got, final, engine, notices, cut, network,
                 stopping, crashed>>

\* The result is handed on, or replaced when the registry is stopping.
Finish(c) ==
  /\ stage[c] = "received"
  /\ stage' = [stage EXCEPT ![c] = "done"]
  /\ final' = [final EXCEPT ![c] = IF stopping THEN "stopping" ELSE got[c]]
  /\ UNCHANGED <<target, got, engine, notices, cut, network, stopping,
                 crashed>>

-----------------------------------------------------------------------------
(* The goroutines that answer pending requests.                            *)

\* timer.Stop() prevents a timer from firing, not a goroutine that started.
Stopped(c) == IF timer[c] = "armed" THEN "stopped" ELSE timer[c]

TimerFires(c) ==
  /\ timer[c] = "armed"
  /\ timer' = [timer EXCEPT ![c] = "fired"]
  /\ UNCHANGED <<caller, target, pending, mutex, sending, notices, cut,
                 network, stopping, crashed>>

\* requestTimedOut, up to the send: it answers c unless somebody has.
RequestTimedOut(c) ==
  /\ timer[c] = "fired"
  /\ mutex = "free"
  /\ timer' = [timer EXCEPT ![c] = "handled"]
  /\ IF c \in pending
     THEN mutex' = "timeout" /\ sending' = {c}
     ELSE UNCHANGED <<mutex, sending>>
  /\ UNCHANGED <<caller, target, pending, notices, cut, network, stopping,
                 crashed>>

\* reponseHandler, up to the send.  A RES nobody waits for is discarded; one
\* that arrived before the transport closed may still wait for the mutex.
ReponseHandler(c) ==
  /\ c \in answers
  /\ mutex = "free"
  /\ c \in pending
  /\ timer' = [timer EXCEPT ![c] = Stopped(c)]
  /\ mutex' = "reply"
  /\ sending' = {c}
  /\ UNCHANGED <<caller, target, pending, notices, cut, network, stopping,
                 crashed>>

\* Mutant of PendingRequestsByNode: the requests to all nodes.
PendingRequestsByNode_All(n) == pending

PendingRequestsByNode(n) == {c \in pending : target[c] = n}

\* onNodeDisconnected, up to its first send.
OnNodeDisconnected(n) ==
  /\ n \in notices
  /\ mutex = "free"
  /\ notices' = notices \ {n}
  /\ sending' = PendingRequestsByNode(n)
  /\ mutex' = IF sending' = {} THEN "free" ELSE "disconnected"
  /\ UNCHANGED <<caller, target, pending, timer, cut, network, stopping,
                 crashed>>

\* Mutant of Deliver: the request stays pending, and its channel has room.
Deliver_KeepsPending(c) ==
  /\ c \in sending
  /\ stage[c] \in {"waiting", "received"}
  /\ stage' = [stage EXCEPT ![c] = "received"]
  /\ got' = [got EXCEPT ![c] = mutex]
  /\ timer' = [timer EXCEPT ![c] = Stopped(c)]
  /\ sending' = sending \ {c}
  /\ UNCHANGED <<target, final, pending, mutex, notices, cut, network,
                 stopping, crashed>>

\* The unbuffered send: the holder of the mutex and the caller meet, then
\* the holder stops the timer and deletes the pending request.
Deliver(c) ==
  /\ c \in sending
  /\ stage[c] = "waiting"
  /\ stage' = [stage EXCEPT ![c] = "received"]
  /\ got' = [got EXCEPT ![c] = mutex]
  /\ pending' = pending \ {c}
  /\ timer' = [timer EXCEPT ![c] = Stopped(c)]
  /\ sending' = sending \ {c}
  /\ UNCHANGED <<target, final, mutex, notices, cut, network, stopping,
                 crashed>>

\* Mutant of Unlock: the mutex is released before the last send.
Unlock_WhileSending ==
  /\ mutex # "free"
  /\ mutex' = "free"
  /\ UNCHANGED <<caller, target, pending, timer, sending, notices, cut,
                 network, stopping, crashed>>

Unlock ==
  /\ mutex # "free"
  /\ sending = {}
  /\ mutex' = "free"
  /\ UNCHANGED <<caller, target, pending, timer, sending, notices, cut,
                 network, stopping, crashed>>

-----------------------------------------------------------------------------
(* The rest of the broker, the remote nodes and the transport.             *)

\* The registry emits $node.disconnected: the listener runs in a goroutine.
EmitNodeDisconnected(n) ==
  /\ n \notin notices
  /\ notices' = notices \union {n}
  /\ cut' = cut \union {n}
  /\ UNCHANGED <<caller, target, engine, network, stopping, crashed>>

\* A remote node runs requestHandler on a REQ and publishes its RES; a REQ
\* that is redelivered is executed again, and answered with the same id.
Execute(c) ==
  /\ c \in sent
  /\ answers' = answers \union {c}
  /\ UNCHANGED <<caller, target, engine, notices, cut, sent, link, stopping,
                 crashed>>

\* ServiceRegistry.Stop sets stopping before it disconnects the transit.
Stop ==
  /\ ~stopping
  /\ link # "closed"
  /\ stopping' = TRUE
  /\ UNCHANGED <<caller, target, engine, notices, cut, network, crashed>>

Disconnect ==
  /\ stopping
  /\ link # "closed"
  /\ link' = "closed"
  /\ UNCHANGED <<caller, target, engine, notices, cut, sent, answers,
                 stopping, crashed>>

\* ServiceRegistry.Start clears stopping, then connects.
Start ==
  /\ link = "closed"
  /\ stopping
  /\ stopping' = FALSE
  /\ UNCHANGED <<caller, target, engine, notices, cut, network, crashed>>

Connect ==
  /\ ~stopping
  /\ link = "closed"
  /\ link' = "up"
  /\ UNCHANGED <<caller, target, engine, notices, cut, sent, answers,
                 stopping, crashed>>

\* The connection of the amqp transport breaks, and is established again.
ConnectionLost ==
  /\ link = "up"
  /\ link' = "recovering"
  /\ UNCHANGED <<caller, target, engine, notices, cut, sent, answers,
                 stopping, crashed>>

ConnectionRecovered ==
  /\ link = "recovering"
  /\ link' = "up"
  /\ UNCHANGED <<caller, target, engine, notices, cut, sent, answers,
                 stopping, crashed>>

-----------------------------------------------------------------------------
CallerStep(c) == Register(c) \/ Publish(c) \/ Receive(c) \/ Finish(c)

Step ==
  \/ \E c \in Calls : Invoke(c) \/ CallerStep(c)
  \/ \E c \in Calls : \/ TimerFires(c) \/ RequestTimedOut(c)
                      \/ ReponseHandler(c) \/ Deliver(c)
  \/ \E c \in Calls : Execute(c)
  \/ \E n \in Nodes : EmitNodeDisconnected(n) \/ OnNodeDisconnected(n)
  \/ Unlock
  \/ Stop \/ Disconnect \/ Start \/ Connect
  \/ ConnectionLost \/ ConnectionRecovered

\* A panic of any goroutine ends the process.
Next == ~crashed /\ Step

\* Goroutines keep running, a timer fires, and a mutex whose holders always
\* release it is granted in the end (Go hands a starving waiter the lock).
\* Nothing is assumed of the network, the remote nodes or the connection.
Fairness ==
  /\ \A c \in Calls :
       /\ SF_vars(~crashed /\ Register(c))
       /\ WF_vars(~crashed /\ Publish(c))
       /\ WF_vars(~crashed /\ Receive(c))
       /\ WF_vars(~crashed /\ Finish(c))
       /\ WF_vars(~crashed /\ TimerFires(c))
       /\ SF_vars(~crashed /\ RequestTimedOut(c))
       /\ WF_vars(~crashed /\ Deliver(c))
  /\ WF_vars(~crashed /\ Unlock)

Spec == Init /\ [][Next]_vars /\ Fairness

-----------------------------------------------------------------------------
(* Properties.                                                             *)

Open(c) == stage[c] \in {"registered", "published", "waiting"}

\* The table of pending requests and the goroutines agree: a request is
\* pending exactly as long as its caller has yet to receive.  If one were
\* pending without a receiver, the next goroutine to answer it would block
\* for ever with the mutex in its hands (pubsub.go:115, 131, 441); if a
\* caller waited without being pending, nobody would ever answer it.
WaitersArePending == pending = {c \in Calls : Open(c)}

\* No lost timeout: a pending request that nobody is answering right now has
\* a timer that is armed, or whose goroutine is on its way to the mutex
\* (pubsub.go:371, 431).  A timer stopped for a request that stays pending
\* would leave its caller at the mercy of the network.
WaitersAreTimed ==
  \A c \in pending \ sending : timer[c] \in {"armed", "fired"}

\* Only the holder of the mutex answers, and only pending requests: no
\* second goroutine can be sending to the same caller (pubsub.go:110-141).
OneAnswerer ==
  /\ sending \subseteq pending
  /\ sending # {} => mutex # "free"

\* onNodeDisconnected cancels the requests of that node and of no other, and
\* a reply reaches only the caller of the request it answers.
AnsweredForCause ==
  \A c \in Calls :
    /\ got[c] = "reply" => c \in answers
    /\ got[c] = "disconnected" => target[c] \in cut
    /\ got[c] = "timeout" => timer[c] = "handled"

\* The goroutine that holds the mutex has the right to send what it sends.
HolderHasCause ==
  \A c \in sending :
    /\ mutex = "reply" => c \in answers
    /\ mutex = "disconnected" => target[c] \in cut
    /\ mutex = "timeout" => timer[c] = "handled"

\* How the variables of one call move together along its stages.
CallsInOrder ==
  \A c \in Calls :
    /\ stage[c] \in {"idle", "invoked"} => timer[c] = "unset" /\ c \notin sent
    /\ (got[c] # "none") <=> (stage[c] \in {"received", "done"})
    /\ (final[c] # "none") <=> (stage[c] = "done")

\* The inductive invariant: no later step of the callers, of the goroutines
\* that answer them or of the network can leave it.
IInv ==
  /\ TypeOK
  /\ WaitersArePending
  /\ WaitersAreTimed
  /\ OneAnswerer
  /\ HolderHasCause
  /\ AnsweredForCause
  /\ CallsInOrder
  /\ notices \subseteq cut
  /\ answers \subseteq sent

\* The step leaves every answer that was given as it is.
KeepsAnswers ==
  \A c \in Calls :
    /\ got[c] # "none" => got'[c] = got[c]
    /\ final[c] # "none" => final'[c] = final[c]

\* A caller that was answered is never answered again, and what the user of
\* Call() was given never changes: a late RES, a timer and the loss of the
\* node may all meet the same request (pubsub.go:113, 126, 420).
AnsweredOnce == [][KeepsAnswers]_vars

\* The connection does not stay down for ever.
Recovers == <>[](link # "recovering")

\* Every remote call ends, whatever the network and the remote nodes do,
\* unless the process does: a RES, a timer or a disconnect reaches it, and
\* no goroutine stays blocked in a send that it makes with the mutex of all
\* requests in hand (pubsub.go:131).
CallsEnd ==
  Recovers =>
    /\ \A c \in Calls : (stage[c] = "invoked") ~> (stage[c] = "done" \/ crashed)
    /\ (mutex # "free") ~> (mutex = "free" \/ crashed)

\* What callers are promised.
StatusOf(c) == IF stage[c] = "idle" THEN "idle"
               ELSE IF stage[c] = "done" THEN "settled" ELSE "open"

RC == INSTANCE RemoteCall WITH
        status  <- [c \in Calls |-> StatusOf(c)],
        outcome <- final,
        replies <- answers,
        expired <- {c \in Calls : timer[c] \in {"fired", "handled"}}

\* Requests implements RemoteCall: every call is settled at most once, and
\* every outcome has a cause.
ImplementsRemoteCall == RC!Spec
=============================================================================
