----------------------------- MODULE RemoteCall -----------------------------
(***************************************************************************)
(* What a broker promises the callers of remote actions, without the      *)
(* machinery: a call that was opened is settled at most once, its outcome  *)
(* never changes afterwards, and every outcome has a cause - a reply of    *)
(* the remote node to this very call, a timer that ran out, the loss of    *)
(* the node that the call was sent to, or the stop of the broker.          *)
(* Requests implements this module.                                        *)
(***************************************************************************)
CONSTANTS
  Calls,    \* the remote calls the broker makes
  Nodes     \* the remote nodes they go to

VARIABLES
  status,     \* [Calls -> {"idle", "open", "settled"}]
  target,     \* [Calls -> Nodes], the node each call is for
  outcome,    \* [Calls -> Outcomes \union {"none"}]
  replies,    \* the calls that a remote node answered
  expired,    \* the calls whose timer ran out
  cut,        \* the nodes that were reported disconnected
  stopping    \* is the broker shutting down?

vars == <<status, target, outcome, replies, expired, cut, stopping>>

Outcomes == {"reply", "timeout", "disconnected", "stopping"}

TypeOK ==
  /\ status \in [Calls -> {"idle", "open", "settled"}]
  /\ target \in [Calls -> Nodes]
  /\ outcome \in [Calls -> Outcomes \union {"none"}]
  /\ replies \subseteq Calls
  /\ expired \subseteq Calls
  /\ cut \subseteq Nodes
  /\ stopping \in BOOLEAN

Init ==
  /\ status = [c \in Calls |-> "idle"]
  /\ target \in [Calls -> Nodes]
  /\ outcome = [c \in Calls |-> "none"]
  /\ replies = {}
  /\ expired = {}
  /\ cut = {}
  /\ stopping = FALSE

Open(c) ==
  /\ status[c] = "idle"
  /\ status' = [status EXCEPT ![c] = "open"]
  /\ UNCHANGED <<target, outcome, replies, expired, cut, stopping>>

\* A remote node answers a call, which may long have been settled.
Reply(c) ==
  /\ status[c] # "idle"
  /\ replies' = replies \union {c}
  /\ UNCHANGED <<status, target, outcome, expired, cut, stopping>>

Expire(c) ==
  /\ status[c] # "idle"
  /\ expired' = expired \union {c}
  /\ UNCHANGED <<status, target, outcome, replies, cut, stopping>>

Cut(n) ==
  /\ cut' = cut \union {n}
  /\ UNCHANGED <<status, target, outcome, replies, expired, stopping>>

StopOrStart ==
  /\ stopping' = ~stopping
  /\ UNCHANGED <<status, target, outcome, replies, expired, cut>>

\* What entitles the broker to settle c with o.
Cause(c, o) ==
  \/ o = "reply" /\ c \in replies
  \/ o = "timeout" /\ c \in expired
  \/ o = "disconnected" /\ target[c] \in cut
  \/ o = "stopping" /\ stopping

Settle(c, o) ==
  /\ status[c] = "open"
  /\ Cause(c, o)
  /\ status' = [status EXCEPT ![c] = "settled"]
  /\ outcome' = [outcome EXCEPT ![c] = o]
  /\ UNCHANGED <<target, replies, expired, cut, stopping>>

Next ==
  \/ \E c \in Calls : Open(c) \/ Expire(c) \/ Reply(c)
  \/ \E n \in Nodes : Cut(n)
  \/ StopOrStart
  \/ \E c \in Calls, o \in Outcomes : Settle(c, o)

Spec == Init /\ [][Next]_vars
=============================================================================
