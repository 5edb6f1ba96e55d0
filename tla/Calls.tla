------------------------------- MODULE Calls --------------------------------
(***************************************************************************)
(* A call from the caller's code to the handler of the action and back:    *)
(* Call and MCall of broker/main.go, LoadBalanceCall of                    *)
(* registry/registry.go with the catalog of actions and the round robin    *)
(* strategy, the middlewares around it (middleware, metrics, validators),  *)
(* the handler and the calls that it makes itself, and the node that       *)
(* serves a REQ (requestHandler and sendResponse of                        *)
(* transit/pubsub/pubsub.go).                                              *)
(*                                                                         *)
(* A context keeps its id when it is sent: a frame is one run of           *)
(* LoadBalanceCall, for a context on a node.  The pending requests of a    *)
(* node and their timers are those of Requests, as seen through            *)
(* RemoteCall: a request is answered, or it times out.                     *)
(***************************************************************************)
EXTENDS Payloads, SequencesExt

CONSTANTS
  Nodes, Actions, Roots, Labels, None,
  Scripts,       \* what the programs do: a set of functions from Roots to
                 \* [node, mcall, calls], with calls from labels to Call
  Offers,        \* [Nodes -> SUBSET Actions], the actions of the node
  Known,         \* [Nodes -> [Actions -> Seq(Nodes)]], the entries of other
                 \* nodes in its catalog, which may be out of date
  Subcall,       \* [Actions -> Actions \union {None}], a call the handler makes
  Result,        \* [Actions -> Kinds \union {"panic"}], how it ends otherwise
  Signature,     \* [Actions -> Signatures]
  Serial,        \* the consumer of REQs runs one handler at a time, as those of
                 \* amqp, kafka and nats do
  Strategies,    \* subset of {"RoundRobin", "Random"}, those that are tried
  NextTwice,     \* a middleware of the user calls next twice
  MetricsEvery   \* 1 / MetricsRate

ASSUME RateAssumption == MetricsEvery \in Nat \ {0}

VARIABLES
  script,     \* the operations
  strategy,   \* that of all nodes
  roots,      \* [Roots -> [at, results]], the callers
  frames,     \* the frames so far
  chains,     \* the goroutines of CallHandlers so far, one for a frame and a hook
  counter,    \* [Nodes -> Int], the counter of the round robin
  callsCount, \* [Nodes -> Nat], the counter of the metrics
  reqs, ress, \* messages under way
  crashed,    \* nodes whose process ended in a panic
  spans,      \* history: [started, finished], the frames the metrics told of
  ran,        \* history: how the handlers ended
  overlap,    \* history: nodes where two selections overlapped
  panicked    \* history: the frames whose selection went out of range

Config == <<script, strategy>>
Counters == <<counter, callsCount>>
Network == <<reqs, ress>>
History == <<spans, ran, overlap, panicked>>
callVars == <<Config, roots, frames, chains, Counters, Network, crashed, History>>

Call == [action : Actions, pin : Nodes \union {None}, params : Params]
NoCalls == [l \in {} |-> None]

ASSUME ScriptsAssumption ==
  \A ops \in Scripts : \A r \in Roots :
    /\ ops[r].node \in Nodes /\ ops[r].mcall \in BOOLEAN
    /\ DOMAIN ops[r].calls \subseteq Labels
    /\ \A l \in DOMAIN ops[r].calls : ops[r].calls[l] \in Call
ASSUME NoneAssumption == None \notin Nodes \union Payload
ASSUME CatalogAssumption ==
  /\ Offers \in [Nodes -> SUBSET Actions]
  /\ Known \in [Nodes -> [Actions -> Seq(Nodes)]]
ASSUME HandlersAssumption ==
  /\ Subcall \in [Actions -> Actions \union {None}]
  /\ Result \in [Actions -> Kinds \union {"panic"}]
  /\ Signature \in [Actions -> Signatures]
ASSUME SwitchesAssumption == NextTwice \in BOOLEAN

-----------------------------------------------------------------------------
(* Frames *)

\* f, with a value for one argument more.
Added(f, x, v) == [y \in DOMAIN f \union {x} |-> IF y \in DOMAIN f THEN f[y] ELSE v]

Key(n, id) == [node |-> n, id |-> id]
Child(f) == [f EXCEPT !.id.depth = @ + 1]
Parent(f) == [f EXCEPT !.id.depth = @ - 1]

\* from is the node that sent the REQ; the context of a REQ is addressed to it.
NewFrame(call, from) ==
  [action |-> call.action, pin |-> call.pin, params |-> call.params, from |-> from,
   target |-> from, entry |-> None, at |-> "select", out |-> None]

At(f, stage) == f \in DOMAIN frames /\ frames[f].at = stage /\ f.node \notin crashed
Serving(n) == {f \in DOMAIN frames : f.node = n /\ frames[f].from # None /\ frames[f].at # "sent"}
Selecting(n) == {f \in DOMAIN frames : f.node = n /\ frames[f].at \in {"wrap", "index"}}

IsLocal(f) == frames[f].entry = f.node

\* The handlers of a hook: those of the configuration come first, then the
\* metrics and the validator.
Handlers(f, hook) ==
  IF hook = "before"
  THEN (IF NextTwice /\ IsLocal(f) THEN <<"user">> ELSE <<>>)
       \o (IF IsLocal(f) THEN <<"metrics">> ELSE <<>>) \o <<"validator">>
  ELSE IF IsLocal(f) THEN <<"metrics">> ELSE <<>>

NewChain == [h |-> 1, val |-> "context", again |-> 0, at |-> "run"]

\* An entry was chosen: CallHandlers starts a goroutine.
ToBefore(f, entry) ==
  /\ frames' = [frames EXCEPT ![f].entry = entry, ![f].at = "before"]
  /\ chains' = Added(chains, <<f, "before">>, NewChain)

\* A result came from the handler or from the other node.
ToAfter(fs, f, out) ==
  IF Handlers(f, "after") = <<>>
  THEN /\ frames' = [fs EXCEPT ![f].out = out, ![f].at = "answered"]
       /\ UNCHANGED chains
  ELSE /\ frames' = [fs EXCEPT ![f].out = out, ![f].at = "after"]
       /\ chains' = Added(chains, <<f, "after">>, NewChain)

Answer(f, out) == frames' = [frames EXCEPT ![f].out = out, ![f].at = "answered"]

-----------------------------------------------------------------------------
(* Call and MCall *)

RootKey(r, l) == Key(script[r].node, [root |-> r, label |-> l, depth |-> 1])

\* The call of a label, in a goroutine of its own when MCall makes it.
RootCall(r, l) ==
  /\ roots[r].at = "collect" \/ script[r].mcall
  /\ script[r].node \notin crashed /\ RootKey(r, l) \notin DOMAIN frames
  /\ frames' = Added(frames, RootKey(r, l), NewFrame(script[r].calls[l], None))
  /\ UNCHANGED <<Config, roots, chains, Counters, Network, crashed, History>>

Complete(r, results) == DOMAIN results = DOMAIN script[r].calls

\* Somebody receives the result of a call: nobody does after the timeout of an
\* MCall, and its goroutine blocks.
Collect(r, l) ==
  LET results == Added(roots[r].results, l, frames[RootKey(r, l)].out)
  IN  /\ roots[r].at = "collect" /\ At(RootKey(r, l), "answered")
      /\ frames' = [frames EXCEPT ![RootKey(r, l)].at = "taken"]
      /\ roots' = [roots EXCEPT ![r] = [at |-> IF Complete(r, results) THEN "done" ELSE "collect",
                                        results |-> results]]
      /\ UNCHANGED <<Config, chains, Counters, Network, crashed, History>>

TimeoutError == [form |-> "raw", kind |-> "error", timeout |-> TRUE]

\* Mutant: only what has arrived is returned.
MCallTimeout_Partial(r) ==
  /\ script[r].mcall /\ roots[r].at = "collect" /\ script[r].node \notin crashed
  /\ roots' = [roots EXCEPT ![r].at = "done"]
  /\ UNCHANGED <<Config, frames, chains, Counters, Network, crashed, History>>

\* MCallTimeout: the calls that are missing fail.
MCallTimeout(r) ==
  /\ script[r].mcall /\ roots[r].at = "collect" /\ script[r].node \notin crashed
  /\ roots' = [roots EXCEPT ![r] =
       [at |-> "done",
        results |-> [l \in DOMAIN script[r].calls |-> IF l \in DOMAIN @.results THEN @.results[l]
                                                                              ELSE TimeoutError]]]
  /\ UNCHANGED <<Config, frames, chains, Counters, Network, crashed, History>>

-----------------------------------------------------------------------------
(* LoadBalanceCall: the entry *)

Entries(n, a) == (IF a \in Offers[n] THEN <<n>> ELSE <<>>) \o Known[n][a]
Remotes(f) == Known[f.node][frames[f].action]

\* With a node in the options, the first entry of that node.
NextFromNode(f) ==
  LET pin == frames[f].pin
  IN  /\ At(f, "select") /\ pin # None
      /\ pin \in ToSet(Entries(f.node, frames[f].action))
      /\ ToBefore(f, pin)
      /\ UNCHANGED <<Config, roots, Counters, Network, crashed, History>>

\* Otherwise an entry of this node, if there is one.
NextLocal(f) ==
  /\ At(f, "select") /\ frames[f].pin = None
  /\ frames[f].action \in Offers[f.node]
  /\ ToBefore(f, f.node)
  /\ UNCHANGED <<Config, roots, Counters, Network, crashed, History>>

EndpointNotFound(f) ==
  LET entries == ToSet(Entries(f.node, frames[f].action))
  IN  /\ At(f, "select")
      /\ IF frames[f].pin = None THEN entries = {} ELSE frames[f].pin \notin entries
      /\ Answer(f, New("error"))
      /\ UNCHANGED <<Config, roots, chains, Counters, Network, crashed, History>>

\* The strategy has to choose an entry of another node.
Strategic(f) ==
  /\ At(f, "select") /\ frames[f].pin = None
  /\ frames[f].action \notin Offers[f.node] /\ Remotes(f) # <<>>

SelectRandom(f) ==
  /\ Strategic(f) /\ strategy = "Random"
  /\ \E n \in ToSet(Remotes(f)) : ToBefore(f, n)
  /\ UNCHANGED <<Config, roots, Counters, Network, crashed, History>>

\* RoundRobinStrategy.Select reads and writes its counter in three steps.
SelectIncrement(f) ==
  /\ Strategic(f) /\ strategy = "RoundRobin"
  /\ counter' = [counter EXCEPT ![f.node] = @ + 1]
  /\ frames' = [frames EXCEPT ![f].at = "wrap"]
  /\ overlap' = IF Selecting(f.node) # {} THEN overlap \union {f.node} ELSE overlap
  /\ UNCHANGED <<Config, roots, chains, callsCount, Network, crashed, spans, ran, panicked>>

\* Mutant: the counter goes one too far.
SelectWrap_OffByOne(f) ==
  /\ At(f, "wrap")
  /\ counter' = [counter EXCEPT ![f.node] = IF @ > Len(Remotes(f)) THEN 0 ELSE @]
  /\ frames' = [frames EXCEPT ![f].at = "index"]
  /\ UNCHANGED <<Config, roots, chains, callsCount, Network, crashed, History>>

SelectWrap(f) ==
  /\ At(f, "wrap")
  /\ counter' = [counter EXCEPT ![f.node] = IF @ >= Len(Remotes(f)) THEN 0 ELSE @]
  /\ frames' = [frames EXCEPT ![f].at = "index"]
  /\ UNCHANGED <<Config, roots, chains, callsCount, Network, crashed, History>>

SelectIndex(f) ==
  /\ At(f, "index") /\ counter[f.node] < Len(Remotes(f))
  /\ ToBefore(f, Remotes(f)[counter[f.node] + 1])
  /\ UNCHANGED <<Config, roots, Counters, Network, crashed, History>>

\* Beyond the list: the panic is caught only in the goroutine of a local handler.
SelectPanics(f) ==
  /\ At(f, "index") /\ counter[f.node] >= Len(Remotes(f))
  /\ panicked' = panicked \union {f}
  /\ IF frames[f].from = None /\ f.id.depth > 1
     THEN /\ ToAfter([frames EXCEPT ![f].at = "taken"], Parent(f), New("error"))
          /\ ran' = ran \union {[at |-> Parent(f), out |-> New("error")]}
          /\ UNCHANGED crashed
     ELSE /\ crashed' = crashed \union {f.node}
          /\ UNCHANGED <<frames, chains, ran>>
  /\ UNCHANGED <<Config, roots, Counters, Network, spans, overlap>>

-----------------------------------------------------------------------------
(* CallHandlers *)

\* Mutant: the calls are counted to one more.
ShouldMetric_OffByOne(n) == callsCount[n] >= MetricsEvery

\* createShouldMetric, for a call that is traced.
ShouldMetric(n) == callsCount[n] + 1 >= MetricsEvery

\* An entry of another node comes without the schema of its action: only the node
\* that runs the handler finds errors.
Invalid(f) == IsLocal(f) /\ ~frames[f].params.valid

\* One handler of the chain runs and calls next.  Each call of next counts the
\* index of its closure up: a second one skips a handler.
RunHandler(f, hook) ==
  LET g == chains[<<f, hook>>]
      handler == Handlers(f, hook)[g.h]
      told == IF hook = "before" THEN "started" ELSE "finished"
      h == g.h + 1
  IN  /\ <<f, hook>> \in DOMAIN chains /\ g.at = "run" /\ f.node \notin crashed
      /\ chains' = [chains EXCEPT ![<<f, hook>>] =
           [h |-> h,
            val |-> IF handler = "validator" /\ Invalid(f) THEN "error" ELSE g.val,
            again |-> IF handler = "user" THEN h + 1 ELSE g.again,
            at |-> IF h > Len(Handlers(f, hook)) THEN "send" ELSE "run"]]
      /\ IF handler = "metrics"
         THEN /\ callsCount' = [callsCount EXCEPT ![f.node] = IF ShouldMetric(f.node) THEN 0
                                                                   ELSE @ + 1]
              /\ spans' = IF ShouldMetric(f.node) THEN [spans EXCEPT ![told] = @ \union {f}]
                          ELSE spans
         ELSE UNCHANGED <<callsCount, spans>>
      /\ UNCHANGED <<Config, roots, frames, counter, Network, crashed, ran, overlap, panicked>>

\* Mutant: an error of the validator is taken for a result to go on with.
Rejects_Nothing(val) == FALSE

\* A value that is not a context answers the call.
Rejects(val) == val = "error"

\* The last next sends its value on a channel without a buffer.  It is received
\* once: the chain of a second next blocks there for ever.
SendResult(f, hook) ==
  LET g == chains[<<f, hook>>]
  IN  /\ <<f, hook>> \in DOMAIN chains /\ g.at = "send" /\ At(f, hook)
      /\ chains' = [chains EXCEPT ![<<f, hook>>] =
           IF g.again = 0 THEN [@ EXCEPT !.at = "done"]
           ELSE [h |-> g.again, val |-> "context", again |-> 0,
                 at |-> IF g.again > Len(Handlers(f, hook)) THEN "send" ELSE "run"]]
      /\ IF hook = "after" THEN frames' = [frames EXCEPT ![f].at = "answered"]
         ELSE IF Rejects(g.val) THEN Answer(f, New("error"))
         ELSE frames' = [frames EXCEPT ![f].at = IF IsLocal(f) THEN "handler" ELSE "request"]
      /\ UNCHANGED <<Config, roots, Counters, Network, crashed, History>>

-----------------------------------------------------------------------------
(* The handler *)

Ends(f, out) ==
  /\ ran' = ran \union {[at |-> f, out |-> out]}
  /\ UNCHANGED <<Config, roots, Counters, Network, crashed, spans, overlap, panicked>>

\* Parameters that do not fit, and a panic, are an error of the action.
InvokeLocalAction(f) ==
  LET a == frames[f].action
      out == IF ~Takes(Signature[a], frames[f].params) \/ Result[a] = "panic"
             THEN New("error") ELSE Returned(Signature[a], New(Result[a]))
  IN  /\ At(f, "handler")
      /\ ~Takes(Signature[a], frames[f].params) \/ Subcall[a] = None
      /\ ToAfter(frames, f, out)
      /\ Ends(f, out)

\* A handler that calls another action, with the parameters that it got, on the
\* context that it got.
CallInHandler(f) ==
  LET a == frames[f].action
      call == [action |-> Subcall[a], pin |-> None, params |-> frames[f].params]
  IN  /\ At(f, "handler")
      /\ Takes(Signature[a], frames[f].params) /\ Subcall[a] # None
      /\ frames' = Added([frames EXCEPT ![f].at = "waiting"], Child(f), NewFrame(call, None))
      /\ UNCHANGED <<Config, roots, chains, Counters, Network, crashed, History>>

\* It returns the result it gets: a payload stays what it is.
HandlerReturns(f) ==
  LET out == Returned(Signature[frames[f].action], frames[Child(f)].out)
  IN  /\ At(f, "waiting") /\ At(Child(f), "answered")
      /\ ToAfter([frames EXCEPT ![Child(f)].at = "taken"], f, out)
      /\ Ends(f, out)

-----------------------------------------------------------------------------
(* Requests *)

\* The context as a map: the REQ.
RequestOf(f) ==
  [to |-> frames[f].entry, from |-> f.node, id |-> f.id,
   call |-> [action |-> frames[f].action, pin |-> None, params |-> frames[f].params]]

\* The target of the context is overwritten, also that of a REQ.
InvokeRemoteAction(f) ==
  /\ At(f, "request")
  /\ frames' = [frames EXCEPT ![f].target = frames[f].entry, ![f].at = "remote"]
  /\ reqs' = reqs \union {RequestOf(f)}
  /\ UNCHANGED <<Config, roots, chains, Counters, ress, crashed, History>>

\* requestHandler
TakeRequest(req) ==
  /\ req \in reqs /\ req.to \notin crashed
  /\ Serial => Serving(req.to) = {}
  /\ reqs' = reqs \ {req}
  /\ frames' = Added(frames, Key(req.to, req.id), NewFrame(req.call, req.from))
  /\ UNCHANGED <<Config, roots, chains, Counters, ress, crashed, History>>

\* The RES goes to the target of the context, whoever that is by now.
SendResponse(f) ==
  /\ At(f, "answered") /\ frames[f].from # None
  /\ ress' = ress \union {[to |-> frames[f].target, id |-> f.id, reply |-> Sent(frames[f].out)]}
  /\ frames' = [frames EXCEPT ![f].at = "sent"]
  /\ UNCHANGED <<Config, roots, chains, Counters, reqs, crashed, History>>

\* reponseHandler: nothing is pending under the id of a RES that comes late, or
\* to a node that did not ask.
TakeResponse(res) ==
  LET f == Key(res.to, res.id)
  IN  /\ res \in ress /\ res.to \notin crashed
      /\ ress' = ress \ {res}
      /\ IF At(f, "remote") THEN ToAfter(frames, f, Received(res.reply))
         ELSE UNCHANGED <<frames, chains>>
      /\ UNCHANGED <<Config, roots, Counters, reqs, crashed, History>>

\* Mutant: a request waits for as long as it takes.
Timeout_Never(f) == FALSE

Timeout(f) ==
  /\ At(f, "remote")
  /\ ToAfter(frames, f, New("error"))
  /\ UNCHANGED <<Config, roots, Counters, Network, crashed, History>>

-----------------------------------------------------------------------------
(* The specification *)

Init ==
  /\ script \in Scripts /\ strategy \in Strategies
  /\ roots = [r \in Roots |-> [at |-> IF script[r].calls = NoCalls THEN "done" ELSE "collect",
                               results |-> NoCalls]]
  /\ frames = NoCalls /\ chains = NoCalls
  /\ counter = [n \in Nodes |-> 0 - 1] /\ callsCount = [n \in Nodes |-> 0]
  /\ reqs = {} /\ ress = {} /\ crashed = {}
  /\ spans = [started |-> {}, finished |-> {}]
  /\ ran = {} /\ overlap = {} /\ panicked = {}

Step(f) ==
  \/ NextFromNode(f) \/ NextLocal(f) \/ EndpointNotFound(f) \/ SelectRandom(f)
  \/ SelectIncrement(f) \/ SelectWrap(f) \/ SelectIndex(f) \/ SelectPanics(f)
  \/ \E hook \in {"before", "after"} : RunHandler(f, hook) \/ SendResult(f, hook)
  \/ InvokeLocalAction(f) \/ CallInHandler(f) \/ HandlerReturns(f)
  \/ InvokeRemoteAction(f) \/ SendResponse(f) \/ Timeout(f)

Next ==
  \/ \E r \in Roots : MCallTimeout(r)
  \/ \E r \in Roots : \E l \in DOMAIN script[r].calls : RootCall(r, l) \/ Collect(r, l)
  \/ \E f \in DOMAIN frames : Step(f)
  \/ \E req \in reqs : TakeRequest(req)
  \/ \E res \in ress : TakeResponse(res)

\* Goroutines go on, messages arrive and timers fire.  A behaviour of a script is
\* finite, so that weak fairness of Next is that of each of its steps.
Spec == Init /\ [][Next]_callVars /\ WF_callVars(Next)

-----------------------------------------------------------------------------
(* Properties *)

TypeOK ==
  /\ roots \in [Roots -> [at : {"collect", "done"}, results : UNION
                    {[ls -> Payload \union {TimeoutError}] : ls \in SUBSET Labels}]]
  /\ \A f \in DOMAIN frames :
       /\ frames[f].at \in {"select", "wrap", "index", "before", "handler", "waiting", "request",
                            "remote", "after", "answered", "sent", "taken"}
       /\ frames[f].out \in Payload \union {None}
       /\ {frames[f].target, frames[f].from, frames[f].entry} \subseteq Nodes \union {None}
  /\ \A c \in DOMAIN chains : chains[c].at \in {"run", "send", "done"}
  /\ crashed \subseteq Nodes

\* What a caller may see of the result of a handler: reference for the
\* conversions on the way.
Fits(result, answer) ==
  \/ answer = result
  \/ result = "function" /\ answer = "nothing"

\* A result that is not an error is that of the handler of this very call, as far
\* as JSON holds it, on whichever node it ran and however late the others are
\* (registry.go:259, pubsub.go:465, payload.go:26, jsonSerializer.go:571).
AnswersFit ==
  \A f \in DOMAIN frames :
    frames[f].out # None /\ frames[f].out.kind # "error"
      => \E end \in ran : end.at.id = f.id /\ Fits(end.out.kind, frames[f].out.kind)

\* No handler runs with parameters that fail the schema of its action, whatever a
\* middleware before the validator does with next, and though the node of the
\* caller cannot tell (middleware.go:51, base.go:49, registry.go:456).
OnlyValidCallsRun == \A end \in ran : frames[end.at].params.valid

\* MCall returns a result for each label: that of its call, or the error of the
\* timeout (main.go:382).
MCallsAnswerAll ==
  \A r \in Roots : roots[r].at = "done" =>
    /\ DOMAIN roots[r].results = DOMAIN script[r].calls
    /\ \A l \in DOMAIN roots[r].results :
         \/ roots[r].results[l] = TimeoutError /\ script[r].mcall
         \/ roots[r].results[l] = frames[RootKey(r, l)].out

\* With all calls measured, the span of every handler that ran is started and
\* finished when its call is answered: the counter that the hooks before and after
\* share does not confuse them (metrics.go:64).
SpansMatch ==
  MetricsEvery = 1 =>
    \A end \in ran : frames[end.at].at \in {"answered", "sent", "taken"}
      => end.at \in spans.started /\ end.at \in spans.finished

\* The round robin goes beyond its list only where two selections overlapped: lists
\* of different length one after the other are no harm (round-robin.go:12).
PanicsNeedOverlap == {f.node : f \in panicked} \union crashed \subseteq overlap

\* Every caller gets its answer, unless its process ended: also when a chain of
\* calls waits behind itself in the consumer of a node (amqp.go:379), or when its
\* RES was sent to another node (pubsub.go:465).
CallsEnd == \A r \in Roots : <>(roots[r].at = "done" \/ script[r].node \in crashed)
=============================================================================
