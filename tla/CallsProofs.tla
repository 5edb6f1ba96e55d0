----------------------------- MODULE CallsProofs -----------------------------
(***************************************************************************)
(* Proofs about Calls, for any scripts, catalogs, handlers and numbers of  *)
(* nodes, serial or not, with or without a middleware that calls next      *)
(* twice: answers belong to their call, only valid calls run, MCall        *)
(* answers all, spans match, and the strategy panics only where two        *)
(* selections overlapped.                                                  *)
(***************************************************************************)
EXTENDS Calls, TLAPS

Ids == [root : Roots, label : Labels, depth : Nat \ {0}]
Keys == [node : Nodes, id : Ids]
Stages == {"select", "wrap", "index", "before", "handler", "waiting", "request", "remote",
           "after", "answered", "sent", "taken"}
Frame == [action : Actions, pin : Nodes \union {None}, params : Params,
          from : Nodes \union {None}, target : Nodes \union {None}, entry : Nodes \union {None},
          at : Stages, out : Payload \union {None}]
Chain == [h : Nat, val : {"context", "error"}, again : Nat, at : {"run", "send", "done"}]
Hooks == {"before", "after"}

Typed ==
  /\ script \in Scripts /\ DOMAIN roots = Roots
  /\ DOMAIN frames \subseteq Keys /\ frames \in [DOMAIN frames -> Frame]
  /\ DOMAIN chains \subseteq (DOMAIN frames) \X Hooks /\ chains \in [DOMAIN chains -> Chain]
  /\ counter \in [Nodes -> Int] /\ callsCount \in [Nodes -> Nat]
  /\ spans \in [started : SUBSET Keys, finished : SUBSET Keys]
  /\ reqs \subseteq [to : Nodes, from : Nodes, id : Ids, call : Call]
  /\ ress \subseteq [to : Nodes \union {None}, id : Ids, reply : Replies]
  /\ ran \subseteq [at : DOMAIN frames, out : Payload]

\* The goroutine that waits for a call in a handler is that handler's.
Waiting ==
  \A f \in DOMAIN frames :
    frames[f].from = None /\ f.id.depth > 1 /\ frames[f].at # "taken"
      => Parent(f) \in DOMAIN frames /\ frames[Parent(f)].at = "waiting"

Measured(f, told) == MetricsEvery = 1 => f \in spans[told]

\* A frame meets the chain of each hook once, and leaves it by the value that the
\* first pass through it sends: the validator is the last handler, the metrics of a
\* handler of this node are the one before.
BeforeChain(f) ==
  LET g == chains[<<f, "before">>]
      last == Len(Handlers(f, "before"))
  IN  /\ g.at = "run" => g.h \in 1..last
      /\ g.at = "send" /\ Invalid(f) => g.val = "error"
      /\ IsLocal(f) /\ (g.at = "send" \/ g.h = last) => Measured(f, "started")

AfterChain(f) ==
  LET g == chains[<<f, "after">>]
  IN  /\ g.at = "run" => g.h = 1
      /\ g.at = "send" => Measured(f, "finished")

Chained ==
  \A f \in DOMAIN frames :
    /\ frames[f].at \in {"select", "wrap", "index"} => <<f, "before">> \notin DOMAIN chains
    /\ <<f, "after">> \in DOMAIN chains => frames[f].at \in {"after", "answered", "sent", "taken"}
    /\ frames[f].at = "before" /\ <<f, "before">> \in DOMAIN chains => BeforeChain(f)
    /\ frames[f].at = "after" /\ <<f, "after">> \in DOMAIN chains => AfterChain(f)

\* Who is in a handler has passed its validator and its metrics.
Handling ==
  \A f \in DOMAIN frames :
    /\ frames[f].at \in {"handler", "waiting"}
         => IsLocal(f) /\ frames[f].params.valid /\ Measured(f, "started")
    /\ frames[f].at = "after" => IsLocal(f)
    /\ frames[f].at \in {"before", "request"} => frames[f].entry \in Nodes
    /\ frames[f].at \in {"after", "answered", "sent"} => frames[f].out \in Payload

\* What ran stays measured.
Ran ==
  \A end \in ran :
    /\ frames[end.at].params.valid /\ IsLocal(end.at) /\ Measured(end.at, "started")
    /\ frames[end.at].at \in {"after", "answered", "sent", "taken"}
    /\ frames[end.at].at # "after" => Measured(end.at, "finished")

Answered(id, kind) == \E end \in ran : end.at.id = id /\ Fits(end.out.kind, kind)

\* Every result on its way is that of a handler.
Answers ==
  /\ \A f \in DOMAIN frames : frames[f].out # None /\ frames[f].out.kind # "error"
       => Answered(f.id, frames[f].out.kind)
  /\ \A res \in ress : Received(res.reply).kind # "error"
       => Answered(res.id, Received(res.reply).kind)

\* The counter is -1 before the first selection only.  Without an overlap, one frame
\* of a node selects, and its index is in its list.
Selection ==
  /\ \A n \in Nodes : counter[n] >= 0 - 1
  /\ \A f \in DOMAIN frames : frames[f].at \in {"wrap", "index"}
       => Remotes(f) # <<>> /\ counter[f.node] >= 0
  /\ \A f, g \in DOMAIN frames :
       /\ f.node = g.node /\ f.node \notin overlap
       /\ frames[f].at \in {"wrap", "index"} /\ frames[g].at \in {"wrap", "index"}
       => f = g
  /\ \A f \in DOMAIN frames : frames[f].at = "index" /\ f.node \notin overlap
       => counter[f.node] < Len(Remotes(f))
  /\ PanicsNeedOverlap

\* The result of a label is that of its call, which nobody changes any more.
Collected ==
  \A r \in Roots :
    /\ DOMAIN roots[r].results \subseteq DOMAIN script[r].calls
    /\ roots[r].at = "done" => DOMAIN roots[r].results = DOMAIN script[r].calls
    /\ \A l \in DOMAIN roots[r].results :
         \/ roots[r].at = "done" /\ roots[r].results[l] = TimeoutError /\ script[r].mcall
         \/ /\ RootKey(r, l) \in DOMAIN frames /\ frames[RootKey(r, l)].at = "taken"
            /\ roots[r].results[l] = frames[RootKey(r, l)].out

IInv ==
  Typed /\ Waiting /\ Chained /\ Handling /\ Ran /\ Answers /\ Selection /\ Collected

-----------------------------------------------------------------------------
(* The operators *)

\* The keys of the calls a handler makes.
LEMMA Children ==
  ASSUME NEW f \in Keys
  PROVE  /\ Child(f) \in Keys /\ Child(f) # f /\ Parent(Child(f)) = f
         /\ Child(f).id.depth = f.id.depth + 1 /\ Child(f).node = f.node
         /\ Parent(f) # f /\ Parent(f).node = f.node
         /\ Child(Parent(f)) = f
<1>1. PICK n \in Nodes, r \in Roots, l \in Labels, d \in Nat \ {0} :
        f = [node |-> n, id |-> [root |-> r, label |-> l, depth |-> d]]
  BY DEF Keys, Ids
<1>2. ASSUME NEW e, NEW x \in Int, e = [node |-> n, id |-> [root |-> r, label |-> l, depth |-> x]]
      PROVE  /\ Child(e) = [node |-> n, id |-> [root |-> r, label |-> l, depth |-> x + 1]]
             /\ Parent(e) = [node |-> n, id |-> [root |-> r, label |-> l, depth |-> x - 1]]
  BY <1>2 DEF Child, Parent
<1>3. /\ Child(f) = [node |-> n, id |-> [root |-> r, label |-> l, depth |-> d + 1]]
      /\ Parent(f) = [node |-> n, id |-> [root |-> r, label |-> l, depth |-> d - 1]]
  BY <1>1, <1>2
<1>4. /\ Parent(Child(f)) = [node |-> n, id |-> [root |-> r, label |-> l, depth |-> d + 1 - 1]]
      /\ Child(Parent(f)) = [node |-> n, id |-> [root |-> r, label |-> l, depth |-> d - 1 + 1]]
  BY <1>2, <1>3
<1>5. d + 1 - 1 = d /\ d - 1 + 1 = d /\ d + 1 # d /\ d - 1 # d /\ d + 1 \in Nat \ {0}
  OBVIOUS
<1>6. QED
  BY <1>1, <1>5, <1>3, <1>4 DEF Keys, Ids

\* The chains: the validator comes last before a call, the metrics before it.
ChainsOf(f) ==
  /\ Handlers(f, "after") = IF IsLocal(f) THEN <<"metrics">> ELSE <<>>
  /\ Len(Handlers(f, "before")) \in Nat \ {0}
  /\ Handlers(f, "before")[Len(Handlers(f, "before"))] = "validator"
  /\ IsLocal(f) => /\ Len(Handlers(f, "before")) > 1
                   /\ Handlers(f, "before")[Len(Handlers(f, "before")) - 1] = "metrics"

\* Every frame has these chains.
LEMMA HandlersAre == \A f : ChainsOf(f)
<1>1. SUFFICES ASSUME NEW f PROVE ChainsOf(f)
  OBVIOUS
<1>2. CASE ~IsLocal(f)
  <2>1. Handlers(f, "before") = <<>> \o <<>> \o <<"validator">>
    BY <1>2 DEF Handlers
  <2>2. QED
    BY <1>2, <2>1 DEF Handlers, ChainsOf
<1>3. CASE IsLocal(f) /\ NextTwice
  <2>1. Handlers(f, "before") = <<"user">> \o <<"metrics">> \o <<"validator">>
    BY <1>3 DEF Handlers
  <2>2. QED
    BY <1>3, <2>1 DEF Handlers, ChainsOf
<1>4. CASE IsLocal(f) /\ ~NextTwice
  <2>1. Handlers(f, "before") = <<>> \o <<"metrics">> \o <<"validator">>
    BY <1>4 DEF Handlers
  <2>2. QED
    BY <1>4, <2>1 DEF Handlers, ChainsOf
<1>5. QED
  BY <1>2, <1>3, <1>4

\* And it has them after a step.
LEMMA HandlersStay == \A f : ChainsOf(f)'
<1>1. (\A f : ChainsOf(f))'
  BY HandlersAre, PTL
<1>2. QED
  BY <1>1

\* JSON and the wire keep what fits, or make an error of it.
LEMMA WireFits ==
  ASSUME NEW p \in Payload, NEW kind, Fits(kind, p.kind)
  PROVE  /\ Sent(p) \in Replies /\ Received(Sent(p)) \in Payload
         /\ Received(Sent(p)).kind # "error" => ~IsError(p) /\ Fits(kind, Received(Sent(p)).kind)
BY DEF Payload, Kinds, Sent, Received, Replies, Fits, IsError, New, Json

\* The results are payloads.
LEMMA Results ==
  /\ \A s \in Signatures, p \in Payload : Returned(s, p) \in Payload
  /\ \A k \in Kinds : New(k) \in Payload /\ New(k).kind = k
  /\ \A reply \in Replies : Received(reply) \in Payload
  /\ \A p \in Payload : Sent(p) \in Replies
  /\ \A k \in Kinds : Fits(k, k)
BY DEF Signatures, Returned, Payload, New, Received, Replies, Json, Kinds, Fits, Sent

\* A function with one value more.
LEMMA Adds ==
  /\ \A F, x, v : DOMAIN Added(F, x, v) = DOMAIN F \union {x}
  /\ \A F, x, v, y : y \in DOMAIN F => Added(F, x, v)[y] = F[y]
  /\ \A F, x, v : x \notin DOMAIN F => Added(F, x, v)[x] = v
BY DEF Added

\* A frame that changes in its entry, its target, its stage and its result only.
Move(f, entry, target, at, out) ==
  /\ DOMAIN frames' = DOMAIN frames /\ frames' \in [DOMAIN frames -> Frame]
  /\ \A g \in DOMAIN frames : g # f => frames'[g] = frames[g]
  /\ frames'[f].action = frames[f].action /\ frames'[f].pin = frames[f].pin
  /\ frames'[f].params = frames[f].params /\ frames'[f].from = frames[f].from
  /\ frames'[f].entry = entry /\ frames'[f].target = target
  /\ frames'[f].at = at /\ frames'[f].out = out

\* Frames, messages and results that stay.
LEMMA WaitingKept ==
  ASSUME Waiting, DOMAIN frames' = DOMAIN frames,
         \A g \in DOMAIN frames :
           /\ frames'[g].from = frames[g].from
           /\ frames[g].at = "waiting" => frames'[g].at = "waiting"
           /\ frames[g].at = "taken" => frames'[g].at = "taken"
  PROVE  Waiting'
BY DEF Waiting, Parent

\* A chain whose frame stays keeps what it has decided.
LEMMA ChainKept ==
  ASSUME NEW g, frames'[g].entry = frames[g].entry, frames'[g].params = frames[g].params,
         UNCHANGED spans
  PROVE  /\ chains'[<<g, "before">>] = chains[<<g, "before">>] /\ BeforeChain(g) => BeforeChain(g)'
         /\ chains'[<<g, "after">>] = chains[<<g, "after">>] /\ AfterChain(g) => AfterChain(g)'
<1>1. (IsLocal(g)' <=> IsLocal(g)) /\ (Invalid(g)' <=> Invalid(g))
  BY DEF IsLocal, Invalid
<1>2. Handlers(g, "before")' = Handlers(g, "before")
  BY <1>1 DEF Handlers
<1>3. QED
  BY <1>1, <1>2 DEF BeforeChain, AfterChain, Measured

\* Results that nobody touches stay those of taken frames.
LEMMA CollectedKept ==
  ASSUME Collected, UNCHANGED <<roots, script>>, DOMAIN frames \subseteq DOMAIN frames',
         \A g \in DOMAIN frames : frames[g].at = "taken"
           => frames'[g].at = "taken" /\ frames'[g].out = frames[g].out
  PROVE  Collected'
BY DEF Collected, RootKey, Key

\* An answer on its way stays the one of a handler that ran.
LEMMA AnswersKept ==
  ASSUME Answers, ran \subseteq ran',
         \A res \in ress' \ ress : Received(res.reply).kind # "error"
           => Answered(res.id, Received(res.reply).kind)',
         \A g \in DOMAIN frames' :
           \/ frames'[g].out = None \/ frames'[g].out.kind = "error"
           \/ g \in DOMAIN frames /\ frames'[g].out = frames[g].out
           \/ Answered(g.id, frames[g].out.kind)'
  PROVE  Answers'
<1>1. \A g \in DOMAIN frames' : frames'[g].out # None /\ frames'[g].out.kind # "error"
        => Answered(g.id, frames[g].out.kind)'
  BY DEF Answers, Answered
<1>2. \A res \in ress' : Received(res.reply).kind # "error"
        => Answered(res.id, Received(res.reply).kind)'
  BY DEF Answers, Answered
<1>3. QED
  BY <1>1, <1>2 DEF Answers, Answered

-----------------------------------------------------------------------------
(* The steps *)

\* A frame for a root call or for a REQ, unless there is one under its key.
LEMMA FrameOpens ==
  ASSUME IInv, NEW key \in Keys, NEW call \in Call, NEW from \in Nodes \union {None},
         from = None => key.id.depth = 1,
         frames' = Added(frames, key, NewFrame(call, from)), reqs' \subseteq reqs,
         UNCHANGED <<script, roots, chains, Counters, ress, crashed, History>>
  PROVE  IInv'
<1> USE DEF IInv
<1>1. NewFrame(call, from) \in Frame
  BY DEF NewFrame, Call, Frame, Stages
<1>2. /\ DOMAIN frames' = DOMAIN frames \union {key}
      /\ \A g \in DOMAIN frames : frames'[g] = frames[g]
      /\ key \notin DOMAIN frames => frames'[key] = NewFrame(call, from)
      /\ frames' \in [DOMAIN frames' -> Frame]
  <2>1. Added(frames, key, NewFrame(call, from)) \in [DOMAIN frames \union {key} -> Frame]
    <3>1. frames \in [DOMAIN frames -> Frame]
      BY DEF Typed
    <3>2. QED
      BY <1>1, <3>1 DEF Added
  <2>2. QED
    BY <2>1, Adds
<1>3. NewFrame(call, from).at = "select" /\ NewFrame(call, from).from = from
      /\ NewFrame(call, from).out = None
  BY DEF NewFrame
<1>4. Typed'
  BY <1>2 DEF Typed, Counters, History
<1>5. Waiting'
  BY <1>2, <1>3 DEF Waiting, Parent
<1>6. key \notin DOMAIN frames => \A hook : <<key, hook>> \notin DOMAIN chains
  BY DEF Typed
<1>7. Chained'
  <2>1. \A g \in DOMAIN frames :
          (BeforeChain(g) => BeforeChain(g)') /\ (AfterChain(g) => AfterChain(g)')
    BY <1>2, ChainKept DEF History
  <2>2. QED
    BY <1>2, <1>3, <1>6, <2>1 DEF Chained
<1>8. Handling'
  BY <1>2, <1>3 DEF Handling, IsLocal, Measured, History
<1>9. Ran'
  BY <1>2 DEF Ran, Typed, IsLocal, Measured, History
<1>10. Answers'
  BY <1>2, <1>3, AnswersKept DEF History
<1>11. Selection'
  BY <1>2, <1>3 DEF Selection, Remotes, PanicsNeedOverlap, History, Counters
<1>12. Collected'
  BY <1>2, CollectedKept
<1>13. QED
  BY <1>4, <1>5, <1>7, <1>8, <1>9, <1>10, <1>11, <1>12

\* An entry was chosen, and the chain of its hooks starts.
LEMMA EntryChosen ==
  ASSUME IInv, NEW f \in DOMAIN frames, NEW entry \in Nodes,
         frames[f].at \in {"select", "index"}, ToBefore(f, entry),
         UNCHANGED <<script, roots, Counters, Network, crashed, History>>
  PROVE  IInv'
<1> USE DEF IInv
<1>1. Move(f, entry, frames[f].target, "before", frames[f].out)
  <2>1. frames \in [DOMAIN frames -> Frame]
    BY DEF Typed
  <2>2. frames' = [frames EXCEPT ![f].entry = entry, ![f].at = "before"]
    BY DEF ToBefore
  <2>3. QED
    BY <2>1, <2>2 DEF Move, Frame, Stages
<1>2. /\ <<f, "before">> \notin DOMAIN chains
      /\ DOMAIN chains' = DOMAIN chains \union {<<f, "before">>}
      /\ \A c \in DOMAIN chains : chains'[c] = chains[c]
      /\ chains'[<<f, "before">>] = NewChain
      /\ chains' \in [DOMAIN chains' -> Chain]
  <2>1. <<f, "before">> \notin DOMAIN chains
    BY DEF Chained
  <2>2. chains' = Added(chains, <<f, "before">>, NewChain) /\ NewChain \in Chain
    BY DEF ToBefore, NewChain, Chain
  <2>3. chains \in [DOMAIN chains -> Chain]
    BY DEF Typed
  <2>4. Added(chains, <<f, "before">>, NewChain) \in [DOMAIN chains \union {<<f, "before">>} -> Chain]
    BY <2>2, <2>3 DEF Added
  <2>5. QED
    BY <2>1, <2>2, <2>4, Adds
<1>3. Typed'
  BY <1>1, <1>2 DEF Move, Typed, Counters, Network, History, Hooks
<1>4. Waiting'
  BY <1>1, WaitingKept DEF Move
<1>5. BeforeChain(f)'
  <2>1. chains'[<<f, "before">>] = [h |-> 1, val |-> "context", again |-> 0, at |-> "run"]
    BY <1>2 DEF NewChain
  <2>2. /\ Len(Handlers(f, "before")') \in Nat \ {0}
        /\ IsLocal(f)' => Len(Handlers(f, "before")') > 1
    BY HandlersStay DEF ChainsOf
  <2>3. QED
    BY <2>1, <2>2 DEF BeforeChain
<1>6. Chained'
  <2>1. \A g \in DOMAIN frames : g # f =>
          /\ <<g, "before">> \in DOMAIN chains /\ BeforeChain(g) => BeforeChain(g)'
          /\ <<g, "after">> \in DOMAIN chains /\ AfterChain(g) => AfterChain(g)'
    BY <1>1, <1>2, ChainKept DEF Move, History
  <2>2. \A g \in DOMAIN frames :
          /\ g # f => frames'[g] = frames[g]
          /\ <<g, "after">> \in DOMAIN chains' => <<g, "after">> \in DOMAIN chains
          /\ g # f /\ <<g, "before">> \in DOMAIN chains' => <<g, "before">> \in DOMAIN chains
    BY <1>1, <1>2 DEF Move
  <2>3. DOMAIN frames' = DOMAIN frames /\ frames'[f].at = "before"
    BY <1>1 DEF Move
  <2>4. QED
    BY <1>5, <2>1, <2>2, <2>3 DEF Chained
<1>7. Handling'
  BY <1>1 DEF Move, Handling, IsLocal, Measured, History
<1>8. Ran'
  BY <1>1 DEF Move, Ran, Typed, IsLocal, Measured, History
<1>9. Answers'
  BY <1>1, AnswersKept DEF Move, History, Network
<1>10. Selection'
  BY <1>1 DEF Move, Selection, Remotes, PanicsNeedOverlap, History, Counters
<1>11. Collected'
  BY <1>1, CollectedKept DEF Move
<1>12. QED
  BY <1>3, <1>4, <1>6, <1>7, <1>8, <1>9, <1>10, <1>11

\* A frame that moves on without hooks: an error, the strategy, a REQ, a RES.
LEMMA FrameMoves ==
  ASSUME IInv, NEW f \in DOMAIN frames, NEW target, NEW at, NEW out,
         Move(f, frames[f].entry, target, at, out),
         \/ frames[f].at = "select" /\ at = "answered" /\ out = New("error")
         \/ /\ out = frames[f].out
            /\ \/ frames[f].at = "select" /\ at = "wrap"
               \/ frames[f].at = "wrap" /\ at = "index"
               \/ frames[f].at = "request" /\ at = "remote"
               \/ frames[f].at = "answered" /\ at = "sent",
         UNCHANGED <<script, roots, chains, spans, ran>>, Typed', Selection',
         \A res \in ress' \ ress : Received(res.reply).kind # "error"
           => Answered(res.id, Received(res.reply).kind)'
  PROVE  IInv'
<1> USE DEF IInv
<1>1. Waiting'
  BY WaitingKept DEF Move
<1>2. Chained'
  <2>1. \A g \in DOMAIN frames :
          (BeforeChain(g) => BeforeChain(g)') /\ (AfterChain(g) => AfterChain(g)')
    BY ChainKept DEF Move
  <2>2. QED
    BY <2>1 DEF Chained, Move
<1>3. Handling'
  BY Results DEF Move, Handling, IsLocal, Measured, Kinds
<1>4. Ran'
  BY DEF Move, Ran, Typed, IsLocal, Measured
<1>5. Answers'
  BY AnswersKept DEF Move, New
<1>6. Collected'
  BY CollectedKept DEF Move
<1>7. QED
  BY <1>1, <1>2, <1>3, <1>4, <1>5, <1>6

\* A step that selects nothing disturbs no selection.
LEMMA SelectionKept ==
  ASSUME Selection, UNCHANGED <<counter, overlap, crashed>>,
         \A g \in panicked' : g \in panicked \/ g.node \in overlap,
         \A g \in DOMAIN frames' : frames'[g].at \in {"wrap", "index"} =>
           /\ g \in DOMAIN frames /\ frames'[g].at = frames[g].at
           /\ frames'[g].action = frames[g].action
  PROVE  Selection'
BY DEF Selection, Remotes, PanicsNeedOverlap

\* No entry for the action, or none on the pinned node.
LEMMA EndpointNotFoundStep ==
  ASSUME IInv, NEW f \in DOMAIN frames, EndpointNotFound(f)
  PROVE  IInv'
<1> USE DEF IInv
<1>1. frames[f].at = "select"
  BY DEF EndpointNotFound, At
<1>2. Move(f, frames[f].entry, frames[f].target, "answered", New("error"))
  <2>1. frames \in [DOMAIN frames -> Frame]
    BY DEF Typed
  <2>2. frames' = [frames EXCEPT ![f].out = New("error"), ![f].at = "answered"]
    BY DEF EndpointNotFound, Answer
  <2>3. QED
    BY <2>1, <2>2, Results DEF Move, Frame, Stages, Kinds
<1>3. Typed'
  BY <1>2 DEF EndpointNotFound, Typed, Move, Config, Counters, Network, History
<1>4. Selection'
  BY <1>2, SelectionKept DEF Move, EndpointNotFound, Counters, History
<1>5. QED
  BY <1>1, <1>2, <1>3, <1>4, FrameMoves DEF EndpointNotFound, Config, Network, History

\* The strategy increments its counter.
LEMMA SelectIncrementStep ==
  ASSUME IInv, NEW f \in DOMAIN frames, SelectIncrement(f)
  PROVE  IInv'
<1> USE DEF IInv
<1>1. frames[f].at = "select" /\ Remotes(f) # <<>>
  BY DEF SelectIncrement, Strategic, At
<1>2. Move(f, frames[f].entry, frames[f].target, "wrap", frames[f].out)
  <2>1. frames \in [DOMAIN frames -> Frame]
    BY DEF Typed
  <2>2. frames' = [frames EXCEPT ![f].at = "wrap"]
    BY DEF SelectIncrement
  <2>3. QED
    BY <2>1, <2>2 DEF Move, Frame, Stages
<1>3. /\ counter' \in [Nodes -> Int] /\ f.node \in Nodes
      /\ \A n \in Nodes : counter'[n] = IF n = f.node THEN counter[n] + 1 ELSE counter[n]
      /\ \A n \in Nodes : counter[n] \in Int
  <2>1. counter \in [Nodes -> Int] /\ f.node \in Nodes
    BY DEF Typed, Keys
  <2>2. QED
    BY <2>1 DEF SelectIncrement
<1>4. Selection'
  <2>1. \A g \in DOMAIN frames : g.node \in Nodes /\ Remotes(g)' = Remotes(g)
    BY <1>2 DEF Typed, Keys, Move, Remotes
  <2>2. \A n \in Nodes : counter'[n] >= 0 - 1
    BY <1>3 DEF Selection
  <2>3. \A g \in DOMAIN frames' : frames'[g].at \in {"wrap", "index"}
          => Remotes(g)' # <<>> /\ counter'[g.node] >= 0
    BY <1>1, <1>2, <1>3, <2>1 DEF Selection, Move
  <2>4. overlap' = IF Selecting(f.node) # {} THEN overlap \union {f.node} ELSE overlap
    BY DEF SelectIncrement
  <2>5. \A g, k \in DOMAIN frames' :
          /\ g.node = k.node /\ g.node \notin overlap'
          /\ frames'[g].at \in {"wrap", "index"} /\ frames'[k].at \in {"wrap", "index"}
          => g = k
    BY <1>2, <2>4 DEF Selection, Selecting, Move
  <2>6. \A g \in DOMAIN frames' : frames'[g].at = "index" /\ g.node \notin overlap'
          => counter'[g.node] < Len(Remotes(g)')
    BY <1>2, <1>3, <2>1, <2>4 DEF Selection, Selecting, Move
  <2>7. PanicsNeedOverlap'
    BY <2>4 DEF Selection, PanicsNeedOverlap, SelectIncrement
  <2>8. QED
    BY <2>2, <2>3, <2>5, <2>6, <2>7 DEF Selection
<1>5. Typed'
  BY <1>2, <1>3 DEF SelectIncrement, Typed, Move, Config, Network
<1>6. QED
  BY <1>1, <1>2, <1>4, <1>5, FrameMoves DEF SelectIncrement, Config, Network

\* The strategy returns to the start of the list.
LEMMA SelectWrapStep ==
  ASSUME IInv, NEW f \in DOMAIN frames, SelectWrap(f)
  PROVE  IInv'
<1> USE DEF IInv
<1>1. frames[f].at = "wrap" /\ Remotes(f) \in Seq(Nodes) /\ Remotes(f) # <<>>
  <2>1. frames[f].at = "wrap"
    BY DEF SelectWrap, At
  <2>2. f.node \in Nodes /\ frames[f].action \in Actions
    BY DEF Typed, Keys, Frame
  <2>3. QED
    BY <2>1, <2>2, CatalogAssumption DEF Selection, Remotes
<1>2. Move(f, frames[f].entry, frames[f].target, "index", frames[f].out)
  <2>1. frames \in [DOMAIN frames -> Frame]
    BY DEF Typed
  <2>2. frames' = [frames EXCEPT ![f].at = "index"]
    BY DEF SelectWrap
  <2>3. QED
    BY <2>1, <2>2 DEF Move, Frame, Stages
<1>3. counter' \in [Nodes -> Int] /\ counter'[f.node] < Len(Remotes(f)) /\ counter'[f.node] >= 0
      /\ \A n \in Nodes : n # f.node => counter'[n] = counter[n]
  <2>1. /\ f.node \in Nodes /\ counter \in [Nodes -> Int] /\ Len(Remotes(f)) \in Nat \ {0}
        /\ counter[f.node] >= 0
    BY <1>1 DEF Typed, Keys, Selection
  <2>2. QED
    BY <2>1 DEF SelectWrap
<1>4. Typed'
  BY <1>2, <1>3 DEF SelectWrap, Typed, Move, Config, Network, History
<1>5. Selection'
  <2>1. \A g \in DOMAIN frames : g.node \in Nodes /\ Remotes(g)' = Remotes(g)
    BY <1>2 DEF Typed, Keys, Move, Remotes
  <2>2. QED
    BY <1>1, <1>2, <1>3, <2>1 DEF SelectWrap, Move, Selection, PanicsNeedOverlap, History
<1>6. QED
  BY <1>1, <1>2, <1>4, <1>5, FrameMoves DEF SelectWrap, Config, Network, History

\* A panic in a goroutine that nobody recovers ends the process.
LEMMA SelectPanicsStep ==
  ASSUME IInv, NEW f \in DOMAIN frames, SelectPanics(f), crashed' = crashed \union {f.node},
         UNCHANGED <<frames, chains, ran>>
  PROVE  IInv'
<1> USE DEF IInv
<1>1. f.node \in overlap
  <2>1. frames[f].at = "index" /\ counter[f.node] >= Len(Remotes(f))
    BY DEF SelectPanics, At
  <2>2. f.node \in Nodes /\ frames[f].action \in Actions /\ counter \in [Nodes -> Int]
    BY DEF Typed, Keys, Frame
  <2>3. Len(Remotes(f)) \in Nat /\ counter[f.node] \in Int
    BY <2>2, CatalogAssumption DEF Remotes
  <2>4. QED
    BY <2>1, <2>3 DEF Selection
<1>2. Selection'
  BY <1>1 DEF SelectPanics, Selection, Remotes, PanicsNeedOverlap, Counters
<1>3. Typed'
  BY DEF SelectPanics, Typed, Config, Counters, Network
<1>4. Waiting'
  BY DEF Waiting, Parent
<1>5. Chained'
  BY ChainKept DEF Chained, SelectPanics
<1>6. Handling' /\ Ran'
  BY DEF Handling, Ran, SelectPanics, IsLocal, Measured
<1>7. Answers'
  BY AnswersKept DEF SelectPanics, Network
<1>8. Collected'
  BY CollectedKept DEF SelectPanics, Config
<1>9. QED
  BY <1>2, <1>3, <1>4, <1>5, <1>6, <1>7, <1>8

\* The timeout of an MCall answers the labels that are missing.
LEMMA MCallTimeoutStep ==
  ASSUME IInv, NEW r \in Roots, MCallTimeout(r)
  PROVE  IInv'
<1> USE DEF IInv
<1>1. UNCHANGED <<Config, frames, chains, Counters, Network, crashed, History>>
  BY DEF MCallTimeout
<1>2. Typed'
  BY <1>1 DEF MCallTimeout, Typed, Config, Counters, Network, History
<1>3. Waiting' /\ Handling' /\ Ran'
  BY <1>1 DEF Waiting, Parent, Handling, Ran, IsLocal, Measured, History
<1>4. Chained'
  BY <1>1, ChainKept DEF Chained, History
<1>5. Answers'
  BY <1>1, AnswersKept DEF History, Network
<1>6. Selection'
  BY <1>1, SelectionKept DEF Counters, History
<1>7. Collected'
  <2> DEFINE calls == script[r].calls
             results == [l \in DOMAIN calls |-> IF l \in DOMAIN roots[r].results
                                                 THEN roots[r].results[l] ELSE TimeoutError]
  <2>1. /\ DOMAIN roots = Roots /\ script' = script /\ script[r].mcall
        /\ roots' = [roots EXCEPT ![r] = [at |-> "done", results |-> results]]
    BY <1>1 DEF MCallTimeout, Typed, Config
  <2>2. /\ roots'[r].at = "done" /\ roots'[r].results = results
        /\ \A q \in Roots : q # r => roots'[q] = roots[q]
    BY <2>1
  <2>3. roots[r].at = "collect"
    BY DEF MCallTimeout
  <2>4. \A l \in DOMAIN calls :
          \/ results[l] = TimeoutError
          \/ /\ RootKey(r, l) \in DOMAIN frames /\ frames[RootKey(r, l)].at = "taken"
             /\ results[l] = frames[RootKey(r, l)].out
    BY <2>3 DEF Collected
  <2>5. DOMAIN results = DOMAIN calls
    OBVIOUS
  <2>6. \A q \in Roots : \A l : RootKey(q, l)' = RootKey(q, l)
    BY <2>1 DEF RootKey, Key
  <2> HIDE DEF results
  <2>7. QED
    BY <1>1, <2>1, <2>2, <2>4, <2>5, <2>6 DEF Collected
<1>8. QED
  BY <1>2, <1>3, <1>4, <1>5, <1>6, <1>7

\* The caller takes the result of a call.
LEMMA CollectStep ==
  ASSUME IInv, NEW r \in Roots, NEW l \in DOMAIN script[r].calls, Collect(r, l)
  PROVE  IInv'
<1> USE DEF IInv
<1> DEFINE k == RootKey(r, l)
           results == Added(roots[r].results, l, frames[k].out)
<1>1. /\ roots[r].at = "collect" /\ k \in DOMAIN frames /\ frames[k].at = "answered"
      /\ frames' = [frames EXCEPT ![k].at = "taken"]
      /\ roots' = [roots EXCEPT ![r] = [at |-> IF Complete(r, results) THEN "done" ELSE "collect",
                                        results |-> results]]
      /\ UNCHANGED <<Config, chains, Counters, Network, crashed, History>>
  BY DEF Collect, At
<1> HIDE DEF k, results
<1>2. Move(k, frames[k].entry, frames[k].target, "taken", frames[k].out)
  <2>1. frames \in [DOMAIN frames -> Frame]
    BY DEF Typed
  <2>2. QED
    BY <1>1, <2>1 DEF Move, Frame, Stages
<1>3. Typed'
  BY <1>1, <1>2 DEF Typed, Move, Config, Counters, Network, History
<1>4. Waiting'
  BY <1>1, <1>2, WaitingKept DEF Move
<1>5. Chained'
  <2>1. \A g \in DOMAIN frames :
          (BeforeChain(g) => BeforeChain(g)') /\ (AfterChain(g) => AfterChain(g)')
    BY <1>1, <1>2, ChainKept DEF Move, History
  <2>2. QED
    BY <1>1, <1>2, <2>1 DEF Chained, Move
<1>6. Handling'
  BY <1>1, <1>2 DEF Move, Handling, IsLocal, Measured, History
<1>7. Ran'
  BY <1>1, <1>2 DEF Move, Ran, Typed, IsLocal, Measured, History
<1>8. Answers'
  BY <1>1, <1>2, AnswersKept DEF Move, Network, History
<1>9. Selection'
  BY <1>1, <1>2, SelectionKept DEF Move, Counters, History
<1>10. Collected'
  <2>1. /\ DOMAIN results = DOMAIN roots[r].results \union {l}
        /\ \A m \in DOMAIN roots[r].results : results[m] = roots[r].results[m]
        /\ l \notin DOMAIN roots[r].results => results[l] = frames[k].out
    <3>1. DOMAIN results = DOMAIN roots[r].results \union {l}
      BY Adds DEF results
    <3>2. \A m \in DOMAIN roots[r].results : results[m] = roots[r].results[m]
      BY Adds DEF results
    <3>3. l \notin DOMAIN roots[r].results => results[l] = frames[k].out
      BY Adds DEF results
    <3>4. QED
      BY <3>1, <3>2, <3>3
  <2>2. /\ roots'[r].results = results
        /\ roots'[r].at = IF Complete(r, results) THEN "done" ELSE "collect"
        /\ \A q \in Roots : q # r => roots'[q] = roots[q]
    BY <1>1 DEF Typed
  <2>3. script' = script /\ \A q \in Roots : \A m : RootKey(q, m)' = RootKey(q, m)
    BY <1>1 DEF RootKey, Key, Config
  <2>4. \A g \in DOMAIN frames :
          /\ g \in DOMAIN frames' /\ frames'[g].out = frames[g].out
          /\ frames[g].at = "taken" => frames'[g].at = "taken"
    BY <1>1, <1>2 DEF Move
  <2>5. k \in DOMAIN frames' /\ frames'[k].at = "taken" /\ frames'[k].out = frames[k].out
    BY <1>1, <1>2 DEF Move
  <2>6. DOMAIN results \subseteq DOMAIN script[r].calls
    BY <2>1 DEF Collected
  <2>7. \A m \in DOMAIN results :
          /\ RootKey(r, m) \in DOMAIN frames' /\ frames'[RootKey(r, m)].at = "taken"
          /\ results[m] = frames'[RootKey(r, m)].out
    BY <1>1, <2>1, <2>4, <2>5 DEF Collected, k
  <2>8. \A q \in Roots : q # r => \A m \in DOMAIN roots[q].results :
          \/ roots[q].at = "done" /\ roots[q].results[m] = TimeoutError /\ script[q].mcall
          \/ /\ RootKey(q, m) \in DOMAIN frames' /\ frames'[RootKey(q, m)].at = "taken"
             /\ roots[q].results[m] = frames'[RootKey(q, m)].out
    BY <2>4 DEF Collected
  <2>9. QED
    BY <2>2, <2>3, <2>6, <2>7, <2>8 DEF Collected, Complete
<1>11. QED
  BY <1>3, <1>4, <1>5, <1>6, <1>7, <1>8, <1>9, <1>10

\* One handler of a chain runs.
LEMMA RunHandlerStep ==
  ASSUME IInv, NEW f \in DOMAIN frames, NEW hook \in Hooks, RunHandler(f, hook)
  PROVE  IInv'
<1> USE DEF IInv
<1> DEFINE c == <<f, hook>>
           handler == Handlers(f, hook)[chains[c].h]
           told == IF hook = "before" THEN "started" ELSE "finished"
           h == chains[c].h + 1
           val == IF handler = "validator" /\ Invalid(f) THEN "error" ELSE chains[c].val
           again == IF handler = "user" THEN h + 1 ELSE chains[c].again
           at == IF h > Len(Handlers(f, hook)) THEN "send" ELSE "run"
<1>1. /\ c \in DOMAIN chains /\ chains[c].at = "run"
      /\ chains' = [chains EXCEPT ![c] = [h |-> h, val |-> val, again |-> again, at |-> at]]
      /\ UNCHANGED <<Config, roots, frames, counter, Network, crashed, ran, overlap, panicked>>
  BY DEF RunHandler
<1>2. chains[c] \in Chain /\ chains \in [DOMAIN chains -> Chain]
  BY <1>1 DEF Typed
<1>3. /\ callsCount' \in [Nodes -> Nat] /\ spans' \in [started : SUBSET Keys, finished : SUBSET Keys]
      /\ spans.started \subseteq spans'.started /\ spans.finished \subseteq spans'.finished
      /\ handler = "metrics" /\ MetricsEvery = 1 => f \in spans'[told]
  <2>1. /\ callsCount \in [Nodes -> Nat] /\ f.node \in Nodes /\ f \in Keys
        /\ spans \in [started : SUBSET Keys, finished : SUBSET Keys]
    BY DEF Typed, Keys
  <2>2. told \in {"started", "finished"}
    OBVIOUS
  <2>3. CASE handler = "metrics"
    <3>1. /\ callsCount' = [callsCount EXCEPT ![f.node] = IF ShouldMetric(f.node) THEN 0 ELSE @ + 1]
          /\ spans' = IF ShouldMetric(f.node) THEN [spans EXCEPT ![told] = @ \union {f}] ELSE spans
      BY <2>3 DEF RunHandler
    <3>2. MetricsEvery = 1 => ShouldMetric(f.node)
      BY <2>1 DEF ShouldMetric
    <3> HIDE DEF told, handler
    <3>3. callsCount' \in [Nodes -> Nat]
      BY <2>1, <3>1
    <3>4. QED
      BY <2>1, <2>2, <3>1, <3>2, <3>3
  <2>4. CASE handler # "metrics"
    <3>1. UNCHANGED <<callsCount, spans>>
      BY <2>4 DEF RunHandler
    <3>2. QED
      BY <2>1, <2>4, <3>1
  <2>5. QED
    BY <2>3, <2>4
<1> HIDE DEF c, handler, told, h, val, again, at
<1>4. /\ DOMAIN chains' = DOMAIN chains /\ chains' \in [DOMAIN chains' -> Chain]
      /\ chains'[c] = [h |-> h, val |-> val, again |-> again, at |-> at]
      /\ \A d \in DOMAIN chains : d # c => chains'[d] = chains[d]
  <2>1. h \in Nat /\ val \in {"context", "error"} /\ again \in Nat /\ at \in {"run", "send", "done"}
    BY <1>2 DEF Chain, h, val, again, at
  <2>2. [h |-> h, val |-> val, again |-> again, at |-> at] \in Chain
    BY <2>1 DEF Chain
  <2>3. QED
    BY <1>1, <1>2, <2>2
<1>5. Typed'
  BY <1>1, <1>3, <1>4 DEF Typed, Config, Network
<1>6. Waiting'
  BY <1>1 DEF Waiting, Parent
<1>7. Handling' /\ Ran'
  BY <1>1, <1>3 DEF Handling, Ran, IsLocal, Measured
<1>8. Answers'
  BY <1>1, AnswersKept DEF Network
<1>9. Selection'
  BY <1>1, SelectionKept
<1>10. Collected'
  BY <1>1, CollectedKept DEF Config
<1>11. \A g : (IsLocal(g)' <=> IsLocal(g)) /\ (Invalid(g)' <=> Invalid(g))
              /\ Handlers(g, "before")' = Handlers(g, "before")
  BY <1>1 DEF IsLocal, Invalid, Handlers
<1>12. ASSUME hook = "before", frames[f].at = "before" PROVE BeforeChain(f)'
  <2>1. BeforeChain(f)
    BY <1>1, <1>12 DEF Chained, c
  <2> DEFINE last == Len(Handlers(f, "before"))
  <2>2. ChainsOf(f)
    BY HandlersAre
  <2>3. /\ last \in Nat \ {0} /\ Handlers(f, "before")[last] = "validator"
        /\ IsLocal(f) => last > 1 /\ Handlers(f, "before")[last - 1] = "metrics"
    BY <2>2 DEF ChainsOf
  <2>4. /\ chains[c].h \in 1..last
        /\ IsLocal(f) /\ chains[c].h = last => Measured(f, "started")
    BY <1>1, <1>12, <2>1 DEF BeforeChain, c
  <2>5. handler = Handlers(f, "before")[chains[c].h] /\ told = "started" /\ h = chains[c].h + 1
        /\ at = (IF h > last THEN "send" ELSE "run")
    BY <1>12 DEF handler, told, h, at
  <2> HIDE DEF last
  <2>6. at = "run" => h \in 1..last
    BY <2>3, <2>4, <2>5
  <2>7. at = "send" => chains[c].h = last
    BY <2>3, <2>4, <2>5
  <2>8. at = "send" /\ Invalid(f) => val = "error"
    BY <2>3, <2>5, <2>7 DEF val
  <2>9. IsLocal(f) /\ (at = "send" \/ h = last) => Measured(f, "started")'
    <3>1. CASE at = "send" /\ IsLocal(f)
      BY <3>1, <1>3, <2>4, <2>7 DEF Measured
    <3>2. CASE h = last /\ IsLocal(f)
      <4>1. handler = "metrics"
        BY <3>2, <2>3, <2>4, <2>5
      <4>2. QED
        BY <4>1, <1>3, <2>5 DEF Measured
    <3>3. QED
      BY <3>1, <3>2
  <2>10. chains'[<<f, "before">>] = [h |-> h, val |-> val, again |-> again, at |-> at]
    BY <1>4, <1>12 DEF c
  <2>11. QED
    BY <1>11, <2>6, <2>8, <2>9, <2>10 DEF BeforeChain, last
<1>13. ASSUME hook = "after", frames[f].at = "after" PROVE AfterChain(f)'
  <2>1. AfterChain(f) /\ IsLocal(f)
    BY <1>1, <1>13 DEF Chained, Handling, c
  <2>2. chains[c].h = 1
    BY <1>1, <1>13, <2>1 DEF AfterChain, c
  <2>3. Handlers(f, "after") = <<"metrics">>
    BY <2>1, HandlersAre DEF ChainsOf
  <2>4. handler = "metrics" /\ told = "finished" /\ at = "send"
    BY <1>13, <2>2, <2>3 DEF handler, told, at, h
  <2>5. chains'[<<f, "after">>] = [h |-> h, val |-> val, again |-> again, at |-> at]
    BY <1>4, <1>13 DEF c
  <2>6. QED
    BY <1>3, <2>4, <2>5 DEF AfterChain, Measured
<1>14. \A g \in DOMAIN frames :
         /\ <<g, "before">> # c /\ <<g, "before">> \in DOMAIN chains /\ BeforeChain(g) => BeforeChain(g)'
         /\ <<g, "after">> # c /\ <<g, "after">> \in DOMAIN chains /\ AfterChain(g) => AfterChain(g)'
  <2>1. \A g \in DOMAIN frames :
          <<g, "before">> # c /\ <<g, "before">> \in DOMAIN chains /\ BeforeChain(g) => BeforeChain(g)'
    BY <1>3, <1>4, <1>11 DEF BeforeChain, Measured
  <2>2. \A g \in DOMAIN frames :
          <<g, "after">> # c /\ <<g, "after">> \in DOMAIN chains /\ AfterChain(g) => AfterChain(g)'
    BY <1>3, <1>4 DEF AfterChain, Measured
  <2>3. QED
    BY <2>1, <2>2
<1>15. Chained'
  BY <1>1, <1>4, <1>12, <1>13, <1>14 DEF Chained, c
<1>16. QED
  BY <1>5, <1>6, <1>7, <1>8, <1>9, <1>10, <1>15

\* The last handler of a chain sends what it was given.
LEMMA SendResultStep ==
  ASSUME IInv, NEW f \in DOMAIN frames, NEW hook \in Hooks, SendResult(f, hook)
  PROVE  IInv'
<1> USE DEF IInv
<1> DEFINE c == <<f, hook>>
           g == chains[c]
           again == [h |-> g.again, val |-> "context", again |-> 0,
                     at |-> IF g.again > Len(Handlers(f, hook)) THEN "send" ELSE "run"]
           at == IF hook = "after" THEN "answered"
                 ELSE IF Rejects(g.val) THEN "answered"
                 ELSE IF IsLocal(f) THEN "handler" ELSE "request"
           out == IF hook = "before" /\ Rejects(g.val) THEN New("error") ELSE frames[f].out
<1>1. /\ c \in DOMAIN chains /\ g.at = "send" /\ frames[f].at = hook
      /\ chains' = [chains EXCEPT ![c] = IF g.again = 0 THEN [@ EXCEPT !.at = "done"] ELSE again]
      /\ UNCHANGED <<Config, roots, Counters, Network, crashed, History>>
  BY DEF SendResult, At
<1>2. g \in Chain /\ chains \in [DOMAIN chains -> Chain]
  BY <1>1 DEF Typed
<1>3. Move(f, frames[f].entry, frames[f].target, at, out)
  <2>1. frames \in [DOMAIN frames -> Frame] /\ New("error") \in Payload
    BY Results DEF Typed, Kinds
  <2>2. CASE hook = "after"
    <3>1. frames' = [frames EXCEPT ![f].at = "answered"]
      BY <2>2 DEF SendResult
    <3>2. QED
      BY <2>1, <2>2, <3>1 DEF Move, Frame, Stages
  <2>3. CASE hook = "before" /\ Rejects(g.val)
    <3>1. frames' = [frames EXCEPT ![f].out = New("error"), ![f].at = "answered"]
      BY <2>3 DEF SendResult, Answer
    <3>2. [frames[f] EXCEPT !.out = New("error"), !.at = "answered"] \in Frame
      BY <2>1 DEF Frame, Stages
    <3>3. frames' \in [DOMAIN frames -> Frame]
      BY <2>1, <3>1, <3>2
    <3>4. QED
      BY <2>1, <2>3, <3>1, <3>3 DEF Move, Frame
  <2>4. CASE hook = "before" /\ ~Rejects(g.val)
    <3>1. frames' = [frames EXCEPT ![f].at = at]
      BY <2>4 DEF SendResult
    <3>2. at \in {"handler", "request"}
      BY <2>4
    <3> HIDE DEF at
    <3>3. QED
      BY <2>1, <2>4, <3>1, <3>2 DEF Move, Frame, Stages
  <2>5. QED
    BY <2>2, <2>3, <2>4 DEF Hooks
<1>4. /\ at \in {"answered", "handler", "request"} /\ (frames[f].at = "after" => at = "answered")
      /\ at = "handler" => hook = "before" /\ ~Rejects(g.val) /\ IsLocal(f)
      /\ at = "answered" /\ hook = "before" => out = New("error")
      /\ out = frames[f].out \/ out = New("error")
      /\ hook = "after" => out = frames[f].out
  BY <1>1 DEF Hooks
<1>5. /\ DOMAIN chains' = DOMAIN chains /\ chains' \in [DOMAIN chains' -> Chain]
      /\ \A d \in DOMAIN chains : d # c => chains'[d] = chains[d]
  <2>1. [g EXCEPT !.at = "done"] \in Chain /\ again \in Chain
    BY <1>2 DEF Chain
  <2> HIDE DEF again
  <2>2. QED
    BY <1>1, <1>2, <2>1
<1> HIDE DEF again, at, out
<1>6. Typed'
  BY <1>1, <1>3, <1>5 DEF Typed, Move, Config, Counters, Network, History
<1>7. Waiting'
  BY <1>1, <1>3, WaitingKept DEF Move, Hooks
<1>8. /\ hook = "before" => BeforeChain(f)
      /\ hook = "after" => AfterChain(f) /\ IsLocal(f)
  BY <1>1 DEF Chained, Handling
<1>9. at = "handler" => IsLocal(f) /\ frames[f].params.valid /\ Measured(f, "started")
  <2>1. frames[f].params.valid \in BOOLEAN
    BY DEF Typed, Frame, Params
  <2>2. QED
    BY <1>1, <1>4, <1>8, <2>1 DEF BeforeChain, Rejects, Invalid
<1>10. Handling'
  BY <1>1, <1>3, <1>4, <1>9, Results DEF Handling, Move, IsLocal, Measured, History, Hooks, Kinds
<1>11. hook = "after" => Measured(f, "finished")
  BY <1>1, <1>8 DEF AfterChain
<1>12. Ran'
  <2>1. \A end \in ran : end.at = f => hook = "after"
    BY <1>1 DEF Ran, Hooks
  <2>2. QED
    BY <1>1, <1>3, <1>4, <1>11, <2>1 DEF Ran, Move, Typed, IsLocal, Measured, History
<1>13. Chained'
  <2>1. \A d \in DOMAIN frames : d # f =>
          /\ <<d, "before">> \in DOMAIN chains /\ BeforeChain(d) => BeforeChain(d)'
          /\ <<d, "after">> \in DOMAIN chains /\ AfterChain(d) => AfterChain(d)'
    BY <1>1, <1>3, <1>5, ChainKept DEF Move, History, c
  <2>2. QED
    BY <1>1, <1>3, <1>4, <1>5, <2>1 DEF Chained, Move, Hooks
<1>14. Answers'
  BY <1>1, <1>3, <1>4, AnswersKept DEF Move, New, Network, History
<1>15. Selection'
  BY <1>1, <1>3, <1>4, SelectionKept DEF Move, Counters, History
<1>16. Collected'
  BY <1>1, <1>3, CollectedKept DEF Move, Config, Hooks
<1>17. QED
  BY <1>6, <1>7, <1>10, <1>12, <1>13, <1>14, <1>15, <1>16

\* A result from the handler, or from another node: the hooks after a call.
LEMMA ToAfterIs ==
  ASSUME Typed, NEW f \in DOMAIN frames, NEW out \in Payload, NEW fs,
         DOMAIN fs = DOMAIN frames, fs \in [DOMAIN frames -> Frame], fs[f] = frames[f],
         ToAfter(fs, f, out), <<f, "after">> \notin DOMAIN chains
  PROVE  /\ DOMAIN frames' = DOMAIN frames /\ frames' \in [DOMAIN frames -> Frame]
         /\ \A g \in DOMAIN frames : g # f => frames'[g] = fs[g]
         /\ frames'[f] = [frames[f] EXCEPT !.out = out,
                                           !.at = IF IsLocal(f) THEN "after" ELSE "answered"]
         /\ DOMAIN chains' \subseteq DOMAIN chains \union {<<f, "after">>}
         /\ DOMAIN chains \subseteq DOMAIN chains' /\ chains' \in [DOMAIN chains' -> Chain]
         /\ \A c \in DOMAIN chains : chains'[c] = chains[c]
         /\ IsLocal(f) => chains'[<<f, "after">>] = NewChain
<1>1. ASSUME NEW at \in Stages, frames' = [fs EXCEPT ![f].out = out, ![f].at = at]
      PROVE  /\ DOMAIN frames' = DOMAIN frames /\ frames' \in [DOMAIN frames -> Frame]
             /\ \A g \in DOMAIN frames : g # f => frames'[g] = fs[g]
             /\ frames'[f] = [frames[f] EXCEPT !.out = out, !.at = at]
  <2>1. frames[f] \in Frame
    BY DEF Typed
  <2>2. frames'[f] = [fs[f] EXCEPT !.out = out, !.at = at]
    BY <1>1
  <2>3. [frames[f] EXCEPT !.out = out, !.at = at] \in Frame
    BY <2>1, <1>1 DEF Frame
  <2>4. QED
    BY <1>1, <2>2, <2>3
<1>2. CASE ~IsLocal(f)
  <2>1. Handlers(f, "after") = <<>>
    BY <1>2 DEF Handlers
  <2>2. frames' = [fs EXCEPT ![f].out = out, ![f].at = "answered"] /\ UNCHANGED chains
    BY <2>1 DEF ToAfter
  <2>3. chains \in [DOMAIN chains -> Chain]
    BY DEF Typed
  <2>4. QED
    BY <1>1, <1>2, <2>2, <2>3 DEF Stages
<1>3. CASE IsLocal(f)
  <2>1. Handlers(f, "after") # <<>>
    BY <1>3 DEF Handlers
  <2>2. /\ frames' = [fs EXCEPT ![f].out = out, ![f].at = "after"]
        /\ chains' = Added(chains, <<f, "after">>, NewChain)
    BY <2>1 DEF ToAfter
  <2>3. chains \in [DOMAIN chains -> Chain] /\ NewChain \in Chain
    BY DEF Typed, NewChain, Chain
  <2>4. Added(chains, <<f, "after">>, NewChain) \in [DOMAIN chains \union {<<f, "after">>} -> Chain]
    BY <2>3 DEF Added
  <2>5. /\ DOMAIN chains' = DOMAIN chains \union {<<f, "after">>}
        /\ \A c \in DOMAIN chains : chains'[c] = chains[c]
        /\ chains'[<<f, "after">>] = NewChain
    <3>1. DOMAIN chains' = DOMAIN chains \union {<<f, "after">>}
      BY <2>2, Adds
    <3>2. \A c \in DOMAIN chains : chains'[c] = chains[c]
      BY <2>2, Adds
    <3>3. chains'[<<f, "after">>] = NewChain
      BY <2>2, Adds
    <3>4. QED
      BY <3>1, <3>2, <3>3
  <2>6. QED
    BY <1>1, <1>3, <2>2, <2>4, <2>5 DEF Stages
<1>4. QED
  BY <1>2, <1>3

\* fs is frames, but for those in S that somebody took the result of.
TakenIn(fs, S) ==
  /\ DOMAIN fs = DOMAIN frames /\ fs \in [DOMAIN frames -> Frame]
  /\ \A g \in S : g \in DOMAIN frames /\ frames[g].at \in {"answered", "index"}
  /\ \A g \in DOMAIN frames :
       fs[g] = IF g \in S THEN [frames[g] EXCEPT !.at = "taken"] ELSE frames[g]

\* A result gets to its frame, which takes the calls it waited for.
LEMMA ResultArrives ==
  ASSUME IInv, NEW f \in DOMAIN frames, NEW out \in Payload, NEW fs, NEW S,
         frames[f].at \in {"handler", "waiting", "remote"},
         frames[f].at = "waiting" => Child(f) \in S, TakenIn(fs, S),
         ToAfter(fs, f, out),
         \/ ran' = ran
         \/ frames[f].at # "remote" /\ ran' = ran \union {[at |-> f, out |-> out]},
         out.kind # "error" => Answered(f.id, out.kind)',
         ress' \subseteq ress, \A g \in panicked' : g \in panicked \/ g.node \in overlap,
         UNCHANGED <<script, roots, counter, callsCount, reqs, crashed, spans, overlap>>
  PROVE  IInv'
<1> USE DEF IInv
<1>1. f \notin S /\ <<f, "after">> \notin DOMAIN chains
  BY DEF Chained, TakenIn
<1>2. /\ DOMAIN frames' = DOMAIN frames /\ frames' \in [DOMAIN frames -> Frame]
      /\ \A g \in DOMAIN frames : g # f => frames'[g] = fs[g]
      /\ frames'[f] = [frames[f] EXCEPT !.out = out,
                                        !.at = IF IsLocal(f) THEN "after" ELSE "answered"]
      /\ DOMAIN chains' \subseteq DOMAIN chains \union {<<f, "after">>}
      /\ DOMAIN chains \subseteq DOMAIN chains' /\ chains' \in [DOMAIN chains' -> Chain]
      /\ \A c \in DOMAIN chains : chains'[c] = chains[c]
      /\ IsLocal(f) => chains'[<<f, "after">>] = NewChain
  BY <1>1, ToAfterIs DEF TakenIn
<1>3. \A g \in DOMAIN frames : g # f =>
        /\ g \notin S => frames'[g] = frames[g]
        /\ g \in S => frames'[g] = [frames[g] EXCEPT !.at = "taken"]
  BY <1>2 DEF TakenIn
<1>4. frames \in [DOMAIN frames -> Frame] /\ DOMAIN frames \subseteq Keys
  BY DEF Typed
<1>5. /\ frames'[f].out = out /\ frames'[f].at = IF IsLocal(f) THEN "after" ELSE "answered"
      /\ frames'[f].entry = frames[f].entry /\ frames'[f].params = frames[f].params
      /\ frames'[f].from = frames[f].from /\ frames'[f].action = frames[f].action
  BY <1>2, <1>4 DEF Frame
<1>6. \A g \in DOMAIN frames : g # f =>
        /\ frames'[g].entry = frames[g].entry /\ frames'[g].params = frames[g].params
        /\ frames'[g].from = frames[g].from /\ frames'[g].action = frames[g].action
        /\ frames'[g].out = frames[g].out
        /\ frames'[g].at = IF g \in S THEN "taken" ELSE frames[g].at
  <2>1. SUFFICES ASSUME NEW g \in DOMAIN frames, g # f, g \in S
                 PROVE  /\ frames'[g].entry = frames[g].entry /\ frames'[g].params = frames[g].params
                        /\ frames'[g].from = frames[g].from /\ frames'[g].action = frames[g].action
                        /\ frames'[g].out = frames[g].out /\ frames'[g].at = "taken"
    BY <1>3
  <2>2. frames[g] \in Frame /\ frames'[g] = [frames[g] EXCEPT !.at = "taken"]
    BY <1>3, <1>4, <2>1
  <2>3. QED
    BY <2>2 DEF Frame
<1>7. Typed'
  <2>1. [at |-> f, out |-> out] \in [at : DOMAIN frames, out : Payload]
    OBVIOUS
  <2>2. ran' \subseteq [at : DOMAIN frames', out : Payload]
    BY <1>2, <2>1 DEF Typed
  <2>3. QED
    BY <1>2, <2>2 DEF Typed, Hooks
<1>8. Waiting'
  <2>1. SUFFICES ASSUME NEW g \in DOMAIN frames, frames'[g].from = None, g.id.depth > 1,
                        frames'[g].at # "taken"
                 PROVE  Parent(g) \in DOMAIN frames /\ frames'[Parent(g)].at = "waiting"
    BY <1>2 DEF Waiting, Parent
  <2>2. frames[g].from = None /\ frames[g].at # "taken"
    BY <1>5, <1>6, <2>1
  <2>3. Parent(g) \in DOMAIN frames /\ frames[Parent(g)].at = "waiting"
    BY <2>1, <2>2 DEF Waiting
  <2>4. Parent(g) # f
    <3>1. SUFFICES ASSUME Parent(g) = f PROVE FALSE
      OBVIOUS
    <3>2. g = Child(f)
      BY <1>4, <3>1, Children
    <3>3. g \in S /\ g # f
      BY <1>1, <2>3, <3>1, <3>2
    <3>4. QED
      BY <1>6, <2>1, <3>3
  <2>5. Parent(g) \notin S
    BY <2>3 DEF TakenIn
  <2>6. frames'[Parent(g)] = frames[Parent(g)]
    BY <1>3, <2>3, <2>4, <2>5
  <2>7. QED
    BY <2>3, <2>6
<1>9. Handling'
  <2>1. \A g \in DOMAIN frames : g # f => frames'[g].at \in {frames[g].at, "taken"}
    BY <1>6
  <2>2. \A g \in DOMAIN frames : g # f =>
          /\ frames'[g].at \in {"handler", "waiting"}
               => IsLocal(g)' /\ frames'[g].params.valid /\ Measured(g, "started")'
          /\ frames'[g].at = "after" => IsLocal(g)'
          /\ frames'[g].at \in {"before", "request"} => frames'[g].entry \in Nodes
          /\ frames'[g].at \in {"after", "answered", "sent"} => frames'[g].out \in Payload
    BY <1>6, <2>1 DEF Handling, IsLocal, Measured
  <2>3. /\ frames'[f].at = "after" => IsLocal(f)'
        /\ frames'[f].at \in {"after", "answered"} /\ frames'[f].out \in Payload
    BY <1>5 DEF IsLocal
  <2>4. QED
    BY <1>2, <2>2, <2>3 DEF Handling
<1>10. Ran'
  <2>1. \A end \in ran :
          end.at \in DOMAIN frames /\ end.at # f /\ (end.at \in S => frames[end.at].at = "answered")
    BY DEF Ran, Typed, TakenIn
  <2>2. \A end \in ran :
          /\ frames'[end.at].params.valid /\ IsLocal(end.at)' /\ Measured(end.at, "started")'
          /\ frames'[end.at].at \in {"after", "answered", "sent", "taken"}
          /\ frames'[end.at].at # "after" => Measured(end.at, "finished")'
    BY <1>6, <2>1 DEF Ran, IsLocal, Measured
  <2>3. frames[f].at # "remote" =>
          /\ frames'[f].params.valid /\ IsLocal(f)' /\ Measured(f, "started")'
          /\ frames'[f].at = "after"
    BY <1>5 DEF Handling, IsLocal, Measured
  <2>4. QED
    BY <2>2, <2>3 DEF Ran
<1>11. Chained'
  <2>1. \A g \in DOMAIN frames : g # f =>
          /\ <<g, "before">> \in DOMAIN chains /\ BeforeChain(g) => BeforeChain(g)'
          /\ <<g, "after">> \in DOMAIN chains /\ AfterChain(g) => AfterChain(g)'
    BY <1>2, <1>6, ChainKept
  <2>2. IsLocal(f) => AfterChain(f)'
    BY <1>2 DEF AfterChain, NewChain
  <2>3. \A g \in DOMAIN frames :
          /\ <<g, "before">> \in DOMAIN chains' => <<g, "before">> \in DOMAIN chains
          /\ g # f /\ <<g, "after">> \in DOMAIN chains' => <<g, "after">> \in DOMAIN chains
    BY <1>2
  <2>4. ASSUME NEW g \in DOMAIN frames, g # f
        PROVE  /\ frames'[g].at \in {"select", "wrap", "index"} => <<g, "before">> \notin DOMAIN chains'
               /\ <<g, "after">> \in DOMAIN chains'
                    => frames'[g].at \in {"after", "answered", "sent", "taken"}
               /\ frames'[g].at = "before" /\ <<g, "before">> \in DOMAIN chains' => BeforeChain(g)'
               /\ frames'[g].at = "after" /\ <<g, "after">> \in DOMAIN chains' => AfterChain(g)'
    <3>1. frames'[g].at \in {frames[g].at, "taken"}
      BY <1>6, <2>4
    <3>2. QED
      BY <2>1, <2>3, <2>4, <3>1 DEF Chained
  <2>5. QED
    BY <1>2, <1>5, <2>2, <2>4 DEF Chained
<1>12. Answers'
  <2>1. ran \subseteq ran'
    OBVIOUS
  <2>2. QED
    BY <1>2, <1>5, <1>6, <2>1, AnswersKept
<1>13. Selection'
  BY <1>2, <1>5, <1>6, SelectionKept
<1>14. Collected'
  BY <1>2, <1>6, CollectedKept DEF TakenIn
<1>15. QED
  BY <1>7, <1>8, <1>9, <1>10, <1>11, <1>12, <1>13, <1>14

\* A handler calls another action, and waits for it.
LEMMA CallInHandlerStep ==
  ASSUME IInv, NEW f \in DOMAIN frames, CallInHandler(f)
  PROVE  IInv'
<1> USE DEF IInv
<1> DEFINE call == [action |-> Subcall[frames[f].action], pin |-> None, params |-> frames[f].params]
           fs == [frames EXCEPT ![f].at = "waiting"]
           k == Child(f)
<1>1. /\ frames[f].at = "handler" /\ Subcall[frames[f].action] # None
      /\ frames' = Added(fs, k, NewFrame(call, None))
      /\ UNCHANGED <<Config, roots, chains, Counters, Network, crashed, History>>
  BY DEF CallInHandler, At
<1>2. frames[f] \in Frame /\ frames \in [DOMAIN frames -> Frame] /\ f \in Keys
  BY DEF Typed
<1>3. call \in Call /\ call.params = frames[f].params
  BY <1>1, <1>2, HandlersAssumption DEF Call, Frame
<1> HIDE DEF call
<1>4. NewFrame(call, None) \in Frame
  BY <1>3 DEF NewFrame, Call, Frame, Stages
<1>5. /\ k \in Keys /\ k # f /\ Parent(k) = f /\ k.id.depth > 1
  BY <1>2, Children DEF Keys, Ids
<1>6. /\ DOMAIN fs = DOMAIN frames /\ fs \in [DOMAIN frames -> Frame]
      /\ fs[f] = [frames[f] EXCEPT !.at = "waiting"]
      /\ \A g \in DOMAIN frames : g # f => fs[g] = frames[g]
  BY <1>2 DEF Frame, Stages
<1> HIDE DEF k, fs
<1>7. /\ DOMAIN frames' = DOMAIN frames \union {k} /\ frames' \in [DOMAIN frames' -> Frame]
      /\ frames'[f] = [frames[f] EXCEPT !.at = "waiting"]
      /\ \A g \in DOMAIN frames : g # f => frames'[g] = frames[g]
      /\ k \notin DOMAIN frames => frames'[k] = NewFrame(call, None)
  <2>1. Added(fs, k, NewFrame(call, None)) \in [DOMAIN frames \union {k} -> Frame]
    BY <1>4, <1>6 DEF Added
  <2>2. \A g \in DOMAIN fs : frames'[g] = fs[g]
    BY <1>1, Adds
  <2>3. k \notin DOMAIN fs => frames'[k] = NewFrame(call, None)
    BY <1>1, Adds
  <2>4. QED
    BY <1>1, <1>6, <2>1, <2>2, <2>3
<1>8. /\ frames'[f].at = "waiting" /\ frames'[f].out = frames[f].out
      /\ frames'[f].entry = frames[f].entry /\ frames'[f].params = frames[f].params
      /\ frames'[f].from = frames[f].from
  BY <1>2, <1>7 DEF Frame
<1>9. /\ NewFrame(call, None).at = "select" /\ NewFrame(call, None).out = None
      /\ NewFrame(call, None).from = None
  BY DEF NewFrame
<1>10. k \notin DOMAIN frames => \A hook : <<k, hook>> \notin DOMAIN chains
  BY DEF Typed
<1>11. Typed'
  BY <1>1, <1>5, <1>7 DEF Typed, Config, Counters, Network, History
<1>12. Waiting'
  <2>1. SUFFICES ASSUME NEW g \in DOMAIN frames', frames'[g].from = None, g.id.depth > 1,
                        frames'[g].at # "taken"
                 PROVE  Parent(g) \in DOMAIN frames' /\ frames'[Parent(g)].at = "waiting"
    BY DEF Waiting, Parent
  <2>2. CASE g \notin DOMAIN frames
    BY <1>5, <1>7, <1>8, <2>2
  <2>3. CASE g \in DOMAIN frames
    <3>1. frames[g].from = None /\ frames[g].at # "taken"
      BY <1>1, <1>7, <1>8, <2>1, <2>3
    <3>2. Parent(g) \in DOMAIN frames /\ frames[Parent(g)].at = "waiting"
      BY <2>1, <2>3, <3>1 DEF Waiting
    <3>3. Parent(g) # f
      BY <1>1, <3>2
    <3>4. frames'[Parent(g)] = frames[Parent(g)]
      BY <1>7, <3>2, <3>3
    <3>5. QED
      BY <1>7, <3>2, <3>4
  <2>4. QED
    BY <2>2, <2>3
<1>13. Chained'
  <2>1. \A g \in DOMAIN frames :
          (BeforeChain(g) => BeforeChain(g)') /\ (AfterChain(g) => AfterChain(g)')
    BY <1>1, <1>7, <1>8, ChainKept DEF History
  <2>2. \A g \in DOMAIN frames' :
          \/ g = f
          \/ g \in DOMAIN frames /\ frames'[g] = frames[g]
          \/ frames'[g].at = "select" /\ \A hook : <<g, hook>> \notin DOMAIN chains
    BY <1>7, <1>9, <1>10
  <2>3. frames'[f].at = "waiting" /\ <<f, "after">> \notin DOMAIN chains /\ chains' = chains
    BY <1>1, <1>8 DEF Chained
  <2>4. QED
    BY <2>1, <2>2, <2>3 DEF Chained
<1>14. Handling'
  <2>1. \A g \in DOMAIN frames' :
          \/ g = f \/ frames'[g].at = "select"
          \/ g \in DOMAIN frames /\ frames'[g] = frames[g]
    BY <1>7, <1>9
  <2>2. /\ frames'[f].at = "waiting" /\ IsLocal(f)' /\ frames'[f].params.valid
        /\ Measured(f, "started")'
    BY <1>1, <1>8 DEF Handling, IsLocal, Measured, History
  <2>3. QED
    BY <1>1, <2>1, <2>2 DEF Handling, IsLocal, Measured, History
<1>15. Ran'
  <2>1. \A end \in ran : end.at \in DOMAIN frames /\ end.at # f
    BY <1>1 DEF Ran, Typed
  <2>2. QED
    BY <1>1, <1>7, <2>1 DEF Ran, IsLocal, Measured, History
<1>16. Answers'
  <2>1. \A g \in DOMAIN frames' :
          frames'[g].out = None \/ (g \in DOMAIN frames /\ frames'[g].out = frames[g].out)
    <3>1. \A g \in DOMAIN frames : frames'[g].out = frames[g].out
      BY <1>7, <1>8
    <3>2. \A g \in DOMAIN frames' : g \notin DOMAIN frames => frames'[g].out = None
      BY <1>7, <1>9
    <3>3. QED
      BY <3>1, <3>2
  <2>2. ran' = ran /\ ress' = ress
    BY <1>1 DEF Network, History
  <2>3. QED
    BY <2>1, <2>2, AnswersKept
<1>17. Selection'
  <2>1. \A g \in DOMAIN frames' : frames'[g].at \in {"wrap", "index"} =>
          g \in DOMAIN frames /\ frames'[g] = frames[g]
    BY <1>7, <1>8, <1>9
  <2>2. QED
    BY <1>1, <2>1, SelectionKept DEF Counters, History
<1>18. Collected'
  BY <1>1, <1>7, CollectedKept DEF Config
<1>19. QED
  BY <1>11, <1>12, <1>13, <1>14, <1>15, <1>16, <1>17, <1>18

\* Nobody, or one frame, is taken.
LEMMA TakenIs ==
  ASSUME Typed
  PROVE  /\ TakenIn(frames, {})
         /\ \A c \in DOMAIN frames : frames[c].at \in {"answered", "index"}
              => TakenIn([frames EXCEPT ![c].at = "taken"], {c})
<1>1. frames \in [DOMAIN frames -> Frame]
  BY DEF Typed
<1>2. TakenIn(frames, {})
  BY <1>1 DEF TakenIn
<1>3. ASSUME NEW c \in DOMAIN frames, frames[c].at \in {"answered", "index"}
      PROVE  TakenIn([frames EXCEPT ![c].at = "taken"], {c})
  <2>1. [frames[c] EXCEPT !.at = "taken"] \in Frame
    BY <1>1 DEF Frame, Stages
  <2>2. QED
    BY <1>1, <1>3, <2>1 DEF TakenIn
<1>4. QED
  BY <1>2, <1>3

\* A handler ends: by itself, with the result of the call it made, or because the
\* strategy of that call panicked.
LEMMA InvokeLocalActionStep ==
  ASSUME IInv, NEW f \in DOMAIN frames, InvokeLocalAction(f)
  PROVE  IInv'
<1> DEFINE a == frames[f].action
           result == IF ~Takes(Signature[a], frames[f].params) \/ Result[a] = "panic"
                     THEN New("error") ELSE Returned(Signature[a], New(Result[a]))
<1>1. PICK out : out = result
  OBVIOUS
<1>2. /\ frames[f].at = "handler" /\ ToAfter(frames, f, out)
      /\ ran' = ran \union {[at |-> f, out |-> out]}
      /\ UNCHANGED <<Config, roots, Counters, Network, crashed, spans, overlap, panicked>>
  BY <1>1 DEF InvokeLocalAction, At, Ends
<1>3. out \in Payload
  <2>1. a \in Actions
    BY DEF IInv, Typed, Frame
  <2>2. QED
    BY <1>1, <2>1, HandlersAssumption, Results DEF Kinds
<1> HIDE DEF result
<1>4. Answered(f.id, out.kind)'
  <2>1. [at |-> f, out |-> out] \in ran'
    BY <1>2
  <2>2. Fits(out.kind, out.kind)
    BY DEF Fits
  <2>3. QED
    BY <2>1, <2>2 DEF Answered
<1>5. TakenIn(frames, {})
  BY TakenIs DEF IInv
<1>6. QED
  BY <1>2, <1>3, <1>4, <1>5, ResultArrives DEF Config, Counters, Network

\* A handler gets the answer of its call and returns.
LEMMA HandlerReturnsStep ==
  ASSUME IInv, NEW f \in DOMAIN frames, HandlerReturns(f)
  PROVE  IInv'
<1> DEFINE c == Child(f)
           fs == [frames EXCEPT ![c].at = "taken"]
<1>1. PICK out : out = Returned(Signature[frames[f].action], frames[c].out)
  OBVIOUS
<1>2. /\ frames[f].at = "waiting" /\ c \in DOMAIN frames /\ frames[c].at = "answered"
      /\ ToAfter(fs, f, out) /\ ran' = ran \union {[at |-> f, out |-> out]}
      /\ UNCHANGED <<Config, roots, Counters, Network, crashed, spans, overlap, panicked>>
  BY <1>1 DEF HandlerReturns, At, Ends
<1>3. out \in Payload
  <2>1. frames[c].out \in Payload /\ frames[f].action \in Actions
    BY <1>2 DEF IInv, Handling, Typed, Frame
  <2>2. QED
    BY <1>1, <2>1, HandlersAssumption, Results
<1>4. Answered(f.id, out.kind)'
  <2>1. [at |-> f, out |-> out] \in ran'
    BY <1>2
  <2>2. Fits(out.kind, out.kind)
    BY DEF Fits
  <2>3. QED
    BY <2>1, <2>2 DEF Answered
<1>5. TakenIn(fs, {c})
  BY <1>2, TakenIs DEF IInv
<1> HIDE DEF fs
<1>6. QED
  BY <1>2, <1>3, <1>4, <1>5, ResultArrives DEF Config, Counters, Network

\* The panic of a selection is the error of the handler that called.
LEMMA CallPanicsStep ==
  ASSUME IInv, NEW f \in DOMAIN frames, SelectPanics(f), frames[f].from = None, f.id.depth > 1
  PROVE  IInv'
<1> DEFINE p == Parent(f)
           fs == [frames EXCEPT ![f].at = "taken"]
<1>1. /\ frames[f].at = "index" /\ counter[f.node] >= Len(Remotes(f))
      /\ panicked' = panicked \union {f}
      /\ ToAfter(fs, p, New("error")) /\ ran' = ran \union {[at |-> p, out |-> New("error")]}
      /\ UNCHANGED <<Config, roots, Counters, Network, crashed, spans, overlap>>
  BY DEF SelectPanics, At
<1>2. f \in Keys /\ frames[f].action \in Actions
  BY DEF IInv, Typed, Frame
<1>3. p \in DOMAIN frames /\ frames[p].at = "waiting" /\ Child(p) = f
  BY <1>1, <1>2, Children DEF IInv, Waiting
<1>4. New("error") \in Payload /\ New("error").kind = "error"
  BY Results DEF Kinds
<1>5. f.node \in overlap
  <2>1. f.node \in Nodes /\ counter \in [Nodes -> Int]
    BY DEF IInv, Typed, Keys
  <2>2. Len(Remotes(f)) \in Nat /\ counter[f.node] \in Int
    BY <1>2, <2>1, CatalogAssumption DEF Remotes
  <2>3. QED
    BY <1>1, <2>2 DEF IInv, Selection
<1>6. TakenIn(fs, {f})
  BY <1>1, TakenIs DEF IInv
<1>7. \A g \in panicked' : g \in panicked \/ g.node \in overlap
  BY <1>1, <1>5
<1> HIDE DEF fs, p
<1>8. QED
  BY <1>1, <1>3, <1>4, <1>6, <1>7, ResultArrives DEF Config, Counters, Network

\* A RES, or the timeout of the request.
LEMMA ReplyStep ==
  ASSUME IInv, NEW f \in DOMAIN frames, frames[f].at = "remote", NEW out \in Payload,
         ToAfter(frames, f, out), ress' \subseteq ress,
         out.kind # "error" => Answered(f.id, out.kind),
         UNCHANGED <<Config, roots, Counters, reqs, crashed, History>>
  PROVE  IInv'
<1>1. out.kind # "error" => Answered(f.id, out.kind)'
  BY DEF Answered, History
<1>2. TakenIn(frames, {})
  BY TakenIs DEF IInv
<1>3. QED
  BY <1>1, <1>2, ResultArrives DEF Config, Counters, History

\* A RES arrives, perhaps after its timeout.
LEMMA TakeResponseStep ==
  ASSUME IInv, NEW res \in ress, TakeResponse(res)
  PROVE  IInv'
<1>1. PICK f, out : f = Key(res.to, res.id) /\ out = Received(res.reply)
  OBVIOUS
<1>2. /\ ress' = ress \ {res} /\ UNCHANGED <<Config, roots, Counters, reqs, crashed, History>>
      /\ IF At(f, "remote") THEN ToAfter(frames, f, out) ELSE UNCHANGED <<frames, chains>>
  BY <1>1 DEF TakeResponse
<1>3. CASE At(f, "remote")
  <2>1. f \in DOMAIN frames /\ frames[f].at = "remote" /\ f.id = res.id
    BY <1>1, <1>3 DEF At, Key
  <2>2. out \in Payload
    BY <1>1, Results DEF IInv, Typed
  <2>3. out.kind # "error" => Answered(f.id, out.kind)
    BY <1>1, <2>1 DEF IInv, Answers
  <2>4. QED
    BY <1>2, <1>3, <2>1, <2>2, <2>3, ReplyStep
<1>4. CASE ~At(f, "remote")
  <2> USE DEF IInv
  <2>1. UNCHANGED <<Config, roots, frames, chains, Counters, reqs, crashed, History>>
    BY <1>2, <1>4
  <2>2. Typed'
    BY <1>2, <2>1 DEF Typed, Config, Counters, History
  <2>3. Waiting' /\ Handling' /\ Ran'
    BY <2>1 DEF Waiting, Parent, Handling, Ran, IsLocal, Measured, History
  <2>4. Chained'
    BY <2>1, ChainKept DEF Chained, History
  <2>5. Answers'
    BY <1>2, <2>1, AnswersKept DEF History
  <2>6. Selection' /\ Collected'
    BY <2>1, SelectionKept, CollectedKept DEF Counters, History, Config
  <2>7. QED
    BY <2>2, <2>3, <2>4, <2>5, <2>6
<1>5. QED
  BY <1>3, <1>4

\* The timeout of a request.
LEMMA TimeoutStep ==
  ASSUME IInv, NEW f \in DOMAIN frames, Timeout(f)
  PROVE  IInv'
<1>1. New("error") \in Payload /\ New("error").kind = "error"
  BY Results DEF Kinds
<1>2. /\ frames[f].at = "remote" /\ ToAfter(frames, f, New("error"))
      /\ ress' = ress /\ UNCHANGED <<Config, roots, Counters, reqs, crashed, History>>
  BY DEF Timeout, At, Network
<1>3. QED
  BY <1>1, <1>2, ReplyStep

\* The REQ and the RES.
LEMMA InvokeRemoteActionStep ==
  ASSUME IInv, NEW f \in DOMAIN frames, InvokeRemoteAction(f)
  PROVE  IInv'
<1> USE DEF IInv
<1>1. /\ frames[f].at = "request" /\ reqs' = reqs \union {RequestOf(f)}
      /\ UNCHANGED <<Config, roots, chains, Counters, ress, crashed, History>>
  BY DEF InvokeRemoteAction, At
<1>2. Move(f, frames[f].entry, frames[f].entry, "remote", frames[f].out)
  <2>1. frames \in [DOMAIN frames -> Frame]
    BY DEF Typed
  <2>2. frames' = [frames EXCEPT ![f].target = frames[f].entry, ![f].at = "remote"]
    BY DEF InvokeRemoteAction
  <2>3. [frames[f] EXCEPT !.target = frames[f].entry, !.at = "remote"] \in Frame
    BY <2>1 DEF Frame, Stages
  <2>4. frames' \in [DOMAIN frames -> Frame]
    BY <2>1, <2>2, <2>3
  <2>5. QED
    BY <2>1, <2>2, <2>4 DEF Move, Frame
<1>3. Typed'
  <2>1. RequestOf(f) \in [to : Nodes, from : Nodes, id : Ids, call : Call]
    <3>1. frames[f] \in Frame /\ f \in Keys /\ frames[f].entry \in Nodes
      BY <1>1 DEF Typed, Handling
    <3>2. QED
      BY <3>1 DEF RequestOf, Frame, Keys, Call
  <2>2. QED
    BY <1>1, <1>2, <2>1 DEF Typed, Move, Config, Counters, History
<1>4. Selection'
  BY <1>1, <1>2, SelectionKept DEF Move, Counters, History
<1>5. QED
  BY <1>1, <1>2, <1>3, <1>4, FrameMoves DEF Config, History

\* The RES of a request that was served.
LEMMA SendResponseStep ==
  ASSUME IInv, NEW f \in DOMAIN frames, SendResponse(f)
  PROVE  IInv'
<1> USE DEF IInv
<1>1. PICK res : res = [to |-> frames[f].target, id |-> f.id, reply |-> Sent(frames[f].out)]
  OBVIOUS
<1>2. /\ frames[f].at = "answered" /\ ress' = ress \union {res}
      /\ UNCHANGED <<Config, roots, chains, Counters, reqs, crashed, History>>
  BY <1>1 DEF SendResponse, At
<1>3. Move(f, frames[f].entry, frames[f].target, "sent", frames[f].out)
  <2>1. frames \in [DOMAIN frames -> Frame]
    BY DEF Typed
  <2>2. frames' = [frames EXCEPT ![f].at = "sent"]
    BY DEF SendResponse
  <2>3. QED
    BY <2>1, <2>2 DEF Move, Frame, Stages
<1>4. frames[f].out \in Payload /\ frames[f].out # None
  BY <1>2, NoneAssumption DEF Handling
<1>5. Typed'
  <2>1. res \in [to : Nodes \union {None}, id : Ids, reply : Replies]
    <3>1. frames[f] \in Frame /\ f \in Keys /\ Sent(frames[f].out) \in Replies
      BY <1>4, Results DEF Typed
    <3>2. QED
      BY <1>1, <3>1 DEF Frame, Keys
  <2>2. QED
    BY <1>2, <1>3, <2>1 DEF Typed, Move, Config, Counters, History
<1>6. Selection'
  BY <1>2, <1>3, SelectionKept DEF Move, Counters, History
<1>7. Received(res.reply).kind # "error" => Answered(res.id, Received(res.reply).kind)
  <2>1. SUFFICES ASSUME Received(Sent(frames[f].out)).kind # "error"
                 PROVE  Answered(f.id, Received(Sent(frames[f].out)).kind)
    BY <1>1
  <2>2. frames[f].out.kind # "error"
    BY <1>4, <2>1 DEF Sent, Received, IsError, New
  <2>3. PICK end \in ran : end.at.id = f.id /\ Fits(end.out.kind, frames[f].out.kind)
    BY <1>4, <2>2 DEF Answers, Answered
  <2>4. Fits(end.out.kind, Received(Sent(frames[f].out)).kind)
    BY <1>4, <2>1, <2>3, WireFits
  <2>5. QED
    BY <2>3, <2>4 DEF Answered
<1>8. Received(res.reply).kind # "error" => Answered(res.id, Received(res.reply).kind)'
  BY <1>2, <1>7 DEF Answered, History
<1>9. QED
  BY <1>2, <1>3, <1>5, <1>6, <1>8, FrameMoves DEF Config, History

-----------------------------------------------------------------------------
(* The theorems *)

\* The invariant holds before any call.
LEMMA InitInv == Init => IInv
<1> SUFFICES ASSUME Init PROVE IInv
  OBVIOUS
<1>1. /\ DOMAIN frames = {} /\ DOMAIN chains = {} /\ reqs = {} /\ ress = {} /\ ran = {}
      /\ frames \in [DOMAIN frames -> Frame] /\ chains \in [DOMAIN chains -> Chain]
      /\ panicked = {} /\ crashed = {}
  BY DEF Init, NoCalls
<1>2. Typed
  BY <1>1 DEF Init, Typed
<1>3. \A n \in Nodes : counter[n] = 0 - 1
  BY DEF Init
<1>4. Waiting /\ Chained /\ Handling /\ Ran /\ Answers /\ Selection
  BY <1>1, <1>3 DEF Waiting, Chained, Handling, Ran, Answers, Selection, PanicsNeedOverlap
<1>5. Collected
  <2>1. \A r \in Roots : /\ roots[r].results = NoCalls
                         /\ roots[r].at = "done" => script[r].calls = NoCalls
    BY DEF Init
  <2>2. DOMAIN NoCalls = {}
    BY DEF NoCalls
  <2>3. QED
    BY <2>1, <2>2 DEF Collected
<1>6. QED
  BY <1>2, <1>4, <1>5 DEF IInv

\* Every step of a frame keeps the invariant.
LEMMA StepInv ==
  ASSUME IInv, NEW f \in DOMAIN frames, Step(f)
  PROVE  IInv'
<1>1. f.node \in Nodes /\ frames[f].action \in Actions /\ frames[f].pin \in Nodes \union {None}
  BY DEF IInv, Typed, Keys, Frame
<1>2. /\ Known[f.node][frames[f].action] \in Seq(Nodes)
      /\ ToSet(Entries(f.node, frames[f].action)) \subseteq Nodes
  <2>1. Known[f.node][frames[f].action] \in Seq(Nodes)
    BY <1>1, CatalogAssumption
  <2>2. Entries(f.node, frames[f].action) \in Seq(Nodes)
    BY <1>1, <2>1 DEF Entries
  <2>3. QED
    BY <2>1, <2>2 DEF ToSet
<1>3. CASE NextFromNode(f)
  BY <1>2, <1>3, EntryChosen DEF NextFromNode, At, Config
<1>4. CASE NextLocal(f)
  BY <1>1, <1>4, EntryChosen DEF NextLocal, At, Config
<1>5. CASE EndpointNotFound(f)
  BY <1>5, EndpointNotFoundStep
<1>6. CASE SelectRandom(f)
  <2>1. PICK n \in ToSet(Remotes(f)) : ToBefore(f, n)
    BY <1>6 DEF SelectRandom
  <2>2. n \in Nodes
    BY <1>2, <2>1 DEF Remotes, ToSet
  <2>3. QED
    BY <1>6, <2>1, <2>2, EntryChosen DEF SelectRandom, Strategic, At, Config
<1>7. CASE SelectIncrement(f)
  BY <1>7, SelectIncrementStep
<1>8. CASE SelectWrap(f)
  BY <1>8, SelectWrapStep
<1>9. CASE SelectIndex(f)
  <2>1. /\ frames[f].at = "index" /\ counter[f.node] < Len(Remotes(f))
        /\ ToBefore(f, Remotes(f)[counter[f.node] + 1])
    BY <1>9 DEF SelectIndex, At
  <2>2. counter[f.node] \in Nat
    BY <1>1, <2>1 DEF IInv, Typed, Selection
  <2>3. Remotes(f)[counter[f.node] + 1] \in Nodes
    BY <1>2, <2>1, <2>2 DEF Remotes
  <2>4. QED
    BY <1>9, <2>1, <2>3, EntryChosen DEF SelectIndex, Config
<1>10. CASE SelectPanics(f)
  BY <1>10, SelectPanicsStep, CallPanicsStep DEF SelectPanics
<1>11. CASE \E hook \in {"before", "after"} : RunHandler(f, hook) \/ SendResult(f, hook)
  BY <1>11, RunHandlerStep, SendResultStep DEF Hooks
<1>12. CASE InvokeLocalAction(f)
  BY <1>12, InvokeLocalActionStep
<1>13. CASE CallInHandler(f)
  BY <1>13, CallInHandlerStep
<1>14. CASE HandlerReturns(f)
  BY <1>14, HandlerReturnsStep
<1>15. CASE InvokeRemoteAction(f)
  BY <1>15, InvokeRemoteActionStep
<1>16. CASE SendResponse(f)
  BY <1>16, SendResponseStep
<1>17. CASE Timeout(f)
  BY <1>17, TimeoutStep
<1>18. QED
  BY <1>3, <1>4, <1>5, <1>6, <1>7, <1>8, <1>9, <1>10, <1>11, <1>12, <1>13, <1>14, <1>15,
     <1>16, <1>17 DEF Step

\* Every step keeps the invariant.
LEMMA NextInv ==
  ASSUME IInv, [Next]_callVars
  PROVE  IInv'
<1>1. ASSUME NEW r \in Roots, NEW l \in DOMAIN script[r].calls, RootCall(r, l)
      PROVE  IInv'
  <2>1. PICK key, call : key = RootKey(r, l) /\ call = script[r].calls[l]
    OBVIOUS
  <2>2. key \in Keys /\ call \in Call /\ key.id.depth = 1
    BY <1>1, <2>1, ScriptsAssumption DEF IInv, Typed, RootKey, Key, Keys, Ids
  <2>3. /\ frames' = Added(frames, key, NewFrame(call, None)) /\ reqs' = reqs
        /\ UNCHANGED <<script, roots, chains, Counters, ress, crashed, History>>
    BY <1>1, <2>1 DEF RootCall, Config, Network
  <2>4. QED
    BY <2>2, <2>3, FrameOpens
<1>2. ASSUME NEW req \in reqs, TakeRequest(req)
      PROVE  IInv'
  <2>1. PICK key, call, from : key = Key(req.to, req.id) /\ call = req.call /\ from = req.from
    OBVIOUS
  <2>2. req \in [to : Nodes, from : Nodes, id : Ids, call : Call]
    BY DEF IInv, Typed
  <2>3. key \in Keys /\ call \in Call /\ from \in Nodes /\ from # None
    BY <2>1, <2>2, NoneAssumption DEF Key, Keys
  <2>4. /\ frames' = Added(frames, key, NewFrame(call, from)) /\ reqs' \subseteq reqs
        /\ UNCHANGED <<script, roots, chains, Counters, ress, crashed, History>>
    BY <1>2, <2>1 DEF TakeRequest, Config
  <2>5. QED
    BY <2>3, <2>4, FrameOpens
<1>3. CASE UNCHANGED callVars
  <2> USE DEF IInv, callVars, Config, Counters, Network, History
  <2>1. Typed'
    BY <1>3 DEF Typed
  <2>2. Waiting' /\ Handling' /\ Ran'
    BY <1>3 DEF Waiting, Parent, Handling, Ran, IsLocal, Measured
  <2>3. Chained'
    BY <1>3, ChainKept DEF Chained
  <2>4. Answers' /\ Selection' /\ Collected'
    BY <1>3, AnswersKept, SelectionKept, CollectedKept
  <2>5. QED
    BY <2>1, <2>2, <2>3, <2>4
<1>4. QED
  BY <1>1, <1>2, <1>3, MCallTimeoutStep, CollectStep, StepInv, TakeResponseStep DEF Next

\* The invariant.
THEOREM Invariance == Spec => []IInv
<1>1. Init => IInv
  BY InitInv
<1>2. IInv /\ [Next]_callVars => IInv'
  BY NextInv
<1>3. QED
  BY <1>1, <1>2, PTL DEF Spec

\* A result that is not an error is that of the handler of this very call, on
\* whichever node it ran and however late other answers are (registry.go:259,
\* pubsub.go:465).
THEOREM AnswersBelong == Spec => []AnswersFit
<1>1. IInv => AnswersFit
  BY DEF IInv, Answers, Answered, AnswersFit
<1>2. QED
  BY <1>1, Invariance, PTL

\* No handler runs with parameters its action's schema refuses (middleware.go:51,
\* base.go:49).
THEOREM ValidCalls == Spec => []OnlyValidCallsRun
<1>1. IInv => OnlyValidCallsRun
  BY DEF IInv, Ran, OnlyValidCallsRun
<1>2. QED
  BY <1>1, Invariance, PTL

\* MCall returns a result for each label, that of its call or the timeout
\* (main.go:382).
THEOREM MCallAnswers == Spec => []MCallsAnswerAll
<1>1. IInv => MCallsAnswerAll
  BY DEF IInv, Collected, MCallsAnswerAll
<1>2. QED
  BY <1>1, Invariance, PTL

\* With all calls measured, the spans of a handler that ran are started and
\* finished when its call is answered (metrics.go:64).
THEOREM Spans == Spec => []SpansMatch
<1>1. IInv => SpansMatch
  <2>1. \A f : /\ Measured(f, "started") /\ MetricsEvery = 1 => f \in spans.started
               /\ Measured(f, "finished") /\ MetricsEvery = 1 => f \in spans.finished
    BY DEF Measured
  <2>2. QED
    BY <2>1 DEF IInv, Ran, SpansMatch
<1>2. QED
  BY <1>1, Invariance, PTL

\* The round robin goes beyond its list only where two selections overlapped
\* (round-robin.go:12).
THEOREM Panics == Spec => []PanicsNeedOverlap
<1>1. IInv => PanicsNeedOverlap
  BY DEF IInv, Selection
<1>2. QED
  BY <1>1, Invariance, PTL
=============================================================================
