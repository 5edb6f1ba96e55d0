--------------------------- MODULE RequestsProofs ---------------------------
(***************************************************************************)
(* Proofs about Requests, for any sets of calls and nodes: the inductive   *)
(* invariant, the safety properties it implies, and that Requests          *)
(* implements RemoteCall.                                                  *)
(***************************************************************************)
EXTENDS Requests, TLAPS

\* The initial states satisfy the inductive invariant.
LEMMA InitIInv == Init => IInv
  BY DEF Init, IInv, TypeOK, WaitersArePending, WaitersAreTimed, OneAnswerer,
         HolderHasCause, AnsweredForCause, CallsInOrder, Open, Stages, Timers,
         Results

\* The steps of a caller's goroutine keep the inductive invariant.
LEMMA CallerIInv ==
  ASSUME IInv, NEW c \in Calls, Invoke(c) \/ CallerStep(c)
  PROVE  IInv'
<1> USE DEF IInv, TypeOK, WaitersArePending, WaitersAreTimed, OneAnswerer,
            HolderHasCause, AnsweredForCause, CallsInOrder, Open, Stages,
            Timers, Results, engine, network, caller
<1>1. CASE Invoke(c)
  BY <1>1 DEF Invoke
<1>2. CASE Register(c)
  BY <1>2 DEF Register
<1>3. CASE Publish(c)
  <2>1. CASE link = "closed" /\ PublishPanics
    BY <1>3, <2>1 DEF Publish
  <2>2. CASE ~(link = "closed" /\ PublishPanics)
    <3>1. /\ stage' = [stage EXCEPT ![c] = "published"]
          /\ sent \subseteq sent' /\ sent' \subseteq sent \union {c}
          /\ stage[c] = "registered" /\ UNCHANGED crashed
          /\ UNCHANGED <<target, got, final, engine, notices, cut, answers,
                         link, stopping>>
      BY <1>3, <2>2 DEF Publish
    <3>2. TypeOK' /\ WaitersArePending' /\ WaitersAreTimed'
      BY <3>1
    <3>3. OneAnswerer' /\ HolderHasCause' /\ AnsweredForCause'
      BY <3>1
    <3>4. CallsInOrder' /\ (notices \subseteq cut)' /\ (answers \subseteq sent)'
      BY <3>1
    <3>5. QED
      BY <3>2, <3>3, <3>4
  <2>3. QED
    BY <2>1, <2>2
<1>4. CASE Receive(c)
  BY <1>4 DEF Receive
<1>5. CASE Finish(c)
  BY <1>5 DEF Finish
<1>6. QED
  BY <1>1, <1>2, <1>3, <1>4, <1>5 DEF CallerStep

\* So do the goroutines that answer pending requests.
LEMMA AnswererIInv ==
  ASSUME IInv,
         \/ \E c \in Calls : \/ TimerFires(c) \/ RequestTimedOut(c)
                             \/ ReponseHandler(c) \/ Deliver(c)
         \/ \E n \in Nodes : OnNodeDisconnected(n)
         \/ Unlock
  PROVE  IInv'
<1> USE DEF IInv, TypeOK, WaitersArePending, WaitersAreTimed, OneAnswerer,
            HolderHasCause, AnsweredForCause, CallsInOrder, Open, Stages,
            Timers, Results, engine, network, caller, Stopped
<1>1. ASSUME NEW c \in Calls, TimerFires(c)
      PROVE  IInv'
  BY <1>1 DEF TimerFires
<1>2. ASSUME NEW c \in Calls, RequestTimedOut(c)
      PROVE  IInv'
  BY <1>2 DEF RequestTimedOut
<1>3. ASSUME NEW c \in Calls, ReponseHandler(c)
      PROVE  IInv'
  BY <1>3 DEF ReponseHandler
<1>4. ASSUME NEW c \in Calls, Deliver(c)
      PROVE  IInv'
  BY <1>4 DEF Deliver
<1>5. ASSUME NEW n \in Nodes, OnNodeDisconnected(n)
      PROVE  IInv'
  BY <1>5 DEF OnNodeDisconnected, PendingRequestsByNode
<1>6. ASSUME Unlock
      PROVE  IInv'
  BY <1>6 DEF Unlock
<1>7. QED
  BY <1>1, <1>2, <1>3, <1>4, <1>5, <1>6

\* So do the rest of the broker, the remote nodes and the transport.
LEMMA EnvironmentIInv ==
  ASSUME IInv,
         \/ \E c \in Calls : Execute(c)
         \/ \E n \in Nodes : EmitNodeDisconnected(n)
         \/ Stop \/ Disconnect \/ Start \/ Connect
         \/ ConnectionLost \/ ConnectionRecovered
         \/ UNCHANGED vars
  PROVE  IInv'
<1> USE DEF IInv, TypeOK, WaitersArePending, WaitersAreTimed, OneAnswerer,
            HolderHasCause, AnsweredForCause, CallsInOrder, Open, Stages,
            Timers, Results, engine, network, caller
<1>1. ASSUME NEW c \in Calls, Execute(c)
      PROVE  IInv'
  BY <1>1 DEF Execute
<1>2. ASSUME NEW n \in Nodes, EmitNodeDisconnected(n)
      PROVE  IInv'
  BY <1>2 DEF EmitNodeDisconnected
<1>3. ASSUME Stop \/ Disconnect \/ Start \/ Connect
             \/ ConnectionLost \/ ConnectionRecovered
      PROVE  IInv'
  <2>1. /\ UNCHANGED <<stage, target, got, final, pending, timer, mutex,
                       sending, notices, cut, sent, answers, crashed>>
        /\ link' \in {"up", "recovering", "closed"}
        /\ stopping' \in BOOLEAN
    <3>1. CASE Stop \/ Start
      BY <3>1 DEF Stop, Start
    <3>2. CASE Disconnect \/ Connect
      BY <3>2 DEF Disconnect, Connect
    <3>3. CASE ConnectionLost \/ ConnectionRecovered
      BY <3>3 DEF ConnectionLost, ConnectionRecovered
    <3>4. QED
      BY <1>3, <3>1, <3>2, <3>3
  <2>2. QED
    BY <2>1
<1>4. ASSUME UNCHANGED vars
      PROVE  IInv'
  BY <1>4 DEF vars
<1>5. QED
  BY <1>1, <1>2, <1>3, <1>4

\* Every step of the specification keeps the inductive invariant.
LEMMA NextIInv == IInv /\ [Next]_vars => IInv'
<1> SUFFICES ASSUME IInv, [Next]_vars
             PROVE  IInv'
  OBVIOUS
<1>1. CASE \E c \in Calls : Invoke(c) \/ CallerStep(c)
  BY <1>1, CallerIInv
<1>2. CASE \/ \E c \in Calls : \/ TimerFires(c) \/ RequestTimedOut(c)
                               \/ ReponseHandler(c) \/ Deliver(c)
           \/ \E n \in Nodes : OnNodeDisconnected(n)
           \/ Unlock
  BY <1>2, AnswererIInv
<1>3. CASE \/ \E c \in Calls : Execute(c)
           \/ \E n \in Nodes : EmitNodeDisconnected(n)
           \/ Stop \/ Disconnect \/ Start \/ Connect
           \/ ConnectionLost \/ ConnectionRecovered
           \/ UNCHANGED vars
  BY <1>3, EnvironmentIInv
<1>4. QED
  BY <1>1, <1>2, <1>3 DEF Next, Step

\* The inductive invariant holds in every reachable state.
THEOREM Invariance == Spec => []IInv
  BY InitIInv, NextIInv, PTL DEF Spec

\* Every variable keeps its type.
THEOREM TypeCorrect == Spec => []TypeOK
<1>1. IInv => TypeOK
  BY DEF IInv
<1>2. QED
  BY <1>1, Invariance, PTL

\* For every number of calls and nodes: whoever holds the mutex can finish
\* its sends, because each request it has to answer is pending, and each
\* pending request has a caller that is still going to receive.
THEOREM NobodyBlocksForEver == Spec => [](WaitersArePending /\ OneAnswerer)
<1>1. IInv => WaitersArePending /\ OneAnswerer
  BY DEF IInv
<1>2. QED
  BY <1>1, Invariance, PTL

\* No pending request is ever left without a timer, unless it is being
\* answered.
THEOREM NoLostTimeout == Spec => []WaitersAreTimed
<1>1. IInv => WaitersAreTimed
  BY DEF IInv
<1>2. QED
  BY <1>1, Invariance, PTL

\* A caller is never told of a reply, a timeout or a lost node that was not
\* its own.
THEOREM OutcomesHaveCauses == Spec => []AnsweredForCause
<1>1. IInv => AnsweredForCause
  BY DEF IInv
<1>2. QED
  BY <1>1, Invariance, PTL

-----------------------------------------------------------------------------
\* A step from a state of the inductive invariant keeps the answers given.
LEMMA StepAnswersOnce ==
  ASSUME IInv, Next
  PROVE  KeepsAnswers
<1> USE DEF KeepsAnswers, caller, engine, network
<1>1. CASE UNCHANGED <<got, final>>
  BY <1>1
<1>2. ASSUME NEW c \in Calls, Finish(c)
      PROVE  KeepsAnswers
  BY <1>2 DEF Finish, IInv, TypeOK, CallsInOrder
<1>3. ASSUME NEW c \in Calls, Deliver(c)
      PROVE  KeepsAnswers
  BY <1>3 DEF Deliver, IInv, TypeOK, CallsInOrder
<1>4. CASE \E c \in Calls : \/ Invoke(c) \/ Register(c) \/ Publish(c)
                           \/ Receive(c)
  BY <1>1, <1>4 DEF Invoke, Register, Publish, Receive
<1>5. CASE \/ \E c \in Calls : \/ TimerFires(c) \/ RequestTimedOut(c)
                              \/ ReponseHandler(c) \/ Execute(c)
           \/ \E n \in Nodes : EmitNodeDisconnected(n) \/ OnNodeDisconnected(n)
           \/ Unlock \/ Stop \/ Disconnect \/ Start \/ Connect
           \/ ConnectionLost \/ ConnectionRecovered
  <2>1. UNCHANGED <<got, final>>
    BY <1>5 DEF TimerFires, RequestTimedOut, ReponseHandler, Execute,
                EmitNodeDisconnected, OnNodeDisconnected, Unlock, Stop,
                Disconnect, Start, Connect, ConnectionLost,
                ConnectionRecovered
  <2>2. QED
    BY <2>1, <1>1
<1>6. QED
  BY <1>2, <1>3, <1>4, <1>5 DEF Next, Step, CallerStep

\* No caller is answered twice, and no user sees a result change.
THEOREM OneAnswerPerCall == Spec => AnsweredOnce
<1>1. ASSUME IInv, [Next]_vars
      PROVE  [KeepsAnswers]_vars
  BY <1>1, StepAnswersOnce
<1>2. QED
  BY <1>1, Invariance, PTL DEF Spec, AnsweredOnce

-----------------------------------------------------------------------------
(* Requests implements RemoteCall.                                         *)

\* The mapping of RC, by name.
Status  == [c \in Calls |-> StatusOf(c)]
Expired == {c \in Calls : timer[c] \in {"fired", "handled"}}

\* The initial states map to initial states.
LEMMA InitRefines == Init => RC!Init
  BY DEF Init, RC!Init, StatusOf

\* The steps that RemoteCall does not see.
LEMMA Stutters ==
  ASSUME UNCHANGED <<target, final, cut, answers, stopping>>,
         UNCHANGED <<Status, Expired>>
  PROVE  UNCHANGED RC!vars
  BY DEF RC!vars, Status, Expired

\* The steps of a caller: an Invoke opens the call, a Finish settles it.
LEMMA CallerRefines ==
  ASSUME IInv, NEW c \in Calls, Invoke(c) \/ CallerStep(c)
  PROVE  [RC!Next]_(RC!vars)
<1> USE DEF caller, engine, network, Status, Expired, StatusOf
<1>1. CASE Invoke(c)
  <2>1. RC!Open(c)
    BY <1>1 DEF Invoke, RC!Open, IInv, TypeOK
  <2>2. QED
    BY <2>1 DEF RC!Next
<1>2. CASE Register(c)
  <2>1. Status' = Status
    BY <1>2 DEF Register, IInv, TypeOK
  <2>2. Expired' = Expired
    BY <1>2 DEF Register, IInv, TypeOK, CallsInOrder
  <2>3. QED
    BY <1>2, <2>1, <2>2, Stutters DEF Register
<1>3. CASE Publish(c)
  <2>1. Status' = Status
    BY <1>3 DEF Publish, IInv, TypeOK
  <2>2. QED
    BY <1>3, <2>1, Stutters DEF Publish
<1>4. CASE Receive(c)
  <2>1. Status' = Status
    BY <1>4 DEF Receive, IInv, TypeOK
  <2>2. QED
    BY <1>4, <2>1, Stutters DEF Receive
<1>5. CASE Finish(c)
  <2>1. PICK o \in RC!Outcomes : o = final'[c] /\ RC!Cause(c, o)
    <3>1. CASE stopping
      BY <1>5, <3>1 DEF Finish, RC!Outcomes, RC!Cause, IInv, TypeOK
    <3>2. CASE ~stopping
      <4>1. got[c] \in {"reply", "timeout", "disconnected"}
        BY <1>5 DEF Finish, IInv, TypeOK, CallsInOrder, Results
      <4>2. QED
        BY <1>5, <3>2, <4>1
           DEF Finish, RC!Outcomes, RC!Cause, IInv, TypeOK, AnsweredForCause
    <3>3. QED
      BY <3>1, <3>2
  <2>2. RC!Settle(c, o)
    BY <1>5, <2>1 DEF Finish, RC!Settle, IInv, TypeOK
  <2>3. QED
    BY <2>2 DEF RC!Next
<1>6. QED
  BY <1>1, <1>2, <1>3, <1>4, <1>5 DEF CallerStep

\* The steps of the goroutines that answer change nothing but, for a timer
\* that fires, the set of expired calls.
LEMMA AnswererRefines ==
  ASSUME IInv,
         \/ \E c \in Calls : \/ TimerFires(c) \/ RequestTimedOut(c)
                             \/ ReponseHandler(c) \/ Deliver(c)
         \/ \E n \in Nodes : OnNodeDisconnected(n)
         \/ Unlock
  PROVE  [RC!Next]_(RC!vars)
<1> USE DEF caller, engine, network, Status, Expired, StatusOf, Stopped
<1>1. ASSUME NEW c \in Calls, TimerFires(c)
      PROVE  [RC!Next]_(RC!vars)
  <2>1. RC!Expire(c)
    <3>1. Expired' = Expired \union {c}
      BY <1>1 DEF TimerFires, IInv, TypeOK
    <3>2. stage[c] # "idle"
      BY <1>1 DEF TimerFires, IInv, CallsInOrder
    <3>3. QED
      BY <1>1, <3>1, <3>2 DEF TimerFires, RC!Expire
  <2>2. QED
    BY <2>1 DEF RC!Next
<1>2. ASSUME NEW c \in Calls, RequestTimedOut(c)
      PROVE  [RC!Next]_(RC!vars)
  <2>1. Expired' = Expired
    BY <1>2 DEF RequestTimedOut, IInv, TypeOK
  <2>2. QED
    BY <1>2, <2>1, Stutters DEF RequestTimedOut
<1>3. ASSUME NEW c \in Calls, ReponseHandler(c)
      PROVE  [RC!Next]_(RC!vars)
  <2>1. Expired' = Expired
    BY <1>3 DEF ReponseHandler, IInv, TypeOK
  <2>2. QED
    BY <1>3, <2>1, Stutters DEF ReponseHandler
<1>4. ASSUME NEW c \in Calls, Deliver(c)
      PROVE  [RC!Next]_(RC!vars)
  <2>1. Status' = Status
    BY <1>4 DEF Deliver, IInv, TypeOK
  <2>2. Expired' = Expired
    BY <1>4 DEF Deliver, IInv, TypeOK
  <2>3. QED
    BY <1>4, <2>1, <2>2, Stutters DEF Deliver
<1>5. ASSUME NEW n \in Nodes, OnNodeDisconnected(n)
      PROVE  [RC!Next]_(RC!vars)
  BY <1>5, Stutters DEF OnNodeDisconnected
<1>6. ASSUME Unlock
      PROVE  [RC!Next]_(RC!vars)
  BY <1>6, Stutters DEF Unlock
<1>7. QED
  BY <1>1, <1>2, <1>3, <1>4, <1>5, <1>6

\* A remote execution is a reply, a reported node is cut, and the broker
\* stops and starts; the transport is invisible.
LEMMA EnvironmentRefines ==
  ASSUME IInv,
         \/ \E c \in Calls : Execute(c)
         \/ \E n \in Nodes : EmitNodeDisconnected(n)
         \/ Stop \/ Disconnect \/ Start \/ Connect
         \/ ConnectionLost \/ ConnectionRecovered
  PROVE  [RC!Next]_(RC!vars)
<1> USE DEF caller, engine, network, Status, Expired, StatusOf
<1>1. ASSUME NEW c \in Calls, Execute(c)
      PROVE  [RC!Next]_(RC!vars)
  <2>1. stage[c] # "idle"
    BY <1>1 DEF Execute, IInv, CallsInOrder
  <2>2. RC!Reply(c)
    BY <1>1, <2>1 DEF Execute, RC!Reply
  <2>3. QED
    BY <2>2 DEF RC!Next
<1>2. ASSUME NEW n \in Nodes, EmitNodeDisconnected(n)
      PROVE  [RC!Next]_(RC!vars)
  <2>1. RC!Cut(n)
    BY <1>2 DEF EmitNodeDisconnected, RC!Cut
  <2>2. QED
    BY <2>1 DEF RC!Next
<1>3. CASE Stop \/ Start
  <2>1. RC!StopOrStart
    BY <1>3 DEF Stop, Start, RC!StopOrStart, IInv, TypeOK
  <2>2. QED
    BY <2>1 DEF RC!Next
<1>4. CASE Disconnect \/ Connect \/ ConnectionLost \/ ConnectionRecovered
  BY <1>4, Stutters DEF Disconnect, Connect, ConnectionLost,
                        ConnectionRecovered
<1>5. QED
  BY <1>1, <1>2, <1>3, <1>4

\* Every step maps to a step of RemoteCall or to a stutter.
LEMMA NextRefines == IInv /\ [Next]_vars => [RC!Next]_(RC!vars)
<1> SUFFICES ASSUME IInv, [Next]_vars
             PROVE  [RC!Next]_(RC!vars)
  OBVIOUS
<1>1. CASE \E c \in Calls : Invoke(c) \/ CallerStep(c)
  BY <1>1, CallerRefines
<1>2. CASE \/ \E c \in Calls : \/ TimerFires(c) \/ RequestTimedOut(c)
                               \/ ReponseHandler(c) \/ Deliver(c)
           \/ \E n \in Nodes : OnNodeDisconnected(n)
           \/ Unlock
  BY <1>2, AnswererRefines
<1>3. CASE \/ \E c \in Calls : Execute(c)
           \/ \E n \in Nodes : EmitNodeDisconnected(n)
           \/ Stop \/ Disconnect \/ Start \/ Connect
           \/ ConnectionLost \/ ConnectionRecovered
  BY <1>3, EnvironmentRefines
<1>4. CASE UNCHANGED vars
  BY <1>4, Stutters DEF vars, Status, Expired, StatusOf
<1>5. QED
  BY <1>1, <1>2, <1>3, <1>4 DEF Next, Step

\* Requests implements RemoteCall: for every number of calls and nodes, each
\* call is settled at most once and each outcome has a cause.
THEOREM Refinement == Spec => ImplementsRemoteCall
<1>1. Spec => [][Next]_vars
  BY PTL DEF Spec
<1>2. Init => RC!Init
  BY InitRefines
<1>3. QED
  BY <1>1, <1>2, NextRefines, Invariance, PTL
     DEF Spec, ImplementsRemoteCall, RC!Spec
=============================================================================
