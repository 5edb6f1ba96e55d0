\* Two callers on one node, over a transport with serial consumers.
SPECIFICATION Spec
CONSTANTS
  n1 = n1
  n2 = n2
  n3 = n3
  r1 = r1
  r2 = r2
  l1 = l1
  l2 = l2
  near = near
  hub = hub
  ping = ping
  pong = pong
  pung = pung
  moved = moved
  relay = relay
  spread = spread
  single = single
  Nodes = {n1, n2, n3}
  Actions = {near, hub, ping, pong, pung, moved, relay, spread, single}
  Roots = {r1, r2}
  Labels = {l1, l2}
  None = None
  Scripts <- MCScripts
  Offers <- MCOffers
  Known <- MCKnown
  Subcall <- MCSubcall
  Result <- MCResult
  Signature <- MCSignature
  Serial = TRUE
  Strategies = {"RoundRobin", "Random"}
  NextTwice = TRUE
  MetricsEvery = 1
INVARIANTS
  AnswersFit
  OnlyValidCallsRun
  MCallsAnswerAll
  
  PanicsNeedOverlap
PROPERTIES
  CallsEnd
CHECK_DEADLOCK FALSE
