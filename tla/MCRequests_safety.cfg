\* Two callers and two nodes, on a transport that panics once it is closed.
SPECIFICATION Spec
CONSTANTS
  c1 = c1
  c2 = c2
  n1 = n1
  n2 = n2
  Calls = {c1, c2}
  Nodes = {n1, n2}
  PublishPanics = TRUE
INVARIANTS
  TypeOK
  WaitersArePending
  WaitersAreTimed
  AnsweredForCause
PROPERTIES
  AnsweredOnce
  ImplementsRemoteCall
SYMMETRY CallSymmetry
CHECK_DEADLOCK FALSE
