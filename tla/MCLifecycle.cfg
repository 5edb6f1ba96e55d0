\* One goroutine starts and stops the broker, the others publish two services.
SPECIFICATION Spec
CONSTANTS
  s1 = s1
  s2 = s2
  p1 = p1
  p2 = p2
  PublishedBy <- MCPublishedBy
  Main = main
  Publishers = {p1, p2}
  Services = {s1, s2}
  Dependencies <- MCDependencies
  NodeName = NodeName
  None = None
  MaxStarts = 2
  MaxStops = 1
  MaxFailures = 1
INVARIANTS
  EveryServiceIsStarted
  StoppedServices
  RegisteredOnce
  HeartbeatsGoOn
PROPERTIES
  CallsReturn
CHECK_DEADLOCK FALSE
