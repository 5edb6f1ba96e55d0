\* Two callers of one node, on a transport that drops messages once closed.
SPECIFICATION Spec
CONSTANTS
  c1 = c1
  c2 = c2
  n1 = n1
  n2 = n2
  Calls = {c1, c2}
  Nodes = {n1}
  PublishPanics = FALSE
PROPERTIES
  CallsEnd
CHECK_DEADLOCK FALSE
