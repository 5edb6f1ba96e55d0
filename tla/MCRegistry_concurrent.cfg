\* Any two handlers overlap.
SPECIFICATION Spec
CONSTANTS
  n1 = n1
  n2 = n2
  Nodes = {n1}
  Catalogs <- ActionsOnly
  MaxInfos = 1
  MaxRunning = 2
PROPERTIES
  CrashIsDetected
  LiveNodesReturn
