\* A broker, its own services and those of one other node that restarts.
SPECIFICATION Spec
CONSTANTS
  self = self
  n1 = n1
  n2 = n2
  math = math
  mail = mail
  dnode = dnode
  add = add
  sub = sub
  list = list
  dlog = dlog
  created = created
  sent = sent
  dconn = dconn
  m1 = m1
  m2 = m2
  g1 = g1
  v2 = v2
  key1 = key1
  key2 = key2
  NoVersion = NoVersion
  NoGroup = NoGroup
  Internal = {dnode, dlog, dconn}
  Config <- MCConfig
  Self = self
  Nodes = {n1}
  LocalSchemas <- MCLocal
  RemoteSchemas <- MCRemote
  LocalObjects <- MCObjects
  MaxLocal = 1
  MaxPublished = 2
  MaxRestarts = 1
INVARIANTS
  KnownAsPublished
  RoutesAgree
  ListenersAgree
  KnownByName
  OwnDefinitionsWin
  HooksInOrder
  
