\* Every catalog of up to four entries, every way to send an event.
SPECIFICATION Spec
CONSTANTS
  self = self
  n1 = n1
  n2 = n2
  orders = orders
  billing = billing
  mail = mail
  g1 = g1
  g2 = g2
  Nodes = {self, n1, n2}
  Self = self
  Services = {orders, billing, mail}
  Groups = {g1, g2}
  GroupOf <- MCGroupOf
  MaxEntries = 4
INVARIANTS
  EveryGroupIsReached
  OneGroupRunsOnce
  LocalHandlerRunsOnce
