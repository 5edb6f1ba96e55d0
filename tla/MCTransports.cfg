SPECIFICATION Spec
CONSTANTS
  req = req
  res = res
  MaxLosses = 2
  MaxFailures = 1
  Topics <- MCTopics
  Order <- MCOrder
PROPERTIES
  
  OperationsReturn
  SubscriptionsAreServed
CHECK_DEADLOCK FALSE
