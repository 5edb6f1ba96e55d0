\* One goroutine emits, as Start does with $broker.started.
SPECIFICATION BusSpec
CONSTANTS
  info1 = info1
  info2 = info2
  added = added
  started = started
  e1 = e1
  e2 = e2
  Callbacks = {info1, info2, added, started}
  CodeOf <- LiteralOf
  OnceOnly = {info1, info2}
  Removable = {added, started}
  Emitters = {e1}
  MaxEmits = 3
INVARIANTS
  OnceRunsOnce
  OnceIsNotLost
CHECK_DEADLOCK FALSE
