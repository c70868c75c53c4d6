CONSTANTS
  o1 = o1
  o2 = o2
  Operator = {o1, o2}
  Background = {}
  MaxSockets = 2
  MaxRequests = 2
  MaxLost = 1
  MaxKeepAlives = 0
SPECIFICATION Spec
CHECK_DEADLOCK FALSE
INVARIANT
  ReadyIsAuthenticated
