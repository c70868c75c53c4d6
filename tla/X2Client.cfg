CONSTANTS
  o1 = o1
  o2 = o2
  Operator = {o1, o2}
  Background = {o2}
  MaxSockets = 2
  MaxRequests = 2
  MaxLost = 1
  MaxKeepAlives = 0
SPECIFICATION Spec
CHECK_DEADLOCK FALSE
INVARIANTS
  TypeOK
  StateMatchesConn
  Watched
  NoSocketIsLeaked
  UndisturbedReadyIsAuthenticated
  DeliveredAtMostOnce
