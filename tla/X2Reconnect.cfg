CONSTANTS
  o1 = o1
  o2 = o2
  Operator = {o1}
  Background = {}
  MaxSockets = 2
  MaxRequests = 2
  MaxLost = 1
  MaxKeepAlives = 1
SPECIFICATION FairSpec
CHECK_DEADLOCK FALSE
PROPERTIES
  RequestsEnd
  LossIsNoticed
