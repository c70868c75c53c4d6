CONSTANTS
  p1 = p1
  p2 = p2
  u1 = u1
  u2 = u2
  Publisher = {p1, p2}
  Subscriber = {u1}
  MaxChanges = 4
SPECIFICATION FairSpec
\* The bound ends every behaviour, and a stream may stay parked.
CHECK_DEADLOCK FALSE
INVARIANTS
  TypeOK
  SendsOnlyToOpenChannels
  NewestIsKept
PROPERTIES
  PublicationsEnd
  ParkedIsReleased
