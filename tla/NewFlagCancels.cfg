\* One operator is enough for a new flag to miss the auto-clear it should cancel.
CONSTANTS
  o1 = o1
  o2 = o2
  Operator = {o1}
  Sector = {1, 2}
  Flag = {0, 2, 5}
  TrackOrder <- MCTrack2
  MaxCommands = 2
  MaxConsole = 0
  MaxFeed = 2
SPECIFICATION Spec
CHECK_DEADLOCK FALSE
PROPERTY
  NewFlagCancelsAutoClear
