\* One operator, three sectors in another order than their ids.
CONSTANTS
  o1 = o1
  o2 = o2
  Operator = {o1}
  Sector = {1, 2, 3}
  Flag = {0, 2, 5}
  TrackOrder <- MCTrack3
  MaxCommands = 2
  MaxConsole = 1
  MaxFeed = 1
SPECIFICATION Spec
\* The bounds end every behaviour.
CHECK_DEADLOCK FALSE
PROPERTY
  YellowNeighbourKeepsGreen
