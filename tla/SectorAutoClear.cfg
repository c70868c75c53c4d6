\* Two operators on one sector: the races of requests and timers.  The scheduler
\* keeps nothing that relates two sectors.
CONSTANTS
  o1 = o1
  o2 = o2
  Operator = {o1, o2}
  Sector = {1}
  Flag = {0, 2, 5}
  TrackOrder <- MCTrack1
  MaxCommands = 3
  MaxConsole = 0
  MaxFeed = 1
SPECIFICATION FairSpec
\* The bounds end every behaviour.
CHECK_DEADLOCK FALSE
INVARIANTS
  TypeOK
  OneTimerPerVersion
  CurrentTimerIsGreen
  SequentialClearHitsGreen
PROPERTY
  GreenIsCleared
