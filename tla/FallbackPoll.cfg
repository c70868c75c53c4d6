SPECIFICATION Spec
CONSTANTS
  Tracks <- MCTracks
  Profiles <- MCProfiles
  Detached = {"none"}
  Visited = {"bridge"}
  Slot = {1, 2}
  OpSlot = {1, 2}
  MaxVersion = 1
CHECK_DEADLOCK FALSE
PROPERTY FallbackCatchesUp
