SPECIFICATION Spec
CONSTANTS
  Tracks <- MCTracks
  Profiles <- MCProfiles
  Detached = {"none", "viewer-map"}
  Visited = {"bridge", "bridge-health", "rc-flags", "admin-presence"}
  Slot = {1, 2}
  OpSlot = {1, 2}
  MaxVersion = 1
CHECK_DEADLOCK FALSE
INVARIANTS
  TypeOK
  FlagsSettle
  MapShowsTheLap
PROPERTY
  FallbackHeals
