SPECIFICATION Spec
CONSTANTS
  Car <- MCCar
  Link <- MCLink
  Feed <- MCFeed
  LinkTables <- MCLinkTables
  EnvPrimary = 21
  EnvTest = 31
  Typed <- MCTyped
  Edited <- MCEdited
  Stored <- MCStored
  Slot = {1, 2}
  MaxEvents = 3
CHECK_DEADLOCK FALSE
INVARIANTS
  TypeOK
  StoredKeyIsAccountedFor
  OneDispatchAtATime
  RealtimeLapIsNeverYellow
  FramesRead
  BestsAreMinima
  ScreensCurrent
  RestMeansDone
PROPERTIES
  TestLinkShowsTheTestFrame
