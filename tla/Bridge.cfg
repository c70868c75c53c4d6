SPECIFICATION Spec
CONSTANTS
  MaxSockets = 2
  MaxVersion = 1
  MaxManual = 1
  MaxInFlight = 2
  Slot = {1, 2}
CHECK_DEADLOCK FALSE
INVARIANTS
  TypeOK
  OneConnectionAlways
  StoredSignatureWasSent
  SyncedWhileConnected
PROPERTIES
  CatchesUp
