SPECIFICATION RecoverySpec
CONSTANTS
  original = original
  drifted = drifted
  Versions <- MCVersions
  Planned = original
  Noise = Noise
  Unread = Unread
  NumSlots = 1
  MaxEdits = 2
  MaxTampers = 1
  MaxAttempts = 2
INVARIANTS
  RecoveryTypeOK
  FailureIsFinal
  CompletedOnFrozenDecisions
PROPERTIES
  RecoveryEndsUnlessStuck
CHECK_DEADLOCK FALSE
