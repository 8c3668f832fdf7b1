SPECIFICATION RecoverySpec
CONSTANTS
  original = original
  drifted = drifted
  Versions <- MCVersions
  Planned = original
  Noise = Noise
  Unread = Unread
  NumSlots = 1
  MaxEdits = 1
  MaxTampers = 0
  MaxAttempts = 1
INVARIANTS
  RefusedIsUnpublished
CHECK_DEADLOCK FALSE
