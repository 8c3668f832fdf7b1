SPECIFICATION Spec
CONSTANTS
  original = original
  drifted = drifted
  Versions <- MCVersions
  Planned = original
  Noise = Noise
  Unread = Unread
  NumSlots = 2
  MaxEdits = 1
  MaxRuns = 2
INVARIANTS
  PublishedOnPlannedBytes
CHECK_DEADLOCK FALSE
