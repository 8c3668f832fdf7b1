SPECIFICATION D01Spec
CONSTANTS
  original = original
  drifted = drifted
  Versions <- MCVersions
  Planned = original
  Common = Common
  EngineBudget = 2
  Reserve = 3
  MaxEdits = 2
  MaxSpent = 4
INVARIANTS
  D01TypeOK
  ReturnedOnPlannedBytes
  ReturnedIsBound
  ClaimsAreSound
  ProcessWithinWindow
PROPERTIES
  SliceEnds
CHECK_DEADLOCK FALSE
