SPECIFICATION Spec
CONSTANTS
  original = original
  drifted = drifted
  Versions <- MCVersions
  Planned = original
  Noise = Noise
  Unread = Unread
  NumSlots = 1
  MaxEdits = 2
  MaxRuns = 2
INVARIANTS
  TypeOK
  PublishedIsComplete
  DecidedOnPlannedBytes
  BlindUntilDecided
  DiskIsPrefix
  EvidenceFromOneRun
  CompletedIsPublished
PROPERTIES
  NothingWithdrawn
  RunEndsUnlessHung
  ImplementsBlindEvaluation
  ImplementsSourceRoot
CHECK_DEADLOCK FALSE
