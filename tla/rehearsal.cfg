SPECIFICATION Spec
CONSTANTS
  early = early
  late = late
  Slots <- MCSlots
  Sources <- MCSources
INVARIANTS
  BoundResult
  ScoresAddUp
PROPERTIES
  CallsInTurn
CHECK_DEADLOCK FALSE
