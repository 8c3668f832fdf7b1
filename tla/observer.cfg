SPECIFICATION Spec
CONSTANTS
  moon = moon
  comet = comet
  first = first
  second = second
  Aliases <- MCAliases
  Objects <- MCObjects
  NoAlias = NoAlias
  NoObject = NoObject
  MaxSteps = 4
INVARIANTS
  FaithfulTranscript
  HandleReleased
  IdentityIsPreserved
CHECK_DEADLOCK FALSE
