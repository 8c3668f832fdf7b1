SPECIFICATION D01Spec
CONSTANTS
  original = original
  drifted = drifted
  Versions <- MCVersions
  Planned = original
  Common = Common
  EngineBudget = 1
  Reserve = 1
  MaxEdits = 0
  MaxSpent = 1
PROPERTIES
  ArmFailureIsAVerdict
CHECK_DEADLOCK FALSE
