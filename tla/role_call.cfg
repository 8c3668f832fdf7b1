SPECIFICATION Spec
CONSTANTS
  candidates = candidates
  c1 = c1
  link = link
  verifier = verifier
  runtime = runtime
  Capabilities <- MCCapabilities
  Files <- MCFiles
  Real <- MCReal
  PublicPaths <- MCPublicPaths
  MaxLines = 5
  MaxOdd = 1
INVARIANTS
  TypeOK
  SoundAnswer
  StreamReadExactly
  ScratchFollowsCall
  DeniedStaysUnreadable
PROPERTIES
  CallEnds
CHECK_DEADLOCK FALSE
