SPECIFICATION Spec
CONSTANTS
  t1 = t1
  t2 = t2
  accumulate = accumulate
  order = order
  Assertions <- MCAssertions
  Contracts <- MCContracts
  Candidates <- MCCandidates
  Contents <- MCContents
  Risks <- MCRisks
  Plans <- MCPlans
  Reasoned <- MCReasoned
  Foreign <- MCForeign
  MaxRuns = 2
  MaxDamage = 2
INVARIANTS
  VerdictIsEarned
  ReplayIsExact
  FilesOfOneRun
SYMMETRY MCSymmetry
CHECK_DEADLOCK FALSE
