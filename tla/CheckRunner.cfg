SPECIFICATION FairSpec
CONSTANTS
  N = 3
  Timed <- MCTimed
INVARIANTS
  NilMeansAllPassed
  AllOrNothing
PROPERTIES
  RunEnds
