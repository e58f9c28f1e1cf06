SPECIFICATION FairSpec
CONSTANTS
  Options <- MCOptions
  MaxRuns = 3
INVARIANTS
  DependenciesFirst
  DeleteLeavesNothing
  ReadyRunsNewConfig
PROPERTIES
  CommandEnds
