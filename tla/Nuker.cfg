SPECIFICATION FairSpec
CONSTANTS
  Sets = {"bee", "bees", "boot", "idle"}
  Targets = {{"bee", "boot", "idle"}, {"bees", "idle"}}
  Replicas <- MCReplicas
  OnDelete = {"boot"}
INVARIANTS
  OthersRestored
  SuccessMeansNuked
PROPERTIES
  PodsReturn
