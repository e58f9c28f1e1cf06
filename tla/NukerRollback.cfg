SPECIFICATION Spec
CONSTANTS
  Sets = {"bee"}
  Targets = {{"bee"}}
  Replicas <- MCReplicas
  OnDelete = {}
INVARIANT RollbackHappens
