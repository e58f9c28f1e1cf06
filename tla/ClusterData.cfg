SPECIFICATION FairSpec
CONSTANTS
  Groups = {"a", "b"}
  Nodes = {"a0", "a1", "b0"}
  Group <- MCGroup
  Holders = {"a0", "b0"}
  Zero = "0"
  MaxStops = 2
INVARIANTS
  TypeOK
  NoSendOnClosed
  RunningKept
PROPERTIES
  QueryEnds
