SPECIFICATION FairSpec
CONSTANTS
  BootGroups <- MCBootGroups
  OtherGroups <- MCOtherGroups
  Nodes <- MCNodes
  Group <- MCGroup
  Own <- MCOwn
  Preset <- MCPreset
  Addressless <- MCAddressless
  Empty = ""
  NoGroup = "-"
  NotCreated = "not created"
  Torn = "torn"
INVARIANTS
  BootnodesFirst
  SuccessIsComplete
  OnlyReadyFunded
  OthersShareBootnode
PROPERTIES
  SetupEnds
  StartsInOrder
