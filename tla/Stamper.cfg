SPECIFICATION Spec
CHECK_DEADLOCK FALSE
CONSTANTS
    NodeCount = 2
    Names = {"a", "b", "new"}
    InitBatches <- MCBatches
    Prices = {0, 1, 2}
    Commands = {"create", "topup", "dilute", "set"}
    Duration = 6
    Depth = 4
    TtlThreshold = 8
    TopUpTo = 24
    UsageThreshold = 90
    ExtraDepth = 1
    NodeBlockTime = 2
    SecondsPerBlock = 3
    BucketDepth = 2
    BatchIDs = {}
    PostageLabels = {}
    MaxEvents = 1
    MaxFailures = 2
INVARIANTS TypeOK SetHeals
PROPERTIES NoOverpay Settles
