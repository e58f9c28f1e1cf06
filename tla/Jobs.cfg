SPECIFICATION Spec
CONSTANTS
    MaxPasses = 3
    Uploaders <- McUploaders
    Downloaders <- McDownloaders
    Retries = 2
    MaxIter = 2
    ChunkCount = 3
    Concurrency = 2
    MaxAttempts = 2
    Groups <- McGroups
    PeersOf <- McPeersOf
    Owner <- McOwner
    Listed <- McListed
    Strategies <- McStrategies
    MaxCommands = 2
    MaxDeaths = 1
    MaxHeight = 6
    Gaps <- McGaps
    Offsets <- McOffsets
    MaxCalls = 2
    MaxInt64 = 1000
INVARIANTS
    NilMeansDone
    MismatchIsReal
    BlockTimeInRange
PROPERTIES
    JobEnds
