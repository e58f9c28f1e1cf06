SPECIFICATION Spec
CONSTANTS
    MaxErrors = 1
    MaxRuns = 2
    Full <- McFull
    Light <- McLight
    PollTries = 2
    ClientRetries = 2
    Items <- McItems
    Placements <- McPlacements
    Retries = 2
    Threshold = 2
    UploadNodeCount = 1
    PerNode = 2
    MaxTraffic = 2
    Credit = 1
    Boot <- McBoot
    LinkSets <- McLinkSets
    MaxFlips = 1
    ForgeDNSAddress = FALSE
INVARIANTS
    PassMeansStored
    PassMeansPaid
    PaysForCause
    AutoTlsIsReal
PROPERTIES
    BlameIsReal
