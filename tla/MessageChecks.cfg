SPECIFICATION Spec
CHECK_DEADLOCK FALSE
CONSTANTS
    NumChunks = 2
    Count = 2
    MaxArrivals = 3
INVARIANTS PassMeansDelivered InOrder
PROPERTIES CheckEnds
