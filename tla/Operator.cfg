SPECIFICATION OperatorSpec
CHECK_DEADLOCK FALSE
CONSTANTS
    Pods <- McPods
    Labels <- McLabels
    Services <- McServices
    MaxRetries = 2
    MaxChanges = 3
INVARIANTS OperatorTypeOK OwnAddress
PROPERTIES EventsHandled
