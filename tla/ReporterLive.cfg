SPECIFICATION FairSpec
CONSTANTS
    Capacity = 2
    BatchSize = 2
    MaxRetries = 1
    Threshold = 2
    MaxEvents = 3
    MaxStarts = 2
    Faults = {"disk_full"}
INVARIANTS StopPersists
PROPERTIES EventuallyLeaves StopTerminates
CHECK_DEADLOCK FALSE
