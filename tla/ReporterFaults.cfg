SPECIFICATION Spec
CONSTANTS
    Capacity = 2
    BatchSize = 2
    MaxRetries = 1
    Threshold = 2
    MaxEvents = 3
    MaxStarts = 2
    Faults = {"external_flush", "other_error", "partial_accept", "recovery_failure", "crash"}
INVARIANTS TypeOK Kept HeldOnce FinalVerdict Accounting OldestFirst OneLatePost
PROPERTIES ImplementsLedger
CHECK_DEADLOCK FALSE
