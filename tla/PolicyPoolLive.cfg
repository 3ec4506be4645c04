SPECIFICATION FairSpec
CONSTANTS
    Runs = {r1, r2, r3}
    MaxWorkers = 2
    MaxGenerations = 1
    Sentinel = sentinel
PROPERTIES AcceptedRuns WorkersLeave
CHECK_DEADLOCK FALSE
