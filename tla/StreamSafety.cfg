SPECIFICATION Spec
CONSTANTS
    injection = injection
    pii = pii
    Policies <- MCPolicies
    Blocking <- MCBlocking
    Occurrences <- MCOccurrences
    MaxChars = 6
    ChunkSizes = {1, 2, 3}
    EvalInterval = 2
    EvalWindow = 4
    Holdback = 2
    Retain = 5
    ScanChunk = 3
    ScanOverlap = 1
INVARIANTS TailHeld RetainedScanned FoundWhereItIs OneTrueEvent
PROPERTIES NothingAfterBlock
CHECK_DEADLOCK FALSE
