SPECIFICATION Spec
CONSTANTS
    g1 = g1
    NoGuard = NoGuard
    Guards = {g1}
    Modes <- AllSync
    MaxOrphans = 1
SYMMETRY Symmetry
INVARIANTS HookReturns
CHECK_DEADLOCK FALSE
