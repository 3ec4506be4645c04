SPECIFICATION Spec
CONSTANTS
    g1 = g1
    NoGuard = NoGuard
    g2 = g2
    g3 = g3
    Guards = {g1, g2, g3}
    Modes <- Alike
    MaxOrphans = 1
SYMMETRY Symmetry
INVARIANTS TypeOK Registered NothingForgotten OnlyForeignLoopsBlock
CHECK_DEADLOCK FALSE
