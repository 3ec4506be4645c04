SPECIFICATION Spec
CONSTANTS
    r1 = r1
    r2 = r2
    r3 = r3
    Runs = {r1, r2, r3}
    MaxLoops = 2
    MaxShutdowns = 2
SYMMETRY Symmetry
INVARIANTS OneLoop NothingLeftBehind 
CHECK_DEADLOCK FALSE
