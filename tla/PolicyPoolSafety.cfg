SPECIFICATION Spec
CONSTANTS
    Runs = {r1, r2, r3, r4}
    MaxWorkers = 2
    MaxGenerations = 2
    Sentinel = sentinel
SYMMETRY RunSymmetry
INVARIANTS TypeOK NoRunWaitsBelowCapacity OrphansExact NothingStranded
PROPERTIES RetiredByItsOwn
CHECK_DEADLOCK FALSE
