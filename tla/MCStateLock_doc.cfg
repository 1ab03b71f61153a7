SPECIFICATION LockSpec
CONSTANTS
    Acquirers = {a1, a2, a3}
    Inspectors = {}
    Nobody = Nobody
    Waits = TRUE
    Faults = {}
SYMMETRY AcquirerSymmetry
INVARIANTS
    MutualExclusion
CHECK_DEADLOCK FALSE
