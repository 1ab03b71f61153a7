SPECIFICATION FairLockSpec
CONSTANTS
    Acquirers = {a1, a2, a3}
    Inspectors = {a3}
    Nobody = Nobody
    Waits = TRUE
    Faults = {"write", "rename", "pause"}
INVARIANTS
    HeldIsPublished
PROPERTIES
    OrphanIsReclaimed
CHECK_DEADLOCK FALSE
