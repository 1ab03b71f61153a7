SPECIFICATION Spec
CONSTANTS
    Offers <- SmallOffers
    NoSnapshot = NoSnapshot
    Pids = {p1, p2}
    NoPid = NoPid
    Faults = {"files"}
    MaxCrashes = 1
SYMMETRY PidSymmetry
INVARIANTS
    ReportedStoppedIsStopped
