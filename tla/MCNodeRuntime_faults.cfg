SPECIFICATION Spec
CONSTANTS
    Offers <- MCOffers
    NoSnapshot = NoSnapshot
    Pids = {p1, p2, p3}
    NoPid = NoPid
    Faults = {"files", "verify", "spawn", "stop", "identity", "store"}
    MaxCrashes = 1
SYMMETRY PidSymmetry
INVARIANTS
    Reopenable
    PhaseMeaning
    ServesLastGood
    DisabledStaysDown
PROPERTIES
    RecordSpec
