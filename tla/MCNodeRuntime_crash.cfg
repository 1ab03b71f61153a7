SPECIFICATION FairSpec
CONSTANTS
    Offers <- LiveOffers
    NoSnapshot = NoSnapshot
    Pids = {p1, p2, p3}
    NoPid = NoPid
    Faults = {"verify", "spawn"}
    MaxCrashes = 2
INVARIANTS
    DisabledIsClean
    SingleFrps
PROPERTIES
    NoForgottenFrps
    EveryCandidateIsDecided
    SupervisedIsRecorded
