SPECIFICATION FairControlSpec
CONSTANTS
    Offers <- MCOffers
    NoSnapshot = NoSnapshot
    Pids = {p1, p2}
    NoPid = NoPid
    Faults = {}
    MaxCrashes = 1
    Admins = {a1}
    MaxRevision = 2
    MaxToken = 2
    MaxCommits = 2
    MaxRestarts = 1
CONSTRAINT
    LiveBounds
PROPERTIES
    RemovalAdvances
    DesiredIsDecided
CHECK_DEADLOCK FALSE
