CHECK_DEADLOCK FALSE
SPECIFICATION FairControlSpec
CONSTANTS
    Offers <- MCOffers
    NoSnapshot = NoSnapshot
    Pids = {p1}
    NoPid = NoPid
    Faults = {}
    MaxCrashes = 1
    Admins = {a1}
    MaxRevision = 1
    MaxToken = 1
    MaxCommits = 1
    MaxRestarts = 1
PROPERTIES
    RemovalCompletes
