CHECK_DEADLOCK FALSE
SPECIFICATION ControlSpec
CONSTANTS
    Offers <- MCOffers
    NoSnapshot = NoSnapshot
    Pids = {p1}
    NoPid = NoPid
    Faults = {}
    MaxCrashes = 1
    Admins = {a1}
    MaxRevision = 3
    MaxToken = 2
    MaxCommits = 1
    MaxRestarts = 0
CONSTRAINT
    ThirdRevision
INVARIANTS
    TokenInService
    RemovedStaysDown
    NoRevisionConflict
PROPERTIES
    PromotedTokenIsServed
