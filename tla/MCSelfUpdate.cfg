SPECIFICATION FairUpdateSpec
CONSTANTS
    Upgrades = {u1, u2}
    Starts = {c1}
    Versions = {1, 2}
    Installed = 1
    NoFile = NoFile
    NoState = NoState
    MaxDeaths = 1
INVARIANTS
    OneAtATime
    ResultIsTrue
    BinarySurvives
    ShownOnce
PROPERTIES
    PendingEnds
CHECK_DEADLOCK FALSE
