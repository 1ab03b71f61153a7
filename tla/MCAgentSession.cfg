SPECIFICATION FairSessionSpec
CONSTANTS
    Runtimes <- MCRuntimes
    NoRuntime = NoRuntime
    Initial <- New
    Faults = {"state", "file", "verify", "start", "stop"}
    MaxCrashes = 1
    MaxFrames = 1
    MaxBreaks = 1
    MaxRestores = 1
    MaxTroubles = 1
INVARIANTS
    RespawnServesTheSame
    SuccessIsServed
    NoLostUpdate
    RecordedIsApplied
    OnlyOvertakenAreRejected
PROPERTIES
    StartsAcceptedNode
    KeepsTargets
    DesiredIsAnswered
CHECK_DEADLOCK FALSE
