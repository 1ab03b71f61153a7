SPECIFICATION FairSupSpec
CONSTANTS
    Pids = {p1, p2}
    NoPid = NoPid
    Configs = {c1, c2}
    NoConfig = NoConfig
    Timers = {t1, t2, t3}
    NoTimer = NoTimer
    Delays = 3
    Faults = {"spawn", "terminate", "kill"}
INVARIANTS
    NothingLeft
    TruthfulState
PROPERTIES
    WantedIsServed
    OperationsEnd
    KeepsPromise
    FailuresForgotten
