\* Two trials at a time: a crash, a stop, a deploy of the app and failing calls
\* between any two steps of the loop.
SPECIFICATION FairSpec
CONSTANTS
    MaxUserRuns = 0
    MaxCrashes = 1
    MaxDeploys = 1
    UserNodes = {1}
    GangTimeout = TRUE
    Reports <- NoReports
    Faults = {"apply"}
    ServeEarly = FALSE
    Trials = 2
    Parallel = 2
    SweepNodes = 2
    EarlyStop = FALSE
    Direction = "min"
    UserStops = TRUE
INVARIANTS
    TrialsEndAsRuns
PROPERTIES
    PromiseSpec
    SweepEnds
\* Users stop when the sweep has ended.
CHECK_DEADLOCK FALSE
