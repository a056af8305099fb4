\* Either engine, with retries: a crash, a stop, a deploy, an apply that fails or whose answer is lost, and
\* Jobs deleted by hand between any two steps of the tick.
SPECIFICATION FairSpec
CONSTANTS
    MaxUserRuns = 0
    MaxCrashes = 1
    MaxDeploys = 1
    UserNodes = {1}
    GangTimeout = TRUE
    Reports <- NoReports
    Faults = {"apply", "answer"}
    ServeEarly = FALSE
    Last = 4
    Kind <- DiamondKinds
    Needs <- Fork
    Retries <- BothRetried
    Engines = {"native", "argo"}
    UserStops = TRUE
INVARIANTS
    AttemptsInTurn
\* The run has ended and users are done.
CHECK_DEADLOCK FALSE
PROPERTIES
    NativeRunEnds
