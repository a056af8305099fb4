\* A run under either engine: a crash, a stop, a deploy of the app, a failing call, Jobs
\* and Workflows deleted by hand between any two steps of the tick.  Three runs a schedule
\* and requests start within two minutes, and a crash.  Two pushes and three builds.
SPECIFICATION PipelinesSpec
CONSTANTS
    MaxUserRuns = 0
    MaxCrashes = 1
    MaxDeploys = 1
    UserNodes = {1}
    GangTimeout = TRUE
    Reports <- NoReports
    Faults = {"apply"}
    ServeEarly = FALSE
    Last = 4
    Kind <- DiamondKinds
    Needs <- Diamond
    Retries <- ImageRetried
    Engines = {"native", "argo"}
    UserStops = TRUE
    Pipes = {"p"}
    Callers = {"c"}
    Deliveries = {"x"}
    Crons = {"often"}
    DueAt <- Often
    RunsListed = 2
    MaxMinute = 1
    MaxStarts = 3
    MaxAskings = 2
    ScheduleFaults = {"crash"}
    Hooks = {"g", "h"}
    MaxPushes = 2
    MaxBuilds = 3
    PushFaults = {"handle", "lost", "crash"}
INVARIANTS
    StepsInOrder
    TriggersTypeOK
    SchedulesWhole
    PushesWhole
\* The run has ended, and users and providers are done.
CHECK_DEADLOCK FALSE
PROPERTIES
    PromiseSpec
