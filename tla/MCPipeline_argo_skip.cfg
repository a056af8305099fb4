\* The Argo engine with no crash, no stop and no failing call.
SPECIFICATION FairSpec
CONSTANTS
    MaxUserRuns = 0
    MaxCrashes = 0
    MaxDeploys = 0
    UserNodes = {1}
    GangTimeout = TRUE
    Reports <- NoReports
    Faults = {}
    ServeEarly = FALSE
    Last = 3
    Kind <- ChainKinds
    Needs <- Chain
    Retries <- NoRetries
    Engines = {"argo"}
    UserStops = FALSE
\* The run has ended and users are done.
CHECK_DEADLOCK FALSE
PROPERTIES
    ArgoFailFast
