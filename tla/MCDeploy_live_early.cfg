\* An abort or promote request while the canary track is still starting.
SPECIFICATION Spec
CONSTANTS
    MaxUserDeploys = 2
    MaxCrashes = 0
    MaxAsks = 1
    MaxEdits = 0
    MaxSyncs = 0
    Steps = 2
    Policies <- CanaryOnly
    Origins = {"image"}
    Overlap = FALSE
    Faults = FALSE
    ServeEarly = FALSE
PROPERTIES
    LiveServes
\* Users stop when the bounds are spent, and pods may stay as they are.
CHECK_DEADLOCK FALSE
