\* Everything at once on a small history: both strategies, every way to deploy, overlapping
\* requests, faults, a crash, a promote or abort request, a policy edit, a settings sync.
SPECIFICATION FairSpec
CONSTANTS
    MaxUserDeploys = 2
    MaxCrashes = 1
    MaxAsks = 1
    MaxEdits = 1
    MaxSyncs = 1
    Steps = 2
    Policies <- EitherStrategy
    Origins = {"image", "git", "tarball", "redeploy", "rollback"}
    Overlap = TRUE
    Faults = TRUE
    ServeEarly = FALSE
INVARIANTS
    TypeOK
    OneDriver
    OrphansExplained
    RollbackOnce
PROPERTIES
    LifecycleSpec
    DeploysSettle
\* Users stop when the bounds are spent, and pods may stay as they are.
CHECK_DEADLOCK FALSE
