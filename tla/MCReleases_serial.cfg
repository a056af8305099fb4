\* One deploy at a time, with a crash: what the cluster and the rows say of each other.
\* Or three deploys (of which lists show two) and two sweeps of the registry, or two
\* apps under two clients, with overlapping deploys, every fault and a crash.
SPECIFICATION ReleasesSpec
CONSTANTS
    MaxUserDeploys = 4
    MaxCrashes = 1
    MaxAsks = 0
    MaxEdits = 0
    MaxSyncs = 1
    Steps = 2
    Policies <- CanaryOnly
    Origins = {"image", "redeploy", "rollback"}
    Overlap = FALSE
    Faults = FALSE
    ServeEarly = FALSE
    AppIds = {1}
    RepoOf <- OwnRepos
    MaxTags = 3
    Keep = 1
    History = 2
    Reproducible = FALSE
    MaxSweeps = 2
    AppNames = {"web", "api"}
    AppClients = {c, d}
    AppActs = {"create", "image", "source", "page", "pipeline", "sync", "eject", "adopt", "destroy"}
    MaxAppId = 2
    MaxReleases = 3
    MaxAppCalls = 5
    AppFaults = {"build", "rollout", "delete", "crash"}
SYMMETRY AlikeClients
INVARIANTS
    ClusterMatchesRows
    ImagesWhole
    AppsLeftAlone
PROPERTIES
    LiveServes
\* Users stop when the bounds are spent, and pods may stay as they are.
CHECK_DEADLOCK FALSE
