\* One subject at a time: three requests on accounts, two at once; two on
\* projects; every database of at most three deployments that an older server
\* may have left; and four trials of a sweep, the fourth compared with three that
\* ended, with good or bad metrics, which may be unreadable.
SPECIFICATION SubjectsSpec
CONSTANTS
    People = {"ann", "bob", "eve"}
    Clients = {c, d}
    MaxAccounts = 4
    MaxRequests = 3
    AccountFaults = {"mark", "crash"}
    Names = {"a", "ad"}
    Envs <- TwoEnvironments
    Spaces = {"a", "ad", "add"}
    SpaceOf <- NamesMeet
    ProjectClients = {c, d}
    MaxProjects = 2
    MaxCalls = 2
    ProjectFaults = {"seed", "kube", "crash"}
    OldProjects = {"p", "q"}
    OldApps = {"api", "web"}
    HomeOf <- InOneProject
    MaxRows = 3
    MaxUserRuns = 0
    MaxCrashes = 0
    MaxDeploys = 0
    UserNodes = {1}
    GangTimeout = TRUE
    Reports <- GoodOrBad
    Faults = {"metrics", "budget"}
    ServeEarly = FALSE
    Trials = 4
    Parallel = 1
    SweepNodes = 1
    EarlyStop = TRUE
    Direction = "min"
    UserStops = FALSE
SYMMETRY AlikeClients
INVARIANTS
    SubjectsTypeOK
    AccountsWhole
    ProjectsWhole
    MigrationsWhole
    PrunedNotBest
\* Users stop when the bounds are spent.
CHECK_DEADLOCK FALSE
