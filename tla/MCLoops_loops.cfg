\* One loop at a time, with every fault and a crash.  DownAfter is 3 in the code.
SPECIFICATION LoopsSpec
CONSTANTS
    Rents = {r1, r2}
    Pods = {p1}
    Window = 1
    MaxToggles = 1
    RentFaults = {"refuse", "poll", "slow", "insert", "destroy", "answer", "mark", "crash"}
    Watched = {w1}
    DownAfter = 3
    RecoverAfter = 2
    MaxIncidents = 3
    MaxEdits = 3
    ProbeFaults = {"sample", "open", "resolve", "state", "crash"}
    Hosts = {"h1", "h2"}
    Wild = {"h2"}
    MaxDomainId = 2
    QueueSize = 1
    MaxAsks = 3
    CertFaults = {"acme", "store", "kube", "crash"}
    MaxCertFaults = 1
    Admins = {"a"}
    Keep = 1
    MaxTime = 1
    MaxMade = 3
    MaxAdminCalls = 1
    BackupFaults = {"write", "put", "remove", "crash", "disk", "restore"}
    MaxUserRuns = 2
    MaxCrashes = 2
    MaxDeploys = 1
    UserNodes = {1, 2}
    GangTimeout = TRUE
    Reports <- NoReports
    Faults = {"apply"}
    ServeEarly = FALSE
INVARIANTS
    LoopsTypeOK
    OutageOnRecord
    BackupsWhole
    RunsWatched
    OutcomeIsTheJobs
PROPERTIES
    MachinesAccounted
    EndedRunsStay
    RunsEnd
    DomainsServed
\* Users stop when the bounds are spent.
CHECK_DEADLOCK FALSE
