\* One part at a time: two requests on two branches of one name, the settings of an app,
\* two addons under two clients, and two requests through two surfaces.
SPECIFICATION PartsSpec
CONSTANTS
    EnvRequests = {c, d}
    Kinds = {"push", "closed", "create", "delete", "deleteEnv", "createEnv", "setDefault"}
    Branches = {"feat/x", "feat-x"}
    NameOf <- SlashIsDash
    NewNames = {"s"}
    MaxId = 3
    EnvFaults = {"namespace", "clone", "crash"}
    Askers = {a1}
    SettingKinds = {"scale", "autoscale", "addVolume", "removeVolume", "sync"}
    ScaleColumns = {"replicas", "gpu"}
    MaxReplicas = 2
    GPUQuota = 1
    MaxAppDeploys = 1
    SettingFaults = {"store", "kube"}
    AddonNames = {db, db2}
    AddonClients = {c, d}
    AddonKinds = {"create", "add", "attach", "detach", "upgrade", "remove", "force", "keep"}
    MaxAddonId = 2
    MaxMinted = 3
    MaxCalls = 4
    AddonFaults = {"apply", "delete", "crash"}
    Readers = {"root", "ann"}
    MaxAsked = 2
    StartApps <- SomeApps
    RequestFaults = {"crash"}
SYMMETRY Alike
INVARIANTS
    PartsTypeOK
    EnvironmentsWhole
    SettingsReach
    AddonsWhole
    RequestsWhole
\* Users stop when the bounds are spent.
CHECK_DEADLOCK FALSE
