-------------------------------- MODULE Surfaces --------------------------------
(* The handlers at work: a browser and a shell send requests about the     *)
(* apps of one name in a project with two environments. A request is       *)
(* checked when it arrives and acts a moment later on what it read.        *)
(* Requests that change nothing modelled here are answered and forgotten.  *)
EXTENDS AdminHandlers

CONSTANTS MaxAsked, \* requests taken
          StartApps,   \* what production's app may be at first
          RequestFaults \* of {"crash"}

ASSUME SurfaceAssumption ==
    /\ MaxAsked \in Nat
    /\ RequestFaults \subseteq {"crash"}
    /\ {"root", "ann"} \subseteq Readers

VARIABLES carried,   \* for each environment, the app whose settings its objects carry
          addonsRun, \* the environments in which the addon's StatefulSet exists
          asked,     \* what each client has under way
          taken,     \* requests so far
          ids,       \* the newest app
          misled,    \* environments whose addon a request of another one touched
          stray,     \* an app was left outside every environment
          odd        \* default environments were set or deleted at the same time

surfaceVars == <<role, envRows, homeEnv, flagged, appAt, addonIn, hasKube, hasSealer,
                 carried, addonsRun, asked, taken, ids, misled, stray, odd>>

Clients == {"web", "api"}
NoObjects == [id |-> 0, of |-> "none", by |-> "own"]
NoRequestYet == [does |-> "nothing", env |-> "none", app |-> NoAppHere]

--------------------------------
\* uiRoutes and New: the operations, and the handler of each.

WebHandlers(q) == [
    Scale |-> UIScale(q), Autoscale |-> UIAutoscale(q), RunCreate |-> UIRunCreate(q),
    Training |-> UITraining(q), Health |-> UIHealth(q), GitTokenSet |-> UIGitTokenSet(q),
    GitTokenClear |-> UIGitTokenClear(q), WebhookEnable |-> UIWebhookEnable(q),
    WebhookDisable |-> UIWebhookDisable(q), Rollback |-> UIRollback(q),
    Redeploy |-> UIRedeploy(q), AppDestroy |-> UIAppDestroy(q), Eject |-> UIEject(q),
    Adopt |-> UIAdopt(q), DomainAdd |-> UIDomainAdd(q), DomainDelete |-> UIDomainDelete(q),
    DomainRetry |-> UIDomainRetry(q), EnvSet |-> UIEnvSet(q), EnvBulk |-> UIEnvBulk(q),
    EnvUnset |-> UIEnvUnset(q), Edit |-> UIEdit(q), VolumeAdd |-> UIVolumeAdd(q),
    VolumeRemove |-> UIVolumeRemove(q), SweepCreate |-> UISweepCreate(q),
    SweepStop |-> UISweepStop(q), PauseCron |-> UIPauseCron(q),
    ResumeCron |-> UIResumeCron(q), TriggerCron |-> UITriggerCron(q),
    Policy |-> UIPolicy(q), Uptime |-> UIUptime(q), RolloutAction |-> UIRolloutAction(q),
    AddonAttach |-> UIAddonAttach(q), AddonDetach |-> UIAddonDetach(q),
    Deploy |-> UIDeploy(q), CreateApp |-> UICreateApp(q),
    InstallTemplate |-> UIInstallTemplate(q), AddonCreate |-> UIAddonCreate(q),
    AddonDelete |-> UIAddonDelete(q), AddonUpgrade |-> UIAddonUpgrade(q),
    AddonURL |-> UIAddonURL(q), PipelineCreate |-> UIPipelineCreate(q),
    PipelineUpdate |-> UIPipelineUpdate(q), PipelineRun |-> UIPipelineRun(q),
    PipelineRunStop |-> UIPipelineRunStop(q),
    PipelineWebhookSecret |-> UIPipelineWebhookSecret(q), StatusPage |-> UIStatusPage(q),
    Incident |-> UIIncident(q), PreviewDelete |-> UIPreviewDelete(q),
    EnvCopy |-> UIEnvCopy(q), ProjectCreate |-> UIProjectCreate(q),
    MemberAdd |-> UIMemberAdd(q), MemberRemove |-> UIMemberRemove(q),
    ProjectRename |-> UIProjectRename(q), ProjectDelete |-> UIProjectDelete(q),
    GPUQuota |-> UIGPUQuota(q), Quota |-> UIQuota(q), Users |-> UIUsers(q),
    InviteCreate |-> UIInviteCreate(q), InviteRevoke |-> UIInviteRevoke(q),
    UserDelete |-> UIUserDelete(q), UserPassword |-> UIUserPassword(q),
    SettingsSet |-> UISettingsSet(q), SettingsUpdate |-> UISettingsUpdate(q),
    RegistryGC |-> UIRegistryGC(q), BackupCreate |-> UIBackupCreate(q),
    BackupPrune |-> UIBackupPrune(q), GPUKey |-> UIGPUKey(q), GPURent |-> UIGPURent(q),
    GPUStop |-> UIGPUStop(q), NodeAction |-> UINodeAction(q), Audit |-> UIAudit(q),
    Doctor |-> UIDoctor(q), AccountPassword |-> UIAccountPassword(q),
    AccountEmail |-> UIAccountEmail(q), TokenRevoke |-> UITokenRevoke(q),
    SSHKeyAdd |-> UISSHKeyAdd(q), SSHKeyDelete |-> UISSHKeyDelete(q),
    AIExplain |-> UIAIExplain(q), AppPage |-> UIAppPage(q),
    SweepTrials |-> UISweepTrials(q), PipelinePage |-> UIPipelinePage(q)]

ApiHandlers(q) == [
    Scale |-> APIScale(q), Autoscale |-> APIAutoscale(q), RunCreate |-> APIRunCreate(q),
    Training |-> APITraining(q), Health |-> APIHealth(q), GitTokenSet |-> APIGitTokenSet(q),
    GitTokenClear |-> APIGitTokenClear(q), WebhookEnable |-> APIWebhookEnable(q),
    WebhookDisable |-> APIWebhookDisable(q), Rollback |-> APIRollback(q),
    Redeploy |-> APIRedeploy(q), AppDestroy |-> APIAppDestroy(q), Eject |-> APIEject(q),
    Adopt |-> APIAdopt(q), DomainAdd |-> APIDomainAdd(q),
    DomainDelete |-> APIDomainDelete(q), DomainRetry |-> APIDomainRetry(q),
    EnvSet |-> APIEnvSet(q), EnvBulk |-> APIEnvBulk(q), EnvUnset |-> APIEnvUnset(q),
    Edit |-> APIEdit(q), VolumeAdd |-> APIVolumeAdd(q), VolumeRemove |-> APIVolumeRemove(q),
    SweepCreate |-> APISweepCreate(q), SweepStop |-> APISweepStop(q),
    PauseCron |-> APIPauseCron(q), ResumeCron |-> APIResumeCron(q),
    TriggerCron |-> APITriggerCron(q), Policy |-> APIPolicy(q), Uptime |-> APIUptime(q),
    RolloutAction |-> APIRolloutAction(q), AddonAttach |-> APIAddonAttach(q),
    AddonDetach |-> APIAddonDetach(q), Deploy |-> APIDeploy(q),
    OverrideDelete |-> APIOverrideDelete(q), S3Env |-> APIS3Env(q),
    CreateApp |-> APICreateApp(q), InstallTemplate |-> APIInstallTemplate(q),
    AddonCreate |-> APIAddonCreate(q), AddonDelete |-> APIAddonDelete(q),
    AddonUpgrade |-> APIAddonUpgrade(q), AddonURL |-> APIAddonURL(q),
    PipelineCreate |-> APIPipelineCreate(q), PipelineUpdate |-> APIPipelineUpdate(q),
    PipelineRun |-> APIPipelineRun(q), PipelineRunStop |-> APIPipelineRunStop(q),
    PipelineWebhookSecret |-> APIPipelineWebhookSecret(q),
    PipelineDelete |-> APIPipelineDelete(q),
    PipelineSecretDelete |-> APIPipelineSecretDelete(q), StatusPage |-> APIStatusPage(q),
    StatusPageDelete |-> APIStatusPageDelete(q), Incident |-> APIIncident(q),
    IncidentUpdate |-> APIIncidentUpdate(q), IncidentResolve |-> APIIncidentResolve(q),
    PreviewDelete |-> APIPreviewDelete(q), PreviewCreate |-> APIPreviewCreate(q),
    EnvCopy |-> APIEnvCopy(q), EnvCreate |-> APIEnvCreate(q),
    EnvDefault |-> APIEnvDefault(q), EnvDelete |-> APIEnvDelete(q),
    PreviewBase |-> APIPreviewBase(q), ProjectS3 |-> APIProjectS3(q),
    ProjectS3Delete |-> APIProjectS3Delete(q),
    ProjectWebhookSecret |-> APIProjectWebhookSecret(q),
    ProjectCreate |-> APIProjectCreate(q), MemberAdd |-> APIMemberAdd(q),
    MemberRemove |-> APIMemberRemove(q), ProjectRename |-> APIProjectRename(q),
    ProjectDelete |-> APIProjectDelete(q), GPUQuota |-> APIGPUQuota(q),
    Quota |-> APIQuota(q), Users |-> APIUsers(q), InviteCreate |-> APIInviteCreate(q),
    InviteRevoke |-> APIInviteRevoke(q), UserDelete |-> APIUserDelete(q),
    UserPassword |-> APIUserPassword(q), SettingsSet |-> APISettingsSet(q),
    SettingsUpdate |-> APISettingsUpdate(q), RegistryGC |-> APIRegistryGC(q),
    BackupCreate |-> APIBackupCreate(q), BackupPrune |-> APIBackupPrune(q),
    GPUKey |-> APIGPUKey(q), GPURent |-> APIGPURent(q), GPUStop |-> APIGPUStop(q),
    NodeAction |-> APINodeAction(q), Audit |-> APIAudit(q), Doctor |-> APIDoctor(q),
    AccountPassword |-> APIAccountPassword(q), AccountEmail |-> APIAccountEmail(q),
    TokenRevoke |-> APITokenRevoke(q), SSHKeyAdd |-> APISSHKeyAdd(q),
    SSHKeyDelete |-> APISSHKeyDelete(q), AIExplain |-> APIAIExplain(q),
    AppPage |-> APIAppPage(q), SweepTrials |-> APISweepTrials(q),
    PipelinePage |-> APIPipelinePage(q)]

WebRequest(u, body, found) ==
    [surface |-> "web", user |-> u, env |-> "", body |-> body, found |-> found]
ApiRequest(u, env, body, found) ==
    [surface |-> "api", user |-> u, env |-> env, body |-> body, found |-> found]

SurfaceInit ==
    /\ role \in [Readers -> {"admin", "viewer", "member", "none"}]
    /\ \A u \in Readers : role[u] = "admin" <=> u = "root"
    /\ envRows = EnvNames
    /\ homeEnv = "production"
    /\ flagged = "production"
    /\ appAt \in [Slots -> StartApps \cup {NoAppHere}]
    /\ appAt["none"] = NoAppHere
    /\ appAt["staging"] \in {NoAppHere, [NoAppHere EXCEPT !.id = 2, !.deployed = TRUE]}
    /\ hasKube \in BOOLEAN
    /\ hasSealer \in BOOLEAN
    /\ addonIn = "none"
    /\ carried = [e \in EnvNames |->
           IF appAt[e].deployed THEN [id |-> appAt[e].id, of |-> e, by |-> "own"] ELSE NoObjects]
    /\ addonsRun = {}
    /\ asked = [c \in Clients |-> NoRequestYet]
    /\ taken = 0
    /\ ids = 2
    /\ misled = {}
    /\ stray = FALSE
    /\ odd = FALSE

--------------------------------

\* What a request may do to the state kept here.
Acts == {"setting", "deploy", "delete", "eject", "adopt", "attach", "create", "install",
         "addon", "unaddon", "upgrade", "member", "unmember", "newenv", "default", "unenv"}

DefaultMoves == {"default", "flagged", "unenv"}

Free(c) == asked[c].does = "nothing" /\ taken < MaxAsked

\* A handler has passed its checks; what it read goes with the request.
Take(c, q, does) ==
    /\ taken' = taken + 1
    /\ asked' = [asked EXCEPT ![c] =
           [does |-> does, env |-> EnvMeant(q),
            app |-> IF does = "attach" THEN appAt[q.found] ELSE Target(q)]]
    /\ odd' = (odd \/ (does \in DefaultMoves
                        /\ \E o \in Clients : asked[o].does \in DefaultMoves))
    /\ UNCHANGED <<role, envRows, homeEnv, flagged, appAt, addonIn, hasKube, hasSealer,
                   carried, addonsRun, ids, misled, stray>>

\* GetApp: any app of the name, whatever its environment.
Findable == {e \in Slots : appAt[e].id # 0}
Found == IF Findable = {} THEN {"none"} ELSE Findable

\* What the handlers let through.
Effects(handlers) == UNION {{h[op].does : op \in DOMAIN h} : h \in {handlers}} \cap Acts

AskPage ==
    /\ Free("web")
    /\ \E q \in {WebRequest(u, "good", f) : u \in Readers, f \in Found} :
          \E does \in Effects(WebHandlers(q)) : Take("web", q, does)

AskApi ==
    /\ Free("api")
    /\ \E q \in {ApiRequest(u, e, "good", f) :
                    u \in Readers, f \in Found, e \in EnvNames \cup {""}} :
          \E does \in Effects(ApiHandlers(q)) : Take("api", q, does)

--------------------------------

AppsThere == {appAt[e].id : e \in Slots} \ {0}
HomeOf(id) == CHOOSE e \in Slots : appAt[e].id = id
Answer(c) == asked' = [asked EXCEPT ![c] = NoRequestYet]

Doing(c, does) == asked[c].does = does

Fixed == UNCHANGED <<hasKube, hasSealer, taken>>
SameRows    == UNCHANGED <<appAt, ids, stray>>
SameApps    == SameRows /\ UNCHANGED carried
SameProject == UNCHANGED <<role, envRows, homeEnv, flagged, odd>>
SameAddon   == UNCHANGED <<addonIn, addonsRun, misled>>

\* syncIfLive and applyAndGate write the objects of the app's name in the
\* namespace of the environment that the handler resolved.
Write(env, id, by) ==
    carried' = [carried EXCEPT ![env] = [id |-> id, of |-> HomeOf(id), by |-> by]]

LiveRow(id) == id \in AppsThere /\ appAt[HomeOf(id)].deployed

Sync(env, id, by) ==
    IF LiveRow(id) /\ hasKube THEN Write(env, id, by) ELSE UNCHANGED carried

\* The columns have been written; the objects follow if the app is live.
ActSetting(c) ==
    /\ Doing(c, "setting")
    /\ Sync(asked[c].env, asked[c].app.id, "own")
    /\ Answer(c)
    /\ SameRows /\ SameProject /\ SameAddon /\ Fixed

ActDeploy(c) ==
    /\ Doing(c, "deploy")
    /\ IF asked[c].app.id \in AppsThere
       THEN /\ appAt' = [appAt EXCEPT ![HomeOf(asked[c].app.id)].deployed = TRUE]
            /\ Write(asked[c].env, asked[c].app.id, "own")
       ELSE UNCHANGED <<appAt, carried>>
    /\ Answer(c)
    /\ UNCHANGED <<ids, stray>> /\ SameProject /\ SameAddon /\ Fixed

\* destroyApp goes by what was read: an app read as ejected keeps its objects.
ActDelete(c) ==
    /\ Doing(c, "delete")
    /\ carried' = IF asked[c].app.ejected THEN carried
                  ELSE [carried EXCEPT ![asked[c].env] = NoObjects]
    /\ appAt' = [e \in Slots |-> IF appAt[e].id = asked[c].app.id THEN NoAppHere ELSE appAt[e]]
    /\ Answer(c)
    /\ UNCHANGED <<ids, stray>> /\ SameProject /\ SameAddon /\ Fixed

SetEjected(id, value) ==
    appAt' = [e \in Slots |->
        IF appAt[e].id = id THEN [appAt[e] EXCEPT !.ejected = value] ELSE appAt[e]]

ActEject(c) ==
    /\ Doing(c, "eject")
    /\ asked[c].app.id # 0
    /\ SetEjected(asked[c].app.id, TRUE)
    /\ Answer(c)
    /\ UNCHANGED <<carried, ids, stray>> /\ SameProject /\ SameAddon /\ Fixed

ActAdopt(c) ==
    /\ Doing(c, "adopt")
    /\ SetEjected(asked[c].app.id, FALSE)
    /\ Sync(asked[c].env, asked[c].app.id, "own")
    /\ Answer(c)
    /\ UNCHANGED <<ids, stray>> /\ SameProject /\ SameAddon /\ Fixed

\* The app found by its name alone gets the addon, and its objects are written
\* in the environment of the request.
ActAttach(c) ==
    /\ Doing(c, "attach")
    /\ Sync(asked[c].env, asked[c].app.id, "found")
    /\ Answer(c)
    /\ SameRows /\ SameProject /\ SameAddon /\ Fixed

\* A row is inserted outside every environment ...
ActInsert(c) ==
    /\ Doing(c, "create")
    /\ IF appAt["none"].id # 0
       THEN Answer(c) /\ UNCHANGED <<appAt, ids>>
       ELSE LET new == [NoAppHere EXCEPT !.id = ids + 1] IN
            /\ appAt' = [appAt EXCEPT !["none"] = new]
            /\ ids' = ids + 1
            /\ asked' = [asked EXCEPT ![c].does = "place", ![c].app = new]
    /\ UNCHANGED <<carried, stray>> /\ SameProject /\ SameAddon /\ Fixed

\* ... and put into its environment, unless there is an app of the name.
ActPlace(c) ==
    LET new == asked[c].app IN
    /\ Doing(c, "place")
    /\ IF appAt["none"].id = new.id /\ appAt[asked[c].env].id = 0
       THEN /\ appAt' = [appAt EXCEPT ![asked[c].env] = new, !["none"] = NoAppHere]
            /\ UNCHANGED stray
       ELSE stray' = TRUE /\ UNCHANGED appAt
    /\ Answer(c)
    /\ UNCHANGED <<carried, ids>> /\ SameProject /\ SameAddon /\ Fixed

\* installTemplate: an app, an addon, the addon attached to the app that the
\* name finds, and a deploy. A step that fails leaves those before it.
ActInstall(c) ==
    LET env == asked[c].env
        new == [NoAppHere EXCEPT !.id = ids + 1] IN
    /\ Doing(c, "install")
    /\ IF appAt[env].id # 0
       THEN SameApps /\ SameAddon
       ELSE IF addonIn # "none"
       THEN /\ appAt' = [appAt EXCEPT ![env] = new]
            /\ ids' = ids + 1
            /\ UNCHANGED <<carried, stray>> /\ SameAddon
       ELSE /\ addonIn' = env
            /\ addonsRun' = addonsRun \cup {env}
            /\ appAt' = [appAt EXCEPT ![env] = [new EXCEPT !.deployed = TRUE]]
            /\ carried' = [carried EXCEPT ![env] = [id |-> new.id, of |-> env, by |-> "own"]]
            /\ ids' = ids + 1
            /\ UNCHANGED <<misled, stray>>
    /\ Answer(c)
    /\ SameProject /\ Fixed

\* createAddon
ActAddon(c) ==
    /\ Doing(c, "addon")
    /\ IF addonIn = "none"
       THEN addonIn' = asked[c].env /\ addonsRun' = addonsRun \cup {asked[c].env}
       ELSE UNCHANGED <<addonIn, addonsRun>>
    /\ Answer(c)
    /\ UNCHANGED misled /\ SameApps /\ SameProject /\ Fixed

\* removeAddon deletes in the environment of the request, wherever the addon is.
ActUnaddon(c) ==
    /\ Doing(c, "unaddon")
    /\ addonsRun' = addonsRun \ {asked[c].env}
    /\ addonIn' = "none"
    /\ misled' = IF addonIn \in {asked[c].env, "none"} THEN misled ELSE misled \cup {addonIn}
    /\ Answer(c)
    /\ SameApps /\ SameProject /\ Fixed

\* upgradeAddon applies there too.
ActUpgrade(c) ==
    /\ Doing(c, "upgrade")
    /\ IF addonIn = "none" THEN UNCHANGED <<addonsRun, misled>>
       ELSE /\ addonsRun' = addonsRun \cup {asked[c].env}
            /\ misled' = IF addonIn = asked[c].env THEN misled ELSE misled \cup {asked[c].env}
    /\ Answer(c)
    /\ UNCHANGED addonIn /\ SameApps /\ SameProject /\ Fixed

ActMember(c) ==
    /\ \/ Doing(c, "member") /\ \E r \in {"member", "viewer"} : role' = [role EXCEPT !["ann"] = r]
       \/ Doing(c, "unmember") /\ role' = [role EXCEPT !["ann"] = "none"]
    /\ Answer(c)
    /\ UNCHANGED <<envRows, homeEnv, flagged, odd>> /\ SameApps /\ SameAddon /\ Fixed

ActNewEnv(c) ==
    /\ Doing(c, "newenv")
    /\ envRows' = EnvNames
    /\ Answer(c)
    /\ UNCHANGED <<role, homeEnv, flagged, odd>> /\ SameApps /\ SameAddon /\ Fixed

\* handleSetDefaultEnv: the flag of the environment first ...
ActFlag(c) ==
    /\ Doing(c, "default")
    /\ asked' = [asked EXCEPT ![c].does = "flagged"]
    /\ flagged' = IF asked[c].env \in envRows THEN asked[c].env ELSE "none"
    /\ UNCHANGED <<role, envRows, homeEnv, odd>> /\ SameApps /\ SameAddon /\ Fixed

\* ... then the project's name for it.
ActName(c) ==
    /\ Doing(c, "flagged")
    /\ homeEnv' = asked[c].env
    /\ Answer(c)
    /\ UNCHANGED <<role, envRows, flagged, odd>> /\ SameApps /\ SameAddon /\ Fixed

\* handleDeleteEnv, forced: with its apps.
ActUnenv(c) ==
    LET env == asked[c].env IN
    /\ Doing(c, "unenv")
    /\ envRows' = envRows \ {env}
    /\ flagged' = IF flagged = env THEN "none" ELSE flagged
    /\ appAt' = [appAt EXCEPT ![env] = NoAppHere]
    /\ carried' = [carried EXCEPT ![env] = NoObjects]
    /\ addonsRun' = addonsRun \ {env}
    /\ Answer(c)
    /\ UNCHANGED <<role, homeEnv, odd, misled, addonIn, ids, stray>> /\ Fixed

\* The server dies: what was under way is over.
CrashRequests ==
    /\ "crash" \in RequestFaults
    /\ \E c \in Clients : asked[c].does # "nothing"
    /\ asked' = [c \in Clients |-> NoRequestYet]
    /\ odd' = (odd \/ \E c \in Clients : Doing(c, "flagged"))
    /\ stray' = (stray \/ \E c \in Clients : Doing(c, "place"))
    /\ UNCHANGED <<role, envRows, homeEnv, flagged, appAt, carried, ids>> /\ SameAddon /\ Fixed

SurfaceNext ==
    \/ AskPage \/ AskApi \/ CrashRequests
    \/ \E c \in Clients :
          \/ ActSetting(c) \/ ActDeploy(c) \/ ActDelete(c) \/ ActEject(c) \/ ActAdopt(c)
          \/ ActAttach(c) \/ ActInsert(c) \/ ActPlace(c) \/ ActInstall(c)
          \/ ActAddon(c) \/ ActUnaddon(c) \/ ActUpgrade(c)
          \/ ActMember(c) \/ ActNewEnv(c) \/ ActFlag(c) \/ ActName(c) \/ ActUnenv(c)

SurfaceSpec == SurfaceInit /\ [][SurfaceNext]_surfaceVars

--------------------------------

\* The variables have the shapes their comments give (ui.go, projects.go, store/apps.go).
SurfaceTypeOK ==
    /\ role \in [Readers -> {"admin", "member", "viewer", "none"}]
    /\ envRows \subseteq EnvNames /\ homeEnv \in EnvNames /\ flagged \in Slots
    /\ \A e \in Slots : appAt[e].id \in 0..(3 + MaxAsked)
    /\ \A e \in EnvNames : carried[e].of \in Slots /\ carried[e].by \in {"own", "found"}
    /\ addonIn \in Slots /\ addonsRun \subseteq EnvNames
    /\ taken \in 0..MaxAsked
    /\ odd \in BOOLEAN

\* When nothing is under way and a request may come, a user's are compared: every one there is.
AtRest == \A c \in Clients : Free(c)
Bodies == {"good", "over"}

Changes == Acts \cup {"row", "run", "rollout", "sweep", "pipeline", "status", "preview", "copy",
                      "project", "secret", "server"}

Passes(h) == h.answer = "pass"

\* Viewers read, strangers do not even that, and only administrators reach the
\* server's and the projects' own settings, on both surfaces
\* (docs/guides/apps-and-projects.md:70-75).
ServerChanges == {"server", "member", "unmember"}
RolesKept(u, h) ==
    \A op \in DOMAIN h :
        /\ Passes(h[op]) /\ h[op].does \in Changes => role[u] \in {"admin", "member"}
        /\ Passes(h[op]) /\ h[op].does \in ServerChanges => role[u] = "admin"

\* What one surface lets through the other does too, for the same app and
\* environment, but for three forms: the page deploys and detaches addons of
\* an ejected app, and creates apps without asking for the budget. The page
\* cannot deploy an image, and attaches addons only from an app's own page.
Twins(u, web, api, body) ==
    \A op \in DOMAIN web :
        Passes(web[op]) # Passes(api[op]) =>
            \/ op \in {"Deploy", "AddonDetach"} /\ appAt[homeEnv].ejected
            \/ op = "CreateApp" /\ body = "over"
            \/ op = "Deploy" /\ ~appAt[homeEnv].git
            \/ op = "AddonAttach" /\ appAt[homeEnv].id = 0

\* An ejected app is left to its owner (docs/operations/eject-adopt.md:20-23),
\* but for the forms above, and for what the code never asks it of.
NeverAsk == {"RolloutAction", "SweepStop", "Uptime", "Training", "AddonAttach"}
EjectedRefused(app, h, forms) ==
    \A op \in DOMAIN h \ (NeverAsk \cup forms) :
        Passes(h[op]) /\ app.ejected =>
            h[op].does \notin {"setting", "deploy", "run", "row", "sweep", "eject", "attach"}

SurfacesAgree ==
    AtRest => \A u \in Readers, b \in Bodies, f \in Found :
        LET web == WebHandlers(WebRequest(u, b, f))
            api == ApiHandlers(ApiRequest(u, homeEnv, b, f))
        IN /\ homeEnv \in envRows => Twins(u, web, api, b)
           /\ RolesKept(u, web) /\ RolesKept(u, api)
           /\ EjectedRefused(appAt[homeEnv], web, {"Deploy", "AddonDetach"})
           /\ EjectedRefused(appAt[homeEnv], api, {})

\* The objects of an app's name in an environment carry the settings of an app
\* of that environment, whichever requests overlap; a request that looks the
\* app up by its name alone may write another's (addons.go:471).
OwnObjects ==
    \A e \in EnvNames : carried[e].id # 0 /\ carried[e].by = "own" => carried[e].of = e

\* An addon runs where its row says: a request that names another environment
\* leaves it running there, or starts it twice (addons.go:583-664).
AddonWhereItIs == \A e \in addonsRun : e = addonIn \/ e \in misled

\* No app is left outside every environment, where no page shows it, unless
\* its name was taken when it was to be placed, or the server died
\* (apps.go:176-214).
AppsPlaced ==
    appAt["none"].id # 0 =>
        \/ stray
        \/ \E c \in Clients : Doing(c, "place") /\ asked[c].app.id = appAt["none"].id

\* The project's default environment exists and is the one that is flagged,
\* "so the two never disagree" (environments.go:130-134), unless two requests
\* moved it at once or the server died between the two writes.
DefaultHolds ==
    odd \/ (homeEnv \in envRows
            /\ (homeEnv = flagged \/ \E c \in Clients : Doing(c, "flagged")))

\* Both surfaces keep their promises, and the requests they let through leave
\* the apps, addons and environments in order.
SurfacesWhole == SurfacesAgree /\ OwnObjects /\ AddonWhereItIs /\ AppsPlaced /\ DefaultHolds

================================
