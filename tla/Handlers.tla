-------------------------------- MODULE Handlers --------------------------------
(* What every handler of the web pages and of the JSON API asks before it  *)
(* acts, in the order in which it asks, and what it then does. A handler   *)
(* is the value of Handle: the first check that fails, or the effect.      *)
(* Most handlers come in two, one for each surface, and share a core.      *)
(* q is a request: its surface, the user it comes from, the environment    *)
(* its path names ("" when it names none) and what its body is like.       *)
EXTENDS Integers, Sequences

CONSTANT Readers \* the users of the server

VARIABLES role,      \* each user's part in the project: users.role, project_members
          envRows,   \* the project's environments, by name
          homeEnv,   \* projects.default_env
          appAt,     \* the apps of the name asked for, by environment
          hasKube,   \* s.kube # nil
          flagged,   \* environments.is_default, by name
          addonIn,   \* the environment of the project's addon; "none" without one
          hasSealer  \* s.sealer # nil

EnvNames == {"production", "staging"}

\* environment_id 0: the app is not yet in an environment.
Slots == EnvNames \cup {"none"}

NoAppHere == [id |-> 0, kind |-> "web", git |-> FALSE, ejected |-> FALSE, deployed |-> FALSE]

--------------------------------
\* Checks. Each is "pass" or the reason given.

Unless(refuses, reason) == IF refuses THEN reason ELSE "pass"

FirstRefusal(checks) ==
    LET fails == {i \in DOMAIN checks : checks[i] # "pass"} IN
    IF fails = {} THEN "pass" ELSE checks[CHOOSE i \in fails : \A j \in fails : i <= j]

Handle(checks, effect) ==
    LET answer == FirstRefusal(checks) IN
    [answer |-> answer, does |-> IF answer = "pass" THEN effect ELSE "nothing"]

\* requireProject and uiProject: an API client that is no member is told it is
\* not, a browser that there is no such page.
ProjectRead(q) ==
    Unless(role[q.user] = "none", IF q.surface = "api" THEN "forbidden" ELSE "not found")

\* requireProjectWrite, uiProjectWrite
ProjectWrite(q) ==
    FirstRefusal(<<ProjectRead(q), Unless(role[q.user] = "viewer", "read only")>>)

\* adminOnly, uiAdmin
AdminOnly(q) ==
    Unless(role[q.user] # "admin", IF q.surface = "api" THEN "forbidden" ELSE "not found")

\* The environment a path means: the default one when it names none.
EnvMeant(q) == IF q.env = "" THEN homeEnv ELSE q.env

\* resolveEnv, uiEnv
EnvThere(q) == Unless(EnvMeant(q) \notin envRows, "no such environment")

\* requireEnv, requireEnvWrite
EnvRead(q)  == FirstRefusal(<<ProjectRead(q), EnvThere(q)>>)
EnvWrite(q) == FirstRefusal(<<ProjectWrite(q), EnvThere(q)>>)

\* requireApp, uiApp: the app of the environment the path means.
Target(q) == appAt[EnvMeant(q)]
AppThere(q) == FirstRefusal(<<EnvThere(q), Unless(Target(q).id = 0, "no such app")>>)

\* a.Ejected, refuseEjected
NotEjected(q) == Unless(Target(q).ejected, "ejected")

\* requireKube, s.kube == nil
Cluster == Unless(~hasKube, "no cluster")

\* s.sealer == nil
Sealed == Unless(~hasSealer, "no sealer")

KindIn(q, kinds) == Unless(Target(q).kind \notin kinds, "wrong kind")
FromGit(q)       == Unless(~Target(q).git, "not a git app")
Deployed(q)      == Unless(~Target(q).deployed, "not deployed")

\* requireJobApp, requireCronApp
JobThere(q)  == FirstRefusal(<<AppThere(q), KindIn(q, {"job"})>>)
CronThere(q) == FirstRefusal(<<AppThere(q), KindIn(q, {"cron"})>>)

\* A sweep is found by its id, and is of a job.
SweepThere(q) == Unless(Target(q).kind # "job", "no such sweep")

\* A body that does not parse, values that are refused, and a GPU budget that
\* would be exceeded.
Parsed(q) == Unless(q.body = "malformed", "bad request")
Fit(q)    == Unless(q.body = "unfit", "bad request")
Budget(q) == Unless(q.body = "over", "over budget")

--------------------------------
\* The cores that two surfaces share.

\* With an app that runs, its new shape has to reach the cluster.
ScaleApp(q) ==
    <<NotEjected(q), Fit(q), Budget(q), Unless(Target(q).deployed /\ ~hasKube, "no cluster")>>

AutoscaleApp(q) ==
    <<NotEjected(q), KindIn(q, {"web", "worker"}), Fit(q),
      Unless(Target(q).deployed /\ ~hasKube, "no cluster")>>

StartRun(q)      == <<Budget(q), Deployed(q)>>
SetTraining(q)   == <<Budget(q), Fit(q)>>
SetHealth(q)     == <<NotEjected(q), KindIn(q, {"web"}), Fit(q)>>
SetGitToken(q)   == <<NotEjected(q), FromGit(q), Sealed, Fit(q)>>
ClearGitToken(q) == <<NotEjected(q)>>
DeployGitApp     == <<Cluster>>

\* Mutant: an ejected app is deployed again.
RedeployAnyway(q) == <<Unless(~Target(q).git /\ ~Target(q).deployed, "not deployed")>>

Redeploy(q)      == <<NotEjected(q), Unless(~Target(q).git /\ ~Target(q).deployed, "not deployed")>>
Rollback(q)      == <<NotEjected(q), Deployed(q), Fit(q)>>
DestroyApp(q)    == <<Unless(~Target(q).ejected /\ ~hasKube, "no cluster")>>
AddDomain(q)     == <<NotEjected(q), KindIn(q, {"web"}), Fit(q)>>
SetEnvVars(q)    == <<NotEjected(q), Sealed, Fit(q)>>
UnsetEnvVar(q)   == <<NotEjected(q), Fit(q)>>
SetOverride(q)   == <<NotEjected(q), Fit(q)>>
AddVolume(q)     == <<NotEjected(q), Unless(Target(q).kind = "cron", "wrong kind"), Fit(q)>>
RemoveVolume(q)  == <<NotEjected(q), Unless(q.body = "purge" /\ ~hasKube, "no cluster"), Fit(q)>>
StartSweep(q)    == <<Fit(q), Deployed(q)>>
SetPolicy(q)     == <<NotEjected(q), Fit(q)>>
SetUptime(q)     == <<KindIn(q, {"web"}), Fit(q)>>
RequestRollout(q) == <<Fit(q)>>
EnableWebhook(q) == <<FromGit(q), Sealed>>
\* attachAddon looks the app up in the whole project: q.found is where it is found.
AttachAddon(q) ==
    <<Unless(appAt[q.found].id = 0, "no such app"), Unless(appAt[q.found].ejected, "ejected")>>
AddonThere(q)    == Unless(addonIn = "none", "no such addon")
RemoveAddon(q)   == <<Fit(q)>>
InstallTemplate(q) == <<Sealed, Unless(Target(q).id # 0, "app exists")>>
CreateAddon(q)   == <<Sealed, Fit(q), Unless(addonIn # "none", "addon exists")>>
CreateApp        == <<Unless(appAt["none"].id # 0, "app exists")>>
DeleteProject(q) ==
    <<Unless((\E e \in DOMAIN appAt : appAt[e].id # 0) /\ ~hasKube, "no cluster")>>

--------------------------------
\* The handlers of an app: first the one behind the page, then the one of the
\* API. "setting" changes the app's rows and, while it is deployed, its objects.

UIScale(q) == Handle(<<ProjectWrite(q), AppThere(q), Parsed(q)>> \o ScaleApp(q), "setting")
APIScale(q) == Handle(<<EnvWrite(q), AppThere(q), Parsed(q)>> \o ScaleApp(q), "setting")

UIAutoscale(q) ==
    Handle(<<ProjectWrite(q), AppThere(q), Parsed(q)>> \o AutoscaleApp(q), "setting")
APIAutoscale(q) ==
    Handle(<<EnvWrite(q), AppThere(q), Parsed(q)>> \o AutoscaleApp(q), "setting")

UIRunCreate(q) ==
    Handle(<<ProjectWrite(q), AppThere(q), KindIn(q, {"job"}), NotEjected(q), Cluster, Parsed(q)>>
           \o StartRun(q), "run")
APIRunCreate(q) ==
    Handle(<<EnvWrite(q), JobThere(q), NotEjected(q), Cluster, Parsed(q)>> \o StartRun(q), "run")

UITraining(q) ==
    Handle(<<ProjectWrite(q), AppThere(q), KindIn(q, {"job"}), Parsed(q)>>
           \o SetTraining(q), "row")
APITraining(q) == Handle(<<EnvWrite(q), JobThere(q), Parsed(q)>> \o SetTraining(q), "row")

UIHealth(q) ==
    Handle(<<ProjectWrite(q), AppThere(q), Parsed(q)>> \o SetHealth(q), "setting")
APIHealth(q) == Handle(<<EnvWrite(q), AppThere(q), Parsed(q)>> \o SetHealth(q), "setting")

UIGitTokenSet(q) ==
    Handle(<<ProjectWrite(q), AppThere(q), Parsed(q)>> \o SetGitToken(q), "row")
APIGitTokenSet(q) ==
    Handle(<<EnvWrite(q), AppThere(q), Parsed(q)>> \o SetGitToken(q), "row")

UIGitTokenClear(q) == Handle(<<ProjectWrite(q), AppThere(q)>> \o ClearGitToken(q), "row")
APIGitTokenClear(q) == Handle(<<EnvWrite(q), AppThere(q)>> \o ClearGitToken(q), "row")

UIWebhookEnable(q) ==
    Handle(<<ProjectWrite(q), AppThere(q), NotEjected(q)>> \o EnableWebhook(q), "row")
APIWebhookEnable(q) ==
    Handle(<<EnvWrite(q), AppThere(q), NotEjected(q)>> \o EnableWebhook(q), "row")

UIWebhookDisable(q) == Handle(<<ProjectWrite(q), AppThere(q), NotEjected(q)>>, "row")
APIWebhookDisable(q) == Handle(<<EnvWrite(q), AppThere(q), NotEjected(q)>>, "row")

UIRollback(q) ==
    Handle(<<ProjectWrite(q), AppThere(q), Cluster, Parsed(q)>> \o Rollback(q), "deploy")
APIRollback(q) ==
    Handle(<<EnvWrite(q), AppThere(q), Cluster, Parsed(q)>> \o Rollback(q), "deploy")

UIRedeploy(q) == Handle(<<ProjectWrite(q), AppThere(q), Cluster>> \o Redeploy(q), "deploy")
APIRedeploy(q) == Handle(<<EnvWrite(q), AppThere(q), Cluster>> \o Redeploy(q), "deploy")

UIAppDestroy(q) == Handle(<<ProjectWrite(q), AppThere(q)>> \o DestroyApp(q), "delete")
APIAppDestroy(q) == Handle(<<EnvWrite(q), AppThere(q)>> \o DestroyApp(q), "delete")

UIEject(q) == Handle(<<ProjectWrite(q), AppThere(q), NotEjected(q)>>, "eject")
APIEject(q) == Handle(<<EnvWrite(q), AppThere(q), NotEjected(q)>>, "eject")

UIAdopt(q) ==
    Handle(<<ProjectWrite(q), AppThere(q), Unless(~Target(q).ejected, "not ejected")>>, "adopt")
APIAdopt(q) ==
    Handle(<<EnvWrite(q), AppThere(q), Unless(~Target(q).ejected, "not ejected")>>, "adopt")

UIDomainAdd(q) ==
    Handle(<<ProjectWrite(q), AppThere(q), Parsed(q)>> \o AddDomain(q), "setting")
APIDomainAdd(q) ==
    Handle(<<EnvWrite(q), AppThere(q), Parsed(q)>> \o AddDomain(q), "setting")

UIDomainDelete(q) ==
    Handle(<<ProjectWrite(q), AppThere(q), NotEjected(q), Parsed(q), Fit(q)>>, "setting")
APIDomainDelete(q) == Handle(<<EnvWrite(q), AppThere(q), NotEjected(q), Fit(q)>>, "setting")

UIDomainRetry(q) ==
    Handle(<<ProjectWrite(q), AppThere(q), NotEjected(q), Fit(q), Parsed(q)>>, "row")
APIDomainRetry(q) == Handle(<<EnvWrite(q), AppThere(q), NotEjected(q), Fit(q)>>, "row")

UIEnvSet(q) ==
    Handle(<<ProjectWrite(q), AppThere(q), Parsed(q)>> \o SetEnvVars(q), "setting")
APIEnvSet(q) == Handle(<<EnvWrite(q), AppThere(q), Parsed(q)>> \o SetEnvVars(q), "setting")

UIEnvBulk(q) ==
    Handle(<<ProjectWrite(q), AppThere(q), Parsed(q)>> \o SetEnvVars(q), "setting")
APIEnvBulk(q) == Handle(<<EnvWrite(q), AppThere(q), Parsed(q)>> \o SetEnvVars(q), "setting")

UIEnvUnset(q) ==
    Handle(<<ProjectWrite(q), AppThere(q), Parsed(q)>> \o UnsetEnvVar(q), "setting")
APIEnvUnset(q) == Handle(<<EnvWrite(q), AppThere(q)>> \o UnsetEnvVar(q), "setting")

UIEdit(q) ==
    Handle(<<ProjectWrite(q), AppThere(q), Parsed(q)>> \o SetOverride(q), "setting")
APIEdit(q) == Handle(<<EnvWrite(q), AppThere(q)>> \o SetOverride(q), "setting")

UIVolumeAdd(q) ==
    Handle(<<ProjectWrite(q), AppThere(q), Parsed(q)>> \o AddVolume(q), "setting")
APIVolumeAdd(q) ==
    Handle(<<EnvWrite(q), AppThere(q), Parsed(q)>> \o AddVolume(q), "setting")

UIVolumeRemove(q) ==
    Handle(<<ProjectWrite(q), AppThere(q), Parsed(q)>> \o RemoveVolume(q), "setting")
APIVolumeRemove(q) == Handle(<<EnvWrite(q), AppThere(q)>> \o RemoveVolume(q), "setting")

UISweepCreate(q) ==
    Handle(<<ProjectWrite(q), AppThere(q), KindIn(q, {"job"}), NotEjected(q), Parsed(q)>>
           \o StartSweep(q), "sweep")
APISweepCreate(q) ==
    Handle(<<EnvWrite(q), JobThere(q), NotEjected(q), Parsed(q)>> \o StartSweep(q), "sweep")

UISweepStop(q) == Handle(<<ProjectWrite(q), AppThere(q), SweepThere(q), Fit(q)>>, "sweep")
APISweepStop(q) == Handle(<<EnvWrite(q), JobThere(q), Fit(q)>>, "sweep")

UIPauseCron(q) ==
    Handle(<<ProjectWrite(q), AppThere(q), KindIn(q, {"cron"}), NotEjected(q)>>, "setting")
APIPauseCron(q) == Handle(<<EnvWrite(q), CronThere(q), NotEjected(q)>>, "setting")

UIResumeCron(q) ==
    Handle(<<ProjectWrite(q), AppThere(q), KindIn(q, {"cron"}), NotEjected(q)>>, "setting")
APIResumeCron(q) == Handle(<<EnvWrite(q), CronThere(q), NotEjected(q)>>, "setting")

UITriggerCron(q) ==
    Handle(<<ProjectWrite(q), AppThere(q), KindIn(q, {"cron"}), NotEjected(q), Cluster,
             Deployed(q)>>, "run")
APITriggerCron(q) ==
    Handle(<<EnvWrite(q), CronThere(q), NotEjected(q), Cluster, Deployed(q)>>, "run")

UIPolicy(q) ==
    Handle(<<ProjectWrite(q), AppThere(q), Parsed(q)>> \o SetPolicy(q), "setting")
APIPolicy(q) == Handle(<<EnvWrite(q), AppThere(q), Parsed(q)>> \o SetPolicy(q), "setting")

UIUptime(q) == Handle(<<ProjectWrite(q), AppThere(q), Parsed(q)>> \o SetUptime(q), "row")
APIUptime(q) == Handle(<<EnvWrite(q), AppThere(q), Parsed(q)>> \o SetUptime(q), "row")

UIRolloutAction(q) ==
    Handle(<<ProjectWrite(q), AppThere(q)>> \o RequestRollout(q), "rollout")
APIRolloutAction(q) == Handle(<<EnvWrite(q), AppThere(q)>> \o RequestRollout(q), "rollout")

UIAddonAttach(q) ==
    Handle(<<ProjectWrite(q), AppThere(q), Parsed(q)>> \o AttachAddon(q), "attach")
APIAddonAttach(q) == Handle(<<EnvWrite(q), Fit(q), Parsed(q)>> \o AttachAddon(q), "attach")

UIAddonDetach(q) == Handle(<<ProjectWrite(q), AppThere(q), Parsed(q), Fit(q)>>, "setting")
APIAddonDetach(q) ==
    Handle(<<EnvWrite(q), Fit(q), Parsed(q), AppThere(q), NotEjected(q)>>, "setting")

\* The page deploys what a git app's branch holds; the API takes an image too.
UIDeploy(q) ==
    Handle(<<ProjectWrite(q), AppThere(q), FromGit(q)>> \o DeployGitApp, "deploy")
APIDeploy(q) ==
    Handle(<<EnvWrite(q), AppThere(q), NotEjected(q), Cluster, Parsed(q), Fit(q)>>, "deploy")

\* Of the API alone.
APIOverrideDelete(q) == Handle(<<EnvWrite(q), AppThere(q), NotEjected(q), Fit(q)>>, "setting")
APIS3Env(q) == Handle(<<EnvWrite(q), AppThere(q), NotEjected(q), Parsed(q)>>, "setting")

--------------------------------
\* The handlers of a project.

\* The page does not ask for the GPU budget.
UICreateApp(q) == Handle(<<ProjectWrite(q), Parsed(q), Fit(q)>> \o CreateApp, "create")
APICreateApp(q) ==
    Handle(<<EnvWrite(q), Parsed(q), Fit(q), Budget(q)>> \o CreateApp, "create")

UIInstallTemplate(q) ==
    Handle(<<ProjectWrite(q), Cluster, EnvThere(q), Fit(q)>> \o InstallTemplate(q), "install")
APIInstallTemplate(q) ==
    Handle(<<EnvWrite(q), Cluster, Fit(q), Parsed(q)>> \o InstallTemplate(q), "install")

UIAddonCreate(q) ==
    Handle(<<ProjectWrite(q), Cluster, Parsed(q)>> \o CreateAddon(q), "addon")
APIAddonCreate(q) == Handle(<<EnvWrite(q), Cluster, Parsed(q)>> \o CreateAddon(q), "addon")

UIAddonDelete(q) ==
    Handle(<<ProjectWrite(q), Cluster, Parsed(q), AddonThere(q)>> \o RemoveAddon(q), "unaddon")
APIAddonDelete(q) ==
    Handle(<<EnvWrite(q), AddonThere(q), Cluster>> \o RemoveAddon(q), "unaddon")

UIAddonUpgrade(q) ==
    Handle(<<ProjectWrite(q), Cluster, Parsed(q), Fit(q), AddonThere(q)>>, "upgrade")
APIAddonUpgrade(q) ==
    Handle(<<EnvWrite(q), Cluster, AddonThere(q), Parsed(q), Fit(q)>>, "upgrade")

\* The address holds the password: only who may write sees it.
UIAddonURL(q) == Handle(<<ProjectWrite(q), AddonThere(q), Sealed>>, "secret")
APIAddonURL(q) == Handle(<<EnvWrite(q), AddonThere(q), Sealed>>, "secret")

UIPipelineCreate(q) == Handle(<<ProjectWrite(q), Parsed(q), Fit(q)>>, "pipeline")
APIPipelineCreate(q) == Handle(<<ProjectWrite(q), Parsed(q), Fit(q)>>, "pipeline")

UIPipelineUpdate(q) == Handle(<<ProjectWrite(q), Parsed(q), Fit(q)>>, "pipeline")
APIPipelineUpdate(q) == Handle(<<ProjectWrite(q), Parsed(q), Fit(q)>>, "pipeline")

UIPipelineRun(q) == Handle(<<ProjectWrite(q), Fit(q)>>, "pipeline")
APIPipelineRun(q) == Handle(<<ProjectWrite(q), Fit(q)>>, "pipeline")

UIPipelineRunStop(q) == Handle(<<ProjectWrite(q), Fit(q)>>, "pipeline")
APIPipelineRunStop(q) == Handle(<<ProjectWrite(q), Fit(q)>>, "pipeline")

UIPipelineWebhookSecret(q) == Handle(<<ProjectWrite(q), Sealed>>, "pipeline")
APIPipelineWebhookSecret(q) == Handle(<<ProjectWrite(q), Sealed>>, "pipeline")

APIPipelineDelete(q) == Handle(<<ProjectWrite(q), Fit(q)>>, "pipeline")
APIPipelineSecretDelete(q) == Handle(<<ProjectWrite(q)>>, "pipeline")

UIStatusPage(q) == Handle(<<ProjectWrite(q), Parsed(q), Fit(q)>>, "status")
APIStatusPage(q) == Handle(<<ProjectWrite(q), Parsed(q), Fit(q)>>, "status")

APIStatusPageDelete(q) == Handle(<<ProjectWrite(q)>>, "status")

\* One form of the page stands for three endpoints of the API.
UIIncident(q) == Handle(<<ProjectWrite(q), Parsed(q), Fit(q)>>, "status")
APIIncident(q) == Handle(<<ProjectWrite(q), Parsed(q), Fit(q)>>, "status")
APIIncidentUpdate(q) == Handle(<<ProjectWrite(q), Fit(q), Parsed(q)>>, "status")
APIIncidentResolve(q) == Handle(<<ProjectWrite(q), Fit(q)>>, "status")

UIPreviewDelete(q) == Handle(<<ProjectWrite(q), Parsed(q), Fit(q)>>, "preview")
APIPreviewDelete(q) == Handle(<<ProjectWrite(q), Fit(q)>>, "preview")

APIPreviewCreate(q) == Handle(<<ProjectWrite(q), Cluster, Parsed(q), Fit(q)>>, "preview")

UIEnvCopy(q) == Handle(<<ProjectWrite(q), Parsed(q), Fit(q)>>, "copy")
APIEnvCopy(q) == Handle(<<ProjectWrite(q), Parsed(q), Fit(q)>>, "copy")

APIEnvCreate(q) == Handle(<<ProjectWrite(q), Parsed(q), Fit(q)>>, "newenv")
APIEnvDefault(q) == Handle(<<EnvWrite(q)>>, "default")
APIEnvDelete(q) ==
    Handle(<<EnvWrite(q), Unless(EnvMeant(q) = flagged, "default environment"), Fit(q)>>, "unenv")
APIPreviewBase(q) == Handle(<<ProjectWrite(q), Parsed(q), Fit(q)>>, "project")
APIProjectS3(q) == Handle(<<ProjectWrite(q), Parsed(q), Fit(q), Sealed>>, "project")
APIProjectS3Delete(q) == Handle(<<ProjectWrite(q)>>, "project")
APIProjectWebhookSecret(q) == Handle(<<ProjectWrite(q), Sealed>>, "project")

================================
