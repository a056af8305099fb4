# TLA+ models of luncur

luncur is a single-binary platform-as-a-service: an HTTP server with a SQLite
database that builds applications, deploys them to a Kubernetes cluster, and
keeps them running. These modules model the parts of the server whose
correctness depends on what several goroutines, the cluster and a restart do to
each other. Paths below are relative to `internal/` of the repository.

- [Inventory](#inventory)
- [The modules](#the-modules)
- [The deploy model](#the-deploy-model)
- [The model of runs and sweeps](#the-model-of-runs-and-sweeps)
- [The pipeline model](#the-pipeline-model)
- [The smaller models](#the-smaller-models)
- [What the runs check](#what-the-runs-check)
- [What is proved](#what-is-proved)
- [What the models leave out](#what-the-models-leave-out)
- [Plan](#plan)

## Inventory

Every part shares one database handle opened with a single connection
(`store/store.go`), so a statement is atomic and an interleaving happens between
statements. The server is one process; a request is a goroutine, and long work
is a goroutine a request or a background loop started. A restart loses all of
them and keeps the database and the cluster.

| Part | State | Operations | What is hard | What makes it correct |
|---|---|---|---|---|
| Deployment store (`store/deployments.go`, `store/rollouts.go`) | rows of `deployments`, one `rollouts` row per canary | insert, set status, set image, set phase, set step, request a phase | rows are written unconditionally by whoever read them earlier | statuses only go forward; an image is set once |
| Deploy pipeline (`server/apps.go`, `build.go`, `redeploy.go`, `rollback.go`) | goroutine per deploy, Build Job per build | deploy image / git / tarball, redeploy, rollback, build, apply | overlapping deploys, failing calls between two writes | every deploy is settled, by one driver |
| Rollout gate (`server/rolloutgate.go`, `kube/rollout.go`) | what the gate watches | watch, mark live, fail, roll back automatically | reads of the latest deploy and of the pods are apart | live means the new pods serve; one rollback per failure |
| Canary step machine (`server/canary.go`) | rollout phase and step, canary objects, traffic split | start, step, promote, finish, abort, request | a restart between any two writes; two canaries share the objects | the stable version is left alone until promotion; nothing is left behind |
| Startup reconciliation (`server/reconcile.go`, `push.go`) | none of its own | resume every unfinished deploy | requests arrive meanwhile | no deploy is stuck, none is driven twice |
| Settings and their sync (`server/apps.go`, `volumes.go`, `gpuquota.go`, `sync.go`) | the app's row, volumes, the objects rendered from them | scale, autoscale, add or remove a volume, check a budget, sync | a row read, then written and applied; objects no longer rendered | what is set reaches the cluster |
| Job runs (`server/runs.go`, `store/jobruns.go`) | `job_runs` row and a watcher per run | start, watch, gang guard, stop, resume watchers | Jobs expire while the server is down; the finish is unconditional | a run ends once, as its Job did |
| Sweeps (`server/sweeps.go`, `sweep/`) | sweep and trial rows | tick: launch, read metrics, prune, finish; stop; reconcile | a crash between the run and the mark of its trial | every trial runs once; parallelism respected |
| Pipelines (`server/pipelines.go`, `argo.go`) | run and step rows; schedules and their minutes | tick over a DAG of steps, retry, stop, reconcile; fire schedules, run by hand or on a signed call, change, delete | a crash after a step is marked running; a tick that runs into later minutes | no step runs before its dependencies; no run is stuck; a due minute starts one run |
| Rented GPU nodes (`server/gpucloud.go`, `gpucloud/`) | instance rows, machines at a provider | rent, join, drain, destroy, idle loop | a machine rented and not recorded | every paid machine is known; none is destroyed while used |
| Environments and previews (`server/preview.go`, `environments.go`) | environment and app rows, namespaces, the project's default | push, create, close, delete, reap, set the default | a delete races a push; ids are used again | a preview is the counterpart of its branch; nothing is left behind |
| Webhooks (`server/webhook.go`, `store/webhookdeliveries.go`) | ids of deliveries, builds | verify, deduplicate, look for a build under way, deploy | deliveries late, lost, repeated and side by side; a build clones the head of its own moment | a push is in what is built; builds do not stack |
| Uptime and status page (`server/uptime.go`) | failure counters, incidents, the last alert | probe, open, resolve, alert; people change checks and incidents | a crash between the three records | an outage is one incident, and ends |
| Monitor, insights, notifications (`server/monitor.go`, ...) | samples, alert states | sample, alert, send | repeated alerts | one alert per excursion |
| Certificates and domains (`server/certs.go`, `domains.go`, `acme/`) | domain rows, Secrets, challenge hosts, a queue of 64 jobs | add, delete, retry, issue, renew, sync | outcomes are written by an id that may be another domain's | no domain waits for ever; what is issued is served |
| Registry garbage collection (`server/registrygc.go`) | image tags, what pods have pulled | push, apply, roll back, list, keep, delete | a push between the two lists | no image that may still run is deleted |
| Backups (`server/backup.go`, `cli/restore.go`) | archives on disk and in a bucket, rows in the database the archives hold | daily loop, request, upload, prune, restore | prunes and backups overlap; a restore brings old rows back | what the table offers can be restored; the newest stay |
| Addons, volumes (`server/addons.go`, `volumes.go`) | rows, Secrets, volumes, the URLs in apps' pods | create, attach, detach, upgrade, remove | a password kept in four places, written one after the other | one password everywhere; nothing runs for an addon that is gone |
| Life of apps (`server/apps.go`, `eject.go`) | apps' rows, what runs under each name | create, deploy, sync, eject, adopt, destroy | goroutines act for minutes on a copy of the row; names and ids are used again | an app handed over or destroyed is left alone |
| Projects, environments, quotas (`server/projects.go`, `environments.go`, `gpuquota.go`, `netpolicy.go`) | rows, namespaces, budget, isolation | create, rename, delete, plan, set | settings are written first and brought to namespaces one call at a time | what is set holds in every namespace; nobody's namespace is deleted by another's request |
| Schema and migrations (`store/store.go`, `schema.sql`) | the database file | open, add columns, rebuild tables, number, backfill | a death between any two statements; files of every age | an old database ends as one undisturbed Open would leave it |
| Accounts, tokens, invites, membership (`server/auth.go`, `users.go`, `invites.go`, ...) | rows | sign in, create, delete, change, invite, register, join | a request acts on the account it read; ids are given again | an admin remains; what is somebody's stays theirs; an invite makes one account |
| Cron apps, expressions (`server/cron.go`, `cronexpr/`) | none | parse, next time | calendar edges | next time is the least match |
| Git over SSH (`gitssh/`) | none | a push is a deploy of a source | | |
| Kubernetes client, manifests (`kube/`, `render/`, `build/`) | the cluster | apply, wait, read | environment of the models | |
| AI tools and workflows (`server/ai*.go`, `ai/`) | conversations | | an external model decides | |
| Web pages and the API's handlers (`server/ui*.go`, `server.go`) | none of their own | every form and every endpoint: what it asks, in which order, and what it does | two surfaces over the same state, written apart | both let the same through |
| CLI, client, installer | none of their own | thin clients of the API | | |

`PROJECT.json` lists every part with its status, and the hazards of each at the
line where they bite.

### How the parts interact

A deploy request (API, webhook, git push, preview) inserts a `deployments` row
and starts a goroutine that builds the image if there is none, applies the
manifests and gates the rollout. A canary's goroutine also drives a `rollouts`
row; promote and abort requests reach it only through that row. The gate reads
the cluster and the latest row, and on a failure may insert the rollback's row
and drive it itself. At startup one goroutine reads the unfinished rows and
starts a driver for each. Sweeps and pipelines start runs, and a pipeline step may
start a deploy. Garbage collection reads the deploy history. The pages and the API call the
same cores after checks of their own.

## The modules

| Module | What it is |
|---|---|
| `DeployStore` | the two tables of one app's deploys and the statements on them |
| `Deploy` | requests, goroutines, cluster, crash and reconciliation: the system |
| `DeployLifecycle` | what the deploy history promises its readers: the abstract specification |
| `DeployProperties` | the properties, and the refinement mapping to `DeployLifecycle` |
| `JobRuns` | the runs of a job app: requests, watchers, gang guard, startup, Jobs |
| `RunProperties` | what makes runs correct |
| `Sweep` | `JobRuns` composed with a sweep: its loop, the request that stops it, its reconciliation |
| `SweepPromise` | what a sweep promises the reader of its rows: the abstract specification |
| `SweepProperties` | what makes runs and sweeps correct together, and the refinement mapping to `SweepPromise` |
| `Pipeline` | `JobRuns` composed with a pipeline run: both engines, the request that starts it, the loop, the request that stops it, its reconciliation |
| `PipelinePromise` | what a pipeline run promises the reader of its rows: the abstract specification |
| `PipelineProperties` | what makes a pipeline run correct, and the refinement mapping to `PipelinePromise` |
| `Schedules` | pipelines as they change, and what starts their runs: schedules, people, signed calls |
| `Pushes` | pushes, the calls that tell of them, and the builds these start |
| `Rentals` | rented GPU machines, the pods on them, the idle loop |
| `Images` | image tags, the builds that push them, the pods that pull them, the sweep that deletes them |
| `Environments` | the environments of a project: webhooks, requests, the reaper |
| `Settings` | the row of an app, the requests that change it, its objects in the cluster |
| `Addons` | databases: their rows, Secrets and volumes, and the apps attached to them |
| `Apps` | the life of the apps of one environment, whose names and ids are used again |
| `Uptime` | the prober, incidents, alerts |
| `Certs` | domains and the goroutine that issues their certificates |
| `Backups` | archives, their rows and objects, pruning and restoring |
| `Accounts` | accounts, tokens, keys, memberships, invites |
| `Projects` | projects, their environments and namespaces, budgets, isolation |
| `Migrations` | opening a database that an older server or a cut-off Open left |
| `Handlers`, `AdminHandlers` | what every handler of the pages and of the API asks, in its order, and what it then does |
| `Surfaces` | the handlers at work: two clients whose requests overlap |
| `MCDeploy`, `MCSweep`, `MCPipeline`, `MCImages` | values for TLC |
| `MCReleases`, `MCPipelines`, `MCRequests`, `MCLoops`, `MCProjects` | several models side by side, one at a time |
| `DeployProofs` | proofs about `Deploy` |
| `TableLemmas` | lemmas about tables that grow or change in one row, and about sets of ids |
| `RunProofs`, `SweepProofs`, `PipelineProofs` | proofs about `JobRuns`, `Sweep` and `Pipeline` |
| `SubjectProofs` | proofs about `Migrations` and `Accounts` |
| `LoopProofs` | proofs about `Uptime`, `Rentals`, `Backups`, `Schedules` and `Environments` |
| `RequestProofs` | proofs about `Apps`, `Addons`, `Settings`, `Pushes` and `Images` |

Each component's properties close its module, those of `Deploy`, `JobRuns`, `Sweep` and `Pipeline` are in
modules of their own. A property that has several parts is their conjunction, each part named.

A definition whose comment begins with *Mutant* is no part of a specification: it is the
form a plausible bug would give to the definition after it, kept to show that a
property notices.

## The deploy model

### State

| Variable | In the code |
|---|---|
| `deploys` | rows of `deployments` by seq: `status`, `image_ref`, `rolled_back_from`; `cause` is the deploy whose failure an auto-rollback answers, which the code keeps as text |
| `rollouts` | the `rollouts` row of each deploy, phase and step |
| `policy` | the app's strategy and auto-rollback setting |
| `stable` | the app's Deployment object: image, the deploy id stamped on its template, state of its pods |
| `serving` | the image of the pods behind the Service (`maxUnavailable: 0` keeps the old ones until the new ones are ready) |
| `canary`, `split` | the `<app>-canary` Deployment and the weighted traffic route |
| `jobs` | the Build Job of each deploy |
| `tasks` | the goroutines that drive deploys. A goroutine is a record: the deploy, where it is (`pc`), and the values it read earlier and acts on later |
| `syncs` | settings syncs between their read and their apply |
| `mode` | `down`, `starting` (listening, not reconciled), `up` |

The `pc` of a goroutine names the next database or cluster access another actor
can interleave with. The image a deploy introduced is named by the deploy's seq;
`0` is the empty `image_ref`. `ref` is the image in the *copy* of the row a goroutine was
started with: `finishDeploy` updates the row and not the copy, and the canary and
the promotion render from the copy (`canary.go:183`, `canary.go:487`), while a
rolling apply renders from the row.

### Actions

| Code | Actions |
|---|---|
| `handleDeployApp`, `deployImage`, `deployGitApp`, `redeploy`, `rollback` | `DeployImage`, `DeploySource`, `UploadFails`, `Redeploy`, `Rollback` |
| `requestRollout`, the policy handler, `syncIfLive` | `RequestRollout`, `SetPolicy`, `SyncRead`, `SyncApply` |
| `runBuild`, `reconcileBuilding` | `ApplyBuildJob`, `Reattach`, `BuildSucceeds`, `BuildFails` |
| `finishDeploy`, `applyAndGate` | `Finish`, `ApplyRolling`, `ApplyFails` |
| `startCanary` | `StartCanary`, `CanaryApply` |
| `watchRollout`, `gateDone`, `gateFailed` | `GateCheck`, `GateSuperseded`, `GateSamplesDone`, `GateSamplesFailed`, `GateFindsNothing` |
| `markDeployLive`, `failDeploy`, `rollback` on its behalf | `MarkLive`, `CleanFail`, `Fail`, `AutoRollback`, `NoRollback` |
| `runCanary` | `Drive`, `Route`, `RouteFails`, `ProbeUnhealthy`, `ProbeAdvances`, `ProbeAgain` |
| `promoteCanary`, `finishCanary`, `abortCanary` | `Promote`, `PromoteApply`, `PromoteFails`, `FinishCanary`, `Abort`, `AbortClean`, `AbortMark`, `AbortFail` |
| the process | `Crash`, `Restart`, `Reconcile` |
| Kubernetes | `StableReady`, `StableBroken`, `CanaryReady`, `CanaryBroken`, `JobEnds`, `JobExpires` |

A poll that sees nothing new changes nothing and is not a step. A timeout is the
nondeterministic choice to stop waiting. Where calls may fail, a gate whose reads of the pods fail gives up on pods that are ready
(`rolloutgate.go:126`), and a step loop that cannot read them advances a canary that is broken (`canary.go:463`).

### Environment switches

`Overlap` lets a request start a deploy while another is under way (nothing in
the code prevents it), `Faults` lets calls to the cluster, the disk and the
registry fail, `ServeEarly` lets requests arrive before reconciliation has read
its list (the HTTP server does not wait for it, `push.go:158`). Each run turns on
the ones its question is about.

## The model of runs and sweeps

### State

| Variable | In the code |
|---|---|
| `runs` | rows of `job_runs`, oldest first: status, node count, and `owner`, the trial or the pipeline step the run was started for (`0` for a user's) |
| `jobs` | the Kubernetes Job of each run, and the metric its pods have reported |
| `watchers` | goroutines of `watchRun`: their run, what started them (`startRun` or `resumeRunWatchers`), where they are, and the outcome they have read and not yet recorded |
| `starters` | requests between `CreateJobRun` and `Apply` |
| `todo` | the running runs `resumeRunWatchers` has listed and not looked at |
| `mode` | `down`; `starting`, `resuming`, `resumed`, `up`: the order of startup in `push.go` |
| `live` | whether the app's latest deployment is live, which `startRun` requires |
| `used` | how much of each bound is spent |
| `sweep`, `trials` | the `sweeps` row and its `sweep_trials` |
| `holder` | the goroutine that holds `sweepMu`: what it does, where it is, what it has seen and what is left of its decision |

`sweepMu` is held from the beginning to the end of a tick, of a stop and of a
reconciliation, so `holder` is one record and not a set. The mutex keeps nothing else out: watchers
write `job_runs`, Jobs start, end and expire, deploys begin and end, and the server crashes between any
two of its steps.

### Actions

| Code | Actions |
|---|---|
| `handleCreateRun`, `startRun` | `CreateRun`, `StartRun`, `StartRunFails` |
| `watchRun`, `gangGuard`, `recordRunOutcome` | `GangStarts`, `GangTimesOut`, `GangDelete`, `WaitReturns`, `Record` |
| `resumeRunWatchers` | `ListRunning`, `ResumeRun`, `Resumed` |
| `sweepTickOne`, `decideSweep` | `TickBegins`, `ScanTrial`, `Decide`, `TickEnds` |
| `sweepLaunchTrial` | `LaunchRefused`, `LaunchCreates`, `LaunchApplies`, `LaunchFails`, `LaunchMarks`, `LaunchMarksFailed` |
| `sweepPruneTrial` | `PruneDeletes`, `PruneFailsRun`, `PruneEnds` |
| `handleCreateSweep`, `handleStopSweep` | `CreateSweep`, `StopBegins`, `StopEnds` |
| `sweepReconcileOne` | `ReconcileBegins`, `ReconcileTrial`, `ReconcileOrphan`, `ReconcileFails`, `ReconcileEnds`, `NothingToReconcile` |
| the process | `Crash` (with a sweep, `SweepCrash`), `Restart` |
| a deploy of the app | `DeployBegins`, `DeployEnds` |
| Kubernetes | `JobStarts`, `JobSucceeds`, `JobFails`, `JobExpires`, `JobReports` |

`Faults` names the calls that may fail: `apply` and `delete` of a Job, `answer` (an `Apply` is done and its answer lost), `lookup`
(`JobExists`), `read` (a poll of `WaitJob`), `metrics` (MLflow or the logs cannot be read), `budget` (the GPU
budget is spent) and `timeout` (a Job longer than the 24 hours a watcher waits).

## The pipeline model

### State

`Pipeline` extends `JobRuns`: an app step starts a run, which has its row, its Job and its watcher there.

| Variable | In the code |
|---|---|
| `prun` | the row of `pipeline_runs`: status and engine |
| `steps` | its `pipeline_run_steps`: state, run, attempt; `waits` says that the `detail` column names the deploy the step waits for, which is how the tick tells a deploy it may settle (`pipelines.go:672`) |
| `stepJobs` | the Job of the last attempt of each image step |
| `rollouts` | the status of the deploy each deploy step has created |
| `workflow` | the Argo Workflow: its phase and the state of each compute step's node |
| `starter` | the request that starts the run, which holds the mutex only for the first tick |
| `holder` | the goroutine that holds `pipelineMu`: the rows as it read them, those it has still to look at, and what is left of its decision |

A tick, a stop and a reconciliation hold the mutex from beginning to end. The watchers of runs, the cluster,
people who delete Jobs and Workflows, a deploy of the app, and a crash come between any two of their steps.

### Actions

| Code | Actions |
|---|---|
| `startPipelineRun` | `CreatePipelineRun`, `ApplyWorkflow`, `ApplyWorkflowFails`, `MarkComputeStep`, `MarkedAll`, `FirstTick` |
| `startPipelineLoop`, `pipelineTickOne`, `pipelineHarvestStep` | `LoopTicks`, `HarvestApp`, `HarvestImage`, `RetryImage`, `HarvestAction` |
| `pipelineTickArgoRun` | `ReadWorkflow`, `HarvestNode` |
| `decidePipelineRun`, the application of its decision | `Decide`, `SkipStep`, `TickEnds` |
| `pipelineLaunchStep` and what it calls | `LaunchRefused`, `LaunchApp`, `ApplyApp`, `MarkApp`, `ApplyAppFails`, `MarkAppFailed`, `LaunchImage`, `ApplyImage`, `ApplyImageFails`, `LaunchAction`, `ActionFails`, `ActionDone`, `DeployCreated`, `DeployApplied` |
| `stopPipelineRun` | `StopBegins`, `StopWorkflow`, `StopRunJob`, `StopRun`, `StopStepJob`, `StopStep`, `StopEnds` |
| `pipelineReconcileOne` | `ReconcileBegins`, `ReconcileApp`, `ReconcileOrphan`, `ReconcileFails`, `ReconcileImage`, `ReconcileAction`, `ReconcileEnds`, `NothingToReconcile` |
| the process | `PipelineCrash` |
| Kubernetes, Argo, deploys, people | `StepJobEnds`, `StepJobDeleted`, `RunJobDeleted`, `RolloutEnds`, `NodeEnds`, `WorkflowEnds`, `WorkflowLost` |

`budget` in `Faults` means that the GPU budget may refuse a launch, `read` that the Workflow or a Job cannot be
read, `lookup` that `JobExists` fails, `delete` that a deletion does. A failing action step needs no switch: its app may have been deleted
since the pipeline was defined.

## The smaller models

These parts share no rows with each other in their models. Five modules check several of them in one run: the
variable `part` (`loopOf`, `partOf`, `subject`) is chosen in the initial state and says whose behaviour it is, while the
variables of the others stand still. This is the union of the models, not their product: it adds no interleaving and
hides none. Type invariants are asked of the part that moves; those
of `Images` and `Apps` are proved (`ImagesTyped`, `AppsTyped`) and asked in no run.

- `MCReleases`: the deploys of one app, images, the life of apps.
- `MCRequests`: environments, settings, addons, surfaces.
- `MCLoops`: rented machines, uptime, certificates, backups, job runs.
- `MCPipelines`: a pipeline run, schedules, pushes.
- `MCProjects`: accounts, projects, the opening of a database, a sweep that stops early.

Clients that differ in nothing but what they ask are symmetric where a run checks no liveness and no definition
chooses one of them (`serial`: those of `Apps`; `requests`: those of `Addons` and of `Environments`, and the addons; `projects`: those of `Accounts` and `Projects`).

In each model a *history* variable records what happened to the part that a property has to except; no
action reads it but to keep a bound.

### Rented machines (`Rentals`)

| Variable | In the code |
|---|---|
| `machine`, `row` | what the provider runs and bills; the row of `gpu_instances` |
| `renter`, `killers` | requests: between the provider's answer and the row, between the destruction and its mark |
| `pods` | pods that ask for a GPU: pending, stuck longer than the grace, on a machine, ended, lost with one |
| `loop`, `idle`, `minutes` | `runGPUIdleLoop`, its clocks `gpuIdleSince`, the setting `gpu_idle_minutes` |

| Code | Actions |
|---|---|
| `handleRentGPU`, `rentWithProvider`, `Nebius.Rent`, `VastAI.Rent` | `RentAsked`, `RentRefused`, `RentAnswerLost`, `RentAccepted`, `PollDone`, `PollFails`, `PollTimesOut`, `RecordRent`, `RecordRentFails` |
| `destroyGPUInstance`, the settings handler | `DestroyAsked`, `DestroyMarks`, `SetIdleMinutes` |
| `runGPUIdleLoop`, `GPUBusyNodes`, `decideIdleDestroys` | `LoopTick`, `LoopReads`, `LoopDestroys`, `LoopDestroyFails`, `LoopMarks`, `LoopTurnEnds` |
| the process, Kubernetes | `RentalCrash`, `PodStep` |

One tick is one minute of the clocks, which are counted up to the window and not further.

### Images (`Images`)

| Variable | In the code |
|---|---|
| `deployRows` | deploys of each app: status, the tag in `image_ref`, what its Job pushed |
| `registry` | the content under each tag of each repository |
| `applied` | of each app, the deploy last applied and the content its pods run |
| `sweep` | `runRegistryGC`: the retention set it has listed, the repositories and tags to go, the digest looked up |
| `rolls` | requests of `rollback` that found their image in the registry and have not inserted their row |

`BuildAsked`, `JobPushes`, `ImageBuildFails`, `FinishDeploy`, `ApplyDeploy`, `RollbackLooks` and `RollbackTo` are a deploy's
life as far as images go; `PodMovesNode` is a pod that starts again and pulls what its tag holds by then.
`SweepStarts`, `SweepLists`, `SweepLooksUp`, `SweepDeletes`, `SweepSkips`, `SweepMovesOn` and
`SweepDies` are the sweep: a manifest is deleted by digest, which takes every tag with the same content.
`missed` records the deploys whose image was not on record when the sweep read the rows, also those of a rollback that had looked for its image before.
`History` is the `LIMIT 50` of `ListDeployments`, 2 in the run: the live deploy may be a third.

### Environments (`Environments`)

| Variable | In the code |
|---|---|
| `env`, `envApp` | the rows of environments by id, and the app row in each |
| `namespace` | what runs in the namespace of each name |
| `defaultName` | `projects.default_env` |
| `actor`, `reapList`, `builds` | requests and webhooks, the reaper's list as it read it, build goroutines |

| Code | Actions |
|---|---|
| `handleProjectWebhook`, `routeBranch` | `Push`, `Closed` |
| `ensurePreviewFromBase`, `clonePreviewApp`, `handleCreatePreview`, `handleCreateEnv` | `CreatePreview`, `CreateEnv`, `Create`, `SetSource`, `EnsureNamespace`, `Clone`, `Insert` |
| `deployEnvGitApps`, `runBuild`, `applyAndGate` | `DeployApps`, `BuildEnds`, `BuildApplies` |
| `teardownPreview`, `handleDeletePreview`, `handleDeleteEnv`, `deleteEnvironment` | `DeletePreview`, `DeleteEnv`, `Unname`, `Unapp`, `Unrow` |
| `reapPreviews` | `ReaperLists`, `ReaperTakes` |
| `handleSetDefaultEnv` | `SetDefault`, `SetFlags`, `SetName` |
| the process, Kubernetes, time | `EnvCrash`, `NamespaceGone`, `GoesStale` |

Two branches of the instance sanitize to the same name, `feat/x` and `feat-x`.

### Settings (`Settings`)

| Variable | In the code |
|---|---|
| `app`, `volume`, `latest` | the columns that decide what is rendered; whether there is a volume; the newest deploy |
| `cluster` | the objects: replicas, GPUs and volume of the Deployment, the minimum of its HPA, a PodDisruptionBudget |
| `deploys`, `asker` | goroutines: the row as each read it, the columns still to write, what it rendered |

`ScaleAsked`, `ScaleChecks`, `AutoscaleAsked`, `AutoscaleChecks`, `VolumeAsked` and `SyncAsked` begin the
requests of `scaleApp`, `autoscaleApp`, the volume handlers and any other setting; `Writes` is one
column at a time; `Unscales`, `Syncs`, `Applies`, `ApplyFails` and `Trims` are the end of a request, from the
HPA's deletion to the removal of what is no longer rendered. `DeployAsked`, `DeployApplies` and
`DeployFinishes` are a deploy from the copy of the row it began with, and `HPAScales` the autoscaler.

### Uptime (`Uptime`)

| Variable | In the code |
|---|---|
| `check`, `incidents` | the tables; streaks are counted up to their thresholds |
| `probe` | the goroutine of each target of the round, with the check as the round read it |
| `serves`, `deployed`, `alert` | whether the app answers, whether its newest deploy is there, the last alert sent |

`RoundStarts`, `Probes`, `Samples`, `Judges`, `Opens`, `Finds`, `Resolves`, `Tells` and `Stores` are a round
(`uptimeRound`, `recordUptime`, `uptimeRecovered`); `SetEnabled`, `OpenByHand`, `ResolveByHand` people, `Turns` the app, `UptimeCrash` the process.

### Certificates (`Certs`)

| Variable | In the code |
|---|---|
| `domain`, `secret`, `tls` | rows by id, TLS Secrets by host, the hosts the app's Ingress serves |
| `queue`, `issuer` | the manager's jobs and its one goroutine |
| `client` | a request between its statement, its sync and its `Kick` |
| `release`, `ejected` | the latest deployment and its driver, as far as the Ingress goes; `apps.ejected`, of which a job has a copy |
| `pendingHosts`, `challenge` | the list in memory, the hosts of the challenge Ingress |

| Code | Actions |
|---|---|
| `sweep`, `Run` | `Sweeps`, `Takes` |
| `issue`, `setChallengeHost`, `Issuer.Issue` | `MarksPending`, `ShowsChallenge`, `Orders`, `StoresSecret`, `MarksIssued`, `IssuerSyncs`, `IssuerRenders`, `IssuerApplies`, `MarksFailed`, `ClearsChallenge` |
| `addDomain`, `deleteDomain`, `handleRetryDomain`, `syncIfLive` | `AddsDomain`, `DeletesDomain`, `RetriesDomain`, `OtherSync`, `ClientSyncs`, `ClientRenders`, `ClientApplies`, `ClientKicks` |
| `ejectApp`, `handleAdoptApp`; `applyAndGate` and the gate | `Ejects`, `Adopts`; `DeployAsked`, `DeployRenders`, `DeployApplies`, `DeploySettles` |
| time, the process | `CertsAge`, `CertCrash` |

A sync looks at the latest deployment first, and at its copy of the app: it does nothing unless the one is live and the other not ejected (`sync.go:324-336`).
`outdated` says that the sync or deploy that came last left a host that is issued out.

### Addons (`Addons`)

| Variable | In the code |
|---|---|
| `addon`, `attached` | rows of `addons` by id, with the password of `secret_enc`; `addon_attachments` of one app |
| `instance` | in Kubernetes, of each name: does it run, the password in its Secret, the one in its volume |
| `urls` | the connection URLs in the environment of the app's pods: addon, key, password |
| `caller` | the goroutine of each request: what it asked, where it is, the row it read, the URLs it rendered |
| `appWork` | the status of the app's latest deploy, and the goroutine of it or of a sync for another setting |

| Code | Actions |
|---|---|
| `createAddon`, `handleCreateAddon` | `AddonAsked`, `InsertsAddon`, `AppliesAddon`, `AppliesAddonFails` |
| `attachAddon`, `handleDetachAddon` and the sync they end with (`syncIfLive`, `syncApp`) | `AttachAsked`, `Attaches`, `DetachAsked`, `Detaches`, `SyncsIfLive`, `RendersUrls`, `SendsUrls`, `SendFails` |
| `upgradeAddon` | `UpgradeAsked`, `SetsVersion` |
| `removeAddon`, `DeleteAddonObjects`, `DeleteAddon` | `RemoveAsked`, `ChecksAttached`, `DeletesObjects`, `DeletesVolume`, `DeletesObjectsFails`, `DeletesAddonRow` |
| a deploy of the app, and another sync; the process | `AppWorkStarts`, `AppRenders`, `AppApplies`, `AppApplyFails`, `AppDeployEnds`; `AddonCrash` |

`astray` has the names to which one of these has happened: a removal at the same time as another request on the
name; a removal by force of an attached addon; one that keeps the volume; an `Apply` or a deletion that failed; a crash
while a request on it was under way; a request that acted on an id another addon has by now.
`outdated` says that what the app has of URLs was rendered before the last change, or that the sync of that change was skipped or failed; the next apply in order ends it.

### The life of apps (`Apps`)

| Variable | In the code |
|---|---|
| `appRow` | rows of `apps` by id: name, ejected or not |
| `releases` | rows of `deployments` of every app, oldest first, and the goroutine of each with the copy of the row it began with |
| `objects` | the image of the Deployment of each name, `0` without one |
| `desk` | the goroutine of each request, with its copy of the row |
| `handed` | history: the image of the objects luncur let go of |

| Code | Actions |
|---|---|
| `handleCreateApp` | `CreatesApp` |
| `deployImage`, `deployGitApp`, the page's Deploy button, a pipeline's deploy step | `ReleaseAsked`, `InsertsRelease` |
| `runBuild`, `finishDeploy`, `applyAndGate`, the gate, `rollback` | `AppBuildSucceeds`, `AppBuildFails`, `AppliesRelease`, `GateGivesUp`, `GateOpens`, `GateFails`, `FindsTarget`, `RollsBack` |
| `syncApp` | `AppSyncAsked`, `SyncReads`, `SyncApplies` |
| `ejectApp`, `handleAdoptApp` | `EjectAsked`, `Ejects`, `AdoptAsked`, `Adopts` |
| `destroyApp`, `DeleteAppObjects`, `DeleteApp` | `DestroyAsked`, `DeletesAppObjects`, `DeletesAppObjectsFails`, `DeletesAppRow` |
| the process, `reconcileUnfinished` | `AppsRestart` |

`strayed` has the names to which one of these has happened: a deploy or a request on the app was under way when it was
ejected; an apply or a sync was under way when its objects were deleted, or put them back before its row was;
the page's Deploy button or a pipeline's deploy step took up an ejected app; a request or a goroutine acted on an id that is another app's by now; the
objects of a name were deleted whose apps had all been ejected or were gone; a row was deleted that had changed since it was read.

### Backups (`Backups`)

| Variable | In the code |
|---|---|
| `today` | the clock, in days; a backup's name has its second, so two of one second share it |
| `archive`, `snapshotTmp`, `remote` | the backup directory and its `.snapshot` files; the objects of the bucket: absent, partly written, torn, whole |
| `backups`, `held` | the rows; the rows that the database inside each archive holds |
| `taker` | the goroutines of requests and of `StartBackups` |

`CreateAsked`, `FileMade`, `Snapshots`, `Writes`, `WriteFails`, `Uploads` and `Records` are `createBackup`,
`PruneAsked`, `ListsVictims`, `Unlinks` and `Unrows` are `pruneBackups`, `ScheduleTicks` and `DayTurns` the loop
(`runBackupSchedule`, `StartBackups`), `Restores` is `restoreArchive`, with the server down; `BackupCrash` and `DiskLost` are what they say.

### Schedules (`Schedules`)

| Variable | In the code |
|---|---|
| `minute`, `ticked` | the clock, and whether the loop has ticked in this minute or was down |
| `cronOf` | the pipelines and their `cron` column |
| `starts` | rows of `pipeline_runs`, and the Job of each |
| `seen` | `webhook_deliveries` |
| `workers`, `tick` | the goroutine of each request and of the loop, and what the loop's tick has still to look at |

| Code | Actions |
|---|---|
| `pipelineTick`, `firePipelineCrons`, `startPipelineLoop` | `TickStarts`, `CronLooks`, `ListsActive`, `TakesRun`, `ClockTurns` |
| `startPipelineRun`, `pipelineTickOne` | `CreatesRun`, `ReadsRun`, `TicksNewRun`, `DrivesRun` |
| the handlers | `CreatesPipe`, `AsksRun`, `Delivered`, `AsksUpdate`, `Updates`, `AsksDelete`, `Deletes`, `StopsRun` |
| Kubernetes, the process | `WorkEnds`, `ScheduleCrash` |

### Pushes (`Pushes`)

`head` numbers the commits of the branch; `recorded` is `webhook_deliveries`, `builds` the deployments as far as they
are built (the commit their Job cloned, none before), `hook` the goroutine of each delivery. `Pushed`, `Delivers`
and `DeliveryLost` are the provider, which posts a delivery again, late, or never; `Delivers`, `LooksForBuild`, `Deploys` and
`HookFails` are `handleWebhookTrigger`; `JobClones` and `BuildEnds` are a build, `DeploysByHand` a person, `PushCrash` the process.

### Accounts (`Accounts`)

| Variable | In the code |
|---|---|
| `users`, `api_tokens`, `ssh_keys`, `members`, `invites` | the tables, with ids as SQLite gives them: the largest and one more |
| `shown` | accounts a list has shown, which a person may then delete |
| `request` | each request with the account it authenticated as and the rows it read |

| Code | Actions |
|---|---|
| `auth.go`, `tokens.go` | `Login`, `CreateToken`, `Authed`, `RevokeToken` |
| `users.go`, `account.go`, `sshkeys.go` | `ListUsers`, `CreateUser`, `DeletesUser`, `SetsPassword`, `Authenticate`, `ChangePassword`, `ChangeEmail`, `AddSSHKey`, `DeleteSSHKey` |
| `invites.go`, `ui_auth.go` | `CreateInvite`, `RevokeInvite`, `GetValidInvite`, `Registers`, `MarkInviteUsed` |
| `projects.go` | `FindsMember`, `AddMember`, `RemoveMember`, `RequireProject`, `RequireProjectWrite`, `Writes` |
| `bootstrapAdmin` | `ServeAgain` |

An account has an identity of its own (`acct`) beside its id, so that a row which outlives one account and is found by the
next of the same id can be told.

### Projects (`Projects`)

| Variable | In the code |
|---|---|
| `projects`, `environments` | the rows: name, home namespace, name of the default environment, GPU budget, what its apps plan and what of it nobody checked (history); namespace, the flag of the default |
| `isolation` | the setting `network_isolation` |
| `space` | of each namespace: is it there, its ResourceQuota, its NetworkPolicy |
| `asking` | the requests, each with what it read and the namespaces still to do |

| Code | Actions |
|---|---|
| `handleCreateProject`, `RenameProject`, `deleteProject` | `CreateProject`, `SeedProjectEnvironments`, `RenameProject`, `DeleteProject`, `DropNamespace`, `DropRows` |
| `handleCreateEnv`, `handleDeleteEnv`, `handleSetDefaultEnv` | `CreateEnvironment`, `DeleteEnvironment`, `SetDefault`, `SetFlags`, `SetName` |
| `ensureNamespace`, a deploy, a pipeline's run | `Deploy`, `PipelineRun`, `EnsureNamespace`, `ApplyIsolation`, `Limits`, `ReadBudget`, `LimitBudget` |
| `setGPUQuota`, `setProjectQuota` | `SetBudget`, `ListNamespaces`, `SyncBudget`, `ApplyBudget`, `PlanAsked`, `PlanInserted` |
| `handleUICreateApp`, `clonePreviewApp`, the copy of an environment | `PlanUnasked` |
| `networkIsolationChanged` | `SetIsolation`, `LookAtIsolation`, `FanOut` |
| the process, which seeds at its start | `ServeAgainAfterCrash` |

In the instance project `a`'s environment `d` and the project `ad` have the same namespace.

### Migrations (`Migrations`)

`database` is the file: which tables and columns are there, the places of apps and addons, the deployments with their
ids, numbers and origins; `opening` says which statement or transaction of `Open` comes next. The initial states are all
the files that a server of some age can have left. `Schema`, `AddColumn`, `Rebuild`, `Backfill`, `Number`, `TextIds`,
`Index` and `Isolation` are the steps of `Open` and `migrate`, in the order of `Steps`; between them the server may
die (`Dies`) and open again (`OpenStarts`). `ProjectMade`, `AppMade` and `Deployed` are an opened server at work.

### Pages and API (`Surfaces`)

`Handlers` and `AdminHandlers` say of every route of the pages and of the API what it asks, in its order, and how it
answers; they read the rows (`role`, `envRows`, `homeEnv`, `flagged`, `appAt`, `addonIn`) and whether the server
has a cluster and a key. `Surfaces` lets two clients ask, over pages or the API (`AskPage`, `AskApi`), and then do
what a request that passed does, one action for each core it ends in (`ActSetting`, `ActDeploy`, `ActDelete`,
`ActEject`, `ActAdopt`, `ActAttach`, `ActInsert`, `ActPlace`, `ActInstall`, `ActAddon`, `ActUnaddon`,
`ActUpgrade`, `ActMember`, `ActNewEnv`, `ActFlag`, `ActName`, `ActUnenv`), with the rows as it found them when it asked.
`carried` says whose settings the objects of an environment have, `addonsRun` where the addon runs.

## What the runs check

| Run | Environment | Checks | States |
|---|---|---|---|
| `all` | overlap, faults, crash, policy change, one promote or abort request, one settings sync; images, git, tarballs, redeploys and rollbacks; rolling and canary | `TypeOK`, `OneDriver`, `OrphansExplained`, `RollbackOnce`, `LifecycleSpec`, `DeploysSettle` | 244 000 |
| `serial` | one deploy at a time, crash, settings sync; canaries, redeploys, rollbacks. Three deploys of an app, of which a listing returns two, and two registry sweeps. Two apps under two clients, faults and a crash | `ClusterMatchesRows`, `LiveServes`, `ImagesWhole`, `AppsLeftAlone` | 1 290 000 |
| `sweep` | two trials of two nodes, both at a time; a crash, a deploy, a stop, failing applies | `TrialsEndAsRuns`, `PromiseSpec`, `SweepEnds` | 442 000 |
| `pipeline` | a diamond of four steps (app; image and deploy; notify) under either engine, one retry; a crash, a stop, a deploy of the app, failing applies, deletions by hand. Three runs that a schedule and requests start within two minutes, and a crash. Two pushes and three builds | `StepsInOrder`, `PromiseSpec`, `TriggersTypeOK`, `SchedulesWhole`, `PushesWhole` | 1 400 000 |
| `run_ends` | a fork of the same kinds under either engine, both compute steps retried; a crash, a stop, applies that fail or whose answer is lost, deletions by hand | `AttemptsInTurn`, `NativeRunEnds` | 431 000 |
| `requests` | one part at a time: two requests on two branches of one name, faults and a crash; one asker of settings, a GPU budget, faults, a deploy; two addons under two clients; two requests through two surfaces | `PartsTypeOK`, `EnvironmentsWhole`, `SettingsReach`, `AddonsWhole`, `RequestsWhole` | 954 000 |
| `loops` | one loop at a time: two rented machines and a pod; one watched app; two domains, a queue of one, deploys and an ejection; three backups of two days; two runs of one or two nodes and two crashes; every fault of each and a crash | `LoopsTypeOK`, `OutageOnRecord`, `BackupsWhole`, `RunsWatched`, `OutcomeIsTheJobs`, `MachinesAccounted`, `EndedRunsStay`, `RunsEnd`, `DomainsServed` | 542 000 |
| `projects` | one subject at a time: three requests on accounts; two on projects; every database of at most three deployments; four trials of a sweep, one at a time, with good or bad metrics, unreadable metrics, a spent budget | `SubjectsTypeOK`, `AccountsWhole`, `ProjectsWhole`, `MigrationsWhole`, `PrunedNotBest` | 1 396 000 |
| `live_early`, `argo_skip`, `image_tags`, `renewal_lost` | the smallest environment of each finding | one property each, violated | |

Of deploys:

- **`OneDriver`**: no deploy is driven by two goroutines. Phases and statuses
  are read and then written with nothing to protect them, so this is what keeps
  the rest of the machine meaningful.
- **`OrphansExplained`**: after reconciliation, an unfinished deploy has a
  driver, but for the two ways in which the code loses one, which it names.
- **`RollbackOnce`**: over restarts and overlapping failures, a failed deploy
  causes at most one rollback, of an image that is live, and a rollback causes none.
- **`LifecycleSpec`**: `deploys` implements `DeployLifecycle`.
- **`ClusterMatchesRows`** joins three. `CanaryKeepsStable`: until its promotion is recorded, a canary's image is
  never in the stable Deployment, whichever goroutine wrote it and however often
  the server restarted. `StableIsNewestLive`: without a crash, when nothing is under way the cluster
  asks for the newest live image, but for a rollback that failed since; it fails if a failed promotion forgets its
  rollback. `NoStrayCanary`: a leftover canary or split still has an active rollout row.
- **`LiveServes`**: at the step that marks a deploy live, the Service's pods run it.
- **`DeploysSettle`**: every deploy ends, whatever users and cluster do.

Of runs and sweeps:

- **`RunsWatched`**: nothing but a watcher moves a run off `running`; once startup
  is over every running run has one.
- **`OutcomeIsTheJobs`**: what a row says of an ended run is what its Job did, although
  the row is written some calls after the Job was read.
- **`EndedRunsStay`**: `FinishJobRun` has no condition in its
  `WHERE`; an ended run stays as it ended because nothing records it twice. It is checked of runs a user
  started: of a trial being pruned, the watcher may record a success that the sweep then overwrites.
- **`TrialsEndAsRuns`** joins three. `HarvestMatchesRun`: a closed trial says what the row of its run says.
  `OneRunPerTrial`: each crash can repeat at most one launch, the one between
  the `Apply` and `MarkTrialLaunched` (`sweeps.go:370`); nothing else exceeds the parallelism or runs a
  trial twice. `EndedSweepIsQuiet`: an ended sweep leaves no trial running and no Job of a trial
  behind; the loop would never look at it again.
- **`PrunedNotBest`**: of the trials with a metric, the best is never stopped early, though a tick compares
  a live metric, read a moment ago, with the median of those that ended.
- **`PromiseSpec`**: the rows implement `SweepPromise`.
- **`RunsEnd`**, **`SweepEnds`**: every run and every sweep ends, over crashes and failing applies.

Of pipelines:

- **`StepsInOrder`** joins three. `NeedsBeforeWork`: nothing is done for a step, no run, no Job, no deploy and no attempt, before every step
  it needs is done, whichever engine runs it and whatever a restart forgot. `DoneStepsDidIt`: a done step's run, Job or node
  succeeded, though the row is written some calls after they
  were read and the Job may be deleted in between. `EndedRunIsQuiet`: an ended native run leaves no step to start and
  nothing running but what a crash hid from it (`startRun` before `MarkStepRunning`, `pipelines.go:506`).
- **`AttemptsInTurn`**: a step is launched at most once per attempt it has and once per crash,
  and a retry waits for the end of the attempt before it.
- **`PromiseSpec`**: the rows implement `PipelinePromise`. The promise leaves the order of compute steps
  to Argo, a run whose Workflow could not be created is failed while a tick may still be at it, and a run that an interrupted stop has half skipped is completed by a later stop or by the loop.
- **`NativeRunEnds`**: a native run ends, with two exceptions that only a crash makes: an action that was marked
  running and not done (the tick does not look at a running action without a deploy), and a step skipped by
  a stop that did not finish, whose dependents neither start nor are skipped.
- **`SchedulesWhole`**: a due minute starts one run (`FiresOnce`), beside none that the tick could see (`FiresAlone`), and
  goes without only for a reason (`FiresWhenDue`); a delivery starts one run (`StartsOnce`); a deleted pipeline
  leaves no Job but of a run that its look for runs could not see (`LeavesNoJob`).
- **`PushesWhole`**: a push whose delivery arrived is in what was built (`PushesReachBuilds`), deliveries stack no builds but
  of what came between look and insert (`BuildsDoNotStack`), and a delivery that is posted again builds nothing (`PushesBuiltOnce`).

Of requests:

- **`ImagesWhole`**: pods run what their deploy built, also after a rollback and a restart on another node
  (`ServesItsBuild`); a sweep takes no image of a live deploy and none of the newest, but of a deploy
  whose image was not on record when the sweep read the rows, or whom a rollback looked for before and recorded after, or that the listing no longer returns (`SweepSpares`).
- **`EnvironmentsWhole`**: a preview is the counterpart of its branch in the database and in the cluster, and
  a name without an environment has nothing there, unless a fault hit that name or two requests worked on it at once.
- **`SettingsReach`**: whatever races and failures came before, an autoscale request that runs alone on a live app
  brings every object in line with the row, and requests and deploys that then run one at a time keep it so.
- **`AddonsWhole`**: an addon nobody is at work on has one password in its row, Secret and volume (`AddonWhole`), whatever went on around it, unless it is `astray`; and,
  once the syncs of changes are through, an app it was attached to has one URL with that password under a key of its own (`UrlsWhole`), unless the apply that came last was
  rendered before another change, or the change's sync failed or was skipped because the latest deploy was not live.
- **`AppsLeftAlone`**: the objects of an app that was ejected stay as they were handed over, and those of one that was destroyed
  stay gone, whatever builds, gates, rollbacks and restarts follow and whoever gets its name or id, unless it `strayed`: among
  the races is one plain request, the page's Deploy button.
- **`RequestsWhole`**: both surfaces let the same through but for three forms it names, keep roles and, of
  those that ask, refuse an ejected app (`SurfacesAgree`); objects carry the settings of their own
  environment's app (`OwnObjects`), an addon runs where its row says (`AddonWhereItIs`), no app is outside every
  environment (`AppsPlaced`) and the default environment is the one flagged (`DefaultHolds`), each but for what it names.

Of loops and subjects:

- **`OutageOnRecord`**: between probes, a check is down, and the last alert said so, exactly when one incident of the
  prober is open, unless a fault or a person's hand came between them.
- **`MachinesAccounted`** joins three. `SpendExplained`: there are three ways to rent a machine that no row knows of: a
  failed poll of the provider, a failed insert, a crash in between. There is no fourth, and a row outlives its machine only if
  its mark failed, a crash cut it off, or the destroy was done and its answer lost: then every later one fails too, there is nothing left to delete. `KnownPodsSurvive`: the loop destroys a machine some calls after it
  looked at the pods: none that it saw is lost with it, and none that it saw waiting. A pod that comes in
  between may be. `IdleMachinesDie`: no machine bills for ever with nothing to run, over failing calls, a crash and a loop that was off.
- **`BackupsWhole`**: a row's archive and object are there and whole (`RowsHaveArchives`), and the other way round
  (`ArchivesHaveRows`); overlapping prunes and backups keep the newest (`NewestStay`); a day has its backup (`DayHasBackup`).
- **`DomainsServed`** joins two. `IssuedIsServed`: a domain that is issued has its Secret and is served with it once the
  syncs are through, also when it was deleted and added again, retried or renewed meanwhile, unless the sync or deploy that came
  last was rendered before, or the sync was skipped, failed or was cut off, or its row took another domain's outcome. `DomainsSettle`: no domain waits for ever: over a full queue, a crash
  and failures, each is issued or says that it failed.
- **`AccountsWhole`**: an admin remains (`AdminRemains`), tokens, keys and memberships are of the account they were
  made for (`OwnersMatch`), an invite makes one account (`InvitesOnce`), who writes was allowed to at some moment of the request
  (`WritersCould`), own changes need the own password (`ChangesProved`), each but for the overlaps it names.
- **`ProjectsWhole`**: at rest what was set holds in every namespace (`SettingsHold`), none is left over
  (`NoStraySpaces`) and none is shared but by name (`SharedByName`); a project has the one default environment it names
  (`HaveEnvironments`), what was planned after a check fits its budget (`PlansFit`), each but for the overlaps it names.
- **`MigrationsWhole`**: wherever `Open` was cut off and however often, the next one is not refused (`NeverStuck`), no deployment
  is lost or renumbered and rollbacks name the deployments they returned to (`HistoryKept`, `NumberedInOrder`), every app and
  addon is in one of its project's environments (`EverythingHoused`) and isolation is on exactly in new installs (`IsolationByAge`).

**Bounds.** Two deploys requested by users (four rows with the auto-rollbacks) are
what an interleaving of two drivers, a supersession and a rollback needs. One crash can
fall between any two steps; a second one meets the same rows again. Two traffic steps
distinguish the first, an intermediate and the last turn of the step loop.
Runs share nothing but the loop of startup, which two runs and two crashes turn more than once, and a second
crash meets a run whose watcher is a resumed one. Two trials at a time
are two launches in a tick, with a crash, a stop or an ended run between them; early stopping compares
nothing before three trials are done, hence four in `projects`, where a metric is good or bad.
A diamond has a step with two dependents, one with two dependencies, one that is downstream of another but does not need it, and
every kind of step: a failed `image` meets a running `deploy`, and `notify` waits for both. One retry
is an attempt that may and one that may not be repeated. Three starts are one for each of two minutes and one in the way
of either; a listing of two runs (fifty in the code) is what a third is too old for. Two pushes are one that a build has cloned and one
that came too late, and the third build is a person's.

Each smaller model has the least instance in which its actors meet: two machines, so that one is
destroyed while the other is looked at, and a pod that can be on either; three deploys and `Keep` of one, so that
a sweep has something to delete and two sweeps in which a rollback can revive it, and a `History` of two (50 in the code), so that a
live deploy can stand beyond the rows that are listed; two requests, which with the
reaper are three actors on one name, and one id more than they need, so that an id is used again; one asker
and a deploy, since what two askers do to each other is excepted anyway and only what follows is not; two addons and two apps,
so that a name and an id can change hands while a request of the first is under way, and deploys
and syncs whose render and apply are two steps, so that one can send what another has made stale; `DownAfter` as in the code;
a queue of one, which is full as soon as one job is in it; three backups and `Keep` of one, so that a prune has two victims, and two days;
three requests on accounts, of which two meet and the third finds what they left; three old deployments, so that an app has two and another
app's is between them. Each fault strikes once, at any step. The
counters these models keep, of minutes and failures in a row, stop at the threshold they are compared with.

**Deadlock** is not checked: when users are done and pods stay as they are, the system rests.

**Fairness of runs, sweeps and pipelines.** Weak fairness of startup, of each request in progress, of
each watcher and of the loops and the holder of each mutex: they are goroutines, and each of their waits
has a timeout (`gangTimeout`, `runTimeout`). Weak fairness of each Job's start or end: a Job that never
ends is the fault `timeout`, which the liveness runs leave out. Users need not stop a sweep, and nothing is
assumed of crashes or deploys; the app's latest deployment need not become live again.

In the liveness runs `sweep` and `run_ends` weak fairness is asked of three disjunctions, which is less
than that of every part: of startup, the loop and the holder, of which the mode and the mutex let one go on at a time; of all
requests and watchers; and of all of the cluster, whose Jobs, deploys and Workflows end. A disjunction lets one part wait
only while another moves, and requests, watchers and Jobs have finitely many steps to take. `RunIds` bounds the runs
that can be started. Nobody has to stop a pipeline run.

**Fairness of the loops.** Weak fairness of the goroutine of the idle loop and of the certificate manager (`RentalFairness`,
`CertFairness`), and of the runs as above (`RunFairness`): a loop's ticker
does not stop, its calls have timeouts, and a failed turn goes on to the next one. A crash starts it again. Users,
pods and what the probes find are free.

**Fairness of deploys.** Weak fairness of each deploy's driver: a goroutine that can run
does, and every wait of the code has a timeout (`rolloutgate.go:102`,
`canary.go:351`, the build timeout), so a step is enabled at every `pc`. Weak fairness
of `Restart` and `Reconcile`: the server is a Deployment that Kubernetes restarts, and
its startup loop runs. Nothing is assumed of pods, Build Jobs or users. For the step loop,
`ProbeUnhealthy` is always possible: with a canary that stays healthy and a hold that
never ends the loop would wait for ever, which the code's finite holds exclude.

### Findings

| Run | What the run shows |
|---|---|
| `live_early` | a promote or abort request recorded while the canary is still starting makes `gateDone` mark the deploy live, although the stable Deployment still has the old image |
| `argo_skip` | under the Argo engine an action that needs a failed step is never skipped, and its run stays running until somebody stops it |
| `image_tags` | an app and its copy in another environment push the same tag: a pod that starts later runs the other app's image |
| `renewal_lost` | one failure of the certificate authority during a renewal leaves the domain `failed`, and the certificate is never renewed unless somebody asks |

The models contain more behaviour of this kind, which has no run of its own. Of deploys:

- `SetRolloutStep` writes `stepping` over an abort request recorded since the loop read the row (`store/rollouts.go:66`);
- a crash between the end of a rollout and the end of its deploy leaves the row `deploying`; the restarted
  server finds the rollout ended and does nothing (`canary.go:138`);
- a deploy requested between the start of the HTTP server and reconciliation's read is driven by two goroutines;
- the canary of an image the server has just built is rendered from a copy of the row
  without an image (`canary.go:183`), and its deploy fails.

Of runs and pipelines:

- a two-node Job whose pods ran and succeeded between two polls of the gang guard is deleted and its run
  marked failed (`runs.go`, `gangGuard`);
- a deploy step whose deploy has already failed when its apply returns is done (`pipelines.go:652`);
- a run stopped between `CreatePipelineRun` and the creation of its Workflow leaves the Workflow running;
- the reconciliation fails a step that has retries left;
- a run whose `Apply` was done and not answered is failed, and its Job goes on with nobody watching (`runs.go:152`);
- a crash leaves an action running, or a stop half done: the exceptions of `NativeRunEnds`.

Of the smaller models:

- a failed poll of a rent's operation forgets the machine the provider goes on to start (`gpucloud/nebius.go:220`,
  `server/gpucloud.go:404`);
- a turn of the idle loop whose clocks are frozen keeps the clock of a machine that was busy meanwhile (`gpucloud.go:538`);
- the environment that becomes the default between the check and the deletion is deleted (`environments.go:99`);
- the reaper tears down the previews it listed, also one that was pushed to since (`preview.go:337`);
- after a failed build, a sync that was skipped for it is not made up for (`sync.go:371`);
- a volume is added to an autoscaled app, whose replicas are left out of the manifest (`render.go:477`) and so are the HPA's, if only the row says
  one (`volumes.go:42`), and a scale leaves
  a PodDisruptionBudget that is no longer rendered when its request fails before the trim (`apps.go:812`);
- a sync while a certificate is being renewed drops TLS for its host (`sync.go:233`); a certificate that is issued while the latest deployment is not live,
  or for an app that was ejected when its job was queued, is served only after another sync or deploy (`certs.go:260`);
- a machine whose destroy is done and whose answer is lost keeps its row for ever: the loop asks again and the provider knows no such machine
  (`gpucloud.go:606`);
- an app with more than 50 deploys since the live one has its live image swept (`deployments.go:249`), although live images are kept "regardless of their position"
  (docs/operations/registry-gc.md:14-16); a rollback that looked for its image before a sweep read the rows and is recorded after finds it gone (`rollback.go:113-121`);
- a crash between `OpenIncident` and `SetUptimeState` opens a second incident for the same outage;
- two tags with the same content are deleted together, also when only one is out of retention (docs/operations/registry-gc.md:14).

Of addons:

- a removal without force looks for attachments and deletes some calls later: an attach in between leaves an app with the URL of
  an addon that is gone;
- an addon made over a volume that was kept has a password the volume does not;
- the default name of an addon, its type and a number, may be taken, and an `Apply` that fails leaves the row;
- detaching the first of two addons moves `DATABASE_URL` to the other; a removal by force does not sync the apps;
- an addon that is attached while the latest deploy is not live, or whose sync a deploy rendered before overtakes, is in no pod until another sync or deploy;
- `attachAddon` finds the app by project and name, a detach in the environment of the request.

Of the life of apps:

- the page's Deploy button (`ui_app_actions.go:433`) and the deploy step of a pipeline never ask whether the app is ejected, and what was under way at the ejection is
  applied to it, after a restart too (docs/operations/eject-adopt.md:15-18);
- `deleteProject` deletes the namespace of an ejected app;
- the goroutine of a destroyed app goes on by its id, which may be another app's.

Of the surfaces:

- the page's deploy and its detaching of an addon do not refuse an ejected app, nor do uptime, training, sweep stop and
  rollout actions on either surface (docs/operations/eject-adopt.md:20-23);
- the page creates an app, and a preview or the copy of an environment copies one, without asking for the GPU budget (`apps.go:157` does): one such
  request exceeds it, and the next that asks is refused;
- creating an app whose name its environment already has fails after the insert: the app is left outside every environment;
- removing and upgrading an addon act in the environment of the request, wherever the addon runs;
- `handleSetDefaultEnv` writes two rows "so the two never disagree" (`environments.go:130`) in two statements;
- a template that fails half way leaves what it has made.

Of schedules and pushes:

- a schedule forbids a second run beside a running one (docs/ml/pipelines.md:77-79) by looking at the newest run only; a run by hand
  in the due minute takes its place, and a tick that lasts into a later minute skips that one's;
- deleting a pipeline stops the newest 50 runs, and a run that starts after they are listed goes on;
- two deliveries that look for a build at once both start one (docs/reference/design-notes.md:74), a push that arrives while
  a build that has cloned is under way is not built, and a delivery that fails after it was recorded is answered as a duplicate.

Of backups, accounts and projects:

- two backups in one second write one archive; after a restore, rows and archives disagree; the second of two
  overlapping prunes stops at the first row the other has deleted;
- the id of the newest account is given again when that account is deleted: what a request under way writes for it is the next one's;
- two administrators can delete each other at once; an invite that cannot be marked can be used again; signing
  out in the page leaves the token's row, and a new password the sessions;
- project `a`'s environment `develop` and project `a-develop` share a namespace;
- a deploy that read the budget or the isolation before they changed writes the old ones to its namespace; a project whose
  environments could not be seeded keeps its namespace when it is deleted;
  one for which another environment is made between its insert and the seeding stays without `production`;
- the default is moved to an environment that a request is deleting, or two moves leave the flag and the name apart (`environments.go:140-145`);
- two plans checked at once, or two runs (`runs.go:128`), both fit the same budget.

The properties of the passing runs are checked in environments where these
findings do not decide the answer (`LiveServes` without requests, `OneDriver`
without early requests), or except by name what they caused. `OutcomeIsTheJobs` is checked with the gang guard
on: a Job it tears down holds no node, whatever it did before.

## What is proved

TLAPS proves these for every value of the constants: any number of deploys, runs, trials, pipeline steps and needs between them, apps, addons, old databases, machines, probes, backups, pushes, schedules, environments, images, people,
crashes, requests and traffic steps, and any overlap and faults but those the last column excludes. The assumptions
say of what kind the constants are (numbers, finite sets, names that are no keyword of the model) and nothing of how large.

| Theorem | Statement | Assumes |
|---|---|---|
| `TypeCorrect` | `Spec => []TypeOK` | `BoundsAssumption` |
| `Inductive` | `Spec => []IInv` | and `~ServeEarly` |
| `OneDriverAlways` | `Spec => []OneDriver` | and `~ServeEarly` |
| `OrphansExplainedAlways` | `Spec => []OrphansExplained` | and `~ServeEarly` |
| `RollbackOnceAlways` | `Spec => []RollbackOnce` | and `~ServeEarly` |
| `Refinement` | `Spec => LifecycleSpec` | and `~ServeEarly` |
| `CanaryKeepsStableAlways` | `Spec => []CanaryKeepsStable` | `OneAtATime` |
| `CanariesKeptAlways` | `Spec => []CanariesKept` | and `~Faults` |
| `ClusterMatchesRowsAlways` | `Spec => []ClusterMatchesRows` | and no requests to promote or abort, and auto-rollback |
| `LiveServesAlways` | `Spec => LiveServes` | `OneAtATime`, no requests to promote or abort |
| `RunTypeCorrect` | `RunSpec => []RunTypeOK` | `RunAssumption` |
| `RunsWatchedAlways` | `RunSpec => []RunsWatched` | and `"lookup" \notin Faults` |
| `EndedRunsStayAlways` | `RunSpec => EndedRunsStay` | and `~ServeEarly` |
| `OutcomeIsTheJobsAlways` | `RunSpec => []OutcomeIsTheJobs` | and `~ServeEarly`, no fault `answer`, `delete`, `read` or `timeout` |
| `SweepTypeCorrect` | `Spec => []TypeOK` | `RunAssumption`, `SweepAssumption` |
| `SweepKeepsPromise` | `Spec => PromiseSpec` | the same |
| `PrunedAreNotBest` | `Spec => []PrunedNotBest` | the same |
| `TrialsEndAsRunsAlways` | `Spec => []TrialsEndAsRuns` | and `~ServeEarly`, no fault `answer`, `delete`, `read` or `timeout` |
| `PipelineTyped` | `Spec => []TypeOK` | `RunAssumption`, `PipelineAssumption` |
| `NeedsBeforeWorkAlways` | `Spec => []NeedsBeforeWork` | the same |
| `PipelineKeepsPromise` | `Spec => PromiseSpec` | the same |
| `AppsTyped` | `AppSpec => []AppTypeOK` | `AppAssumption` |
| `AppsLeftAloneAlways` | `AppSpec => []AppsLeftAlone` | the same |
| `AddonTypeInvariant` | `AddonSpec => []AddonTypeOK` | `AddonAssumption` |
| `AddonsStayWhole` | `AddonSpec => []AddonsWhole` | the same |
| `SettingsTypeInvariant` | `SettingsSpec => []SettingsTypeOK` | `SettingsAssumption` |
| `SettingsReachTheCluster` | `SettingsSpec => []SettingsReach` | the same |
| `MigrationsTyped` | `MigrationSpec => []MigrationTypeOK` | `MigrationAssumption` |
| `MigrationsCorrect` | `MigrationSpec => []MigrationsWhole` | the same |
| `OutagesOnRecord` | `UptimeSpec => []OutageOnRecord` | `UptimeAssumption` |
| `RentalsTyped` | `RentalSpec => []RentalTypeOK` | `RentalAssumption` |
| `SpendAlwaysExplained` | `RentalSpec => []SpendExplained` | the same |
| `PodsSurviveTheLoop` | `RentalSpec => KnownPodsSurvive` | the same |
| `BackupsTyped` | `BackupSpec => []BackupTypeOK` | `BackupAssumption` |
| `BackupsKept` | `BackupSpec => []BackupsWhole` | the same |
| `PushesTyped` | `PushSpec => []PushTypeOK` | `PushAssumption` |
| `PushesServed` | `PushSpec => []PushesWhole` | the same |
| `SchedulesTyped` | `ScheduleSpec => []ScheduleTypeOK` | `ScheduleAssumption` |
| `SchedulesKept` | `ScheduleSpec => []SchedulesWhole` | the same |
| `EnvironmentsTyped` | `EnvSpec => []EnvTypeOK` | `EnvironmentAssumption` |
| `EnvironmentsKept` | `EnvSpec => []EnvironmentsWhole` | the same |
| `ImagesTyped` | `ImageSpec => []ImageTypeOK` | `ImageAssumption` |
| `AppsServeTheirBuilds` | `ImageSpec => []ServesItsBuild` | and no two apps share a repository |
| `ImagesKept` | `ImageSpec => []ImagesWhole` | and builds differ |
| `AccountsTyped` | `AccountSpec => []AccountTypeOK` | `AccountAssumption` |
| `AccountsKept` | `AccountSpec => []AccountsWhole` | the same |

In the deploy model `~ServeEarly` is necessary: without it, TLC finds a deploy that a request and reconciliation both drive. So are the faults the run theorems exclude: a failed `JobExists` makes
`resumeRunWatchers` leave a run without a watcher; a deletion that fails leaves the
Job of a failed run, and a Job that could not be read or outlived its watcher is recorded as failed
while it runs, as is one whose `Apply` was done and not answered. A run requested before the list of running runs is read gets two watchers.
In the model of images both are necessary too. Two apps that share a repository overwrite each other's tags (run `image_tags`). A build that makes what an earlier
one made shares its manifest, which the sweep deletes with the earlier tag. A live deploy with `History` newer rows or more
(deploys that failed count) is on no retention list, so a sweep may take its image, although `docs/operations/registry-gc.md:14` keeps live images wherever they stand: `ImagesWhole` excepts
just these rows (`Beyond`), which run `serial` reaches and no assumption rules out.

**The argument for deploys.** `TypeOK` is inductive by itself. `OneDriver` is not: a step keeps
it only if a new driver's deploy has none, which for `Reconcile` follows from
`Quiet` (no goroutine while the server is not up) and for a new row from
`TypeOK` (a goroutine's deploy is a row that exists). `RollbackOnce` needs to
know that a goroutine about to roll back drives a failed deploy that nothing has
rolled back yet, and that no goroutine can change the rows a rollback refers
to: that is `TaskOK`, which says for each `pc` in what state the goroutine's row
is. `RowOK` relates status, image and origin within a row. Together,

    IInv == TypeOK /\ Quiet /\ OneDriver /\ RowOK of every row
            /\ TaskOK of every goroutine /\ RollbackOnce /\ OrphansExplained

The step case does not treat the 33 goroutine actions one by one against seven conjuncts.
Each action but `AutoRollback` is first shown to have an *effect* (`Effect`): it
writes at most the goroutine's own row, in one of four ways (`RowStep`), and either
moves the goroutine on to a `pc` whose `TaskOK` holds or ends it with a row that
needs no driver (`Explained`). Then one lemma, `EffectInv`, shows that an effect keeps
`IInv`, and `InsertInv` does the same for a new row, be it a user's or a
rollback's. `Refinement` reuses both: the four cases of `RowStep` are a stutter and
the three actions of `DeployLifecycle` on a row, and an insertion is its fourth.

**The argument for the cluster.** `OneAtATime` says that a request waits for the deploy before it (`~Overlap`, `~ServeEarly`) and that the policy stays (`MaxEdits = 0`).
Then `TurnInv` holds: every row but the latest is settled or has lost its driver (`Explained`), so only the latest deploy's goroutine may reach the cluster, and the goroutine that a restart
gives an older row finds its rollout over. This is what makes the copy of the image a goroutine holds (`t.ref`) that of its row, and keeps a canary out of the app's Deployment (`Untouched`).
`StrayInv` adds that an abort removed the canary before it marks the rollout, or left it to another rollout that is active. `NewestInv` follows the one goroutine there is before a crash and says at
each `pc` which image is applied: the newest live one until the deploy's own is written, then that one, until the deploy is live or its failure has inserted the rollback. `ServeInv` says which
Deployment a gate watches, and that ready pods of the app's Deployment serve its image.
Each hypothesis is needed. TLC finds a counterexample to one of the properties without it: with overlap to both halves of `CanariesKept` and to `LiveServes`; with requests before
reconciliation to `CanariesKept` and `LiveServes`; with failing calls to `NoStrayCanary` and `StableIsNewestLive`; without auto-rollback to `StableIsNewestLive`; with a promote or abort request that arrives while the canary's gate is set up to `StableIsNewestLive` and `LiveServes`;
with a policy edited after a crash to `CanaryKeepsStable`, and after two to `LiveServes`, because a restart then applies the rows of two deploys.

**The argument for runs.** `EndedRunsStay` is about an `UPDATE` without a condition, so it must follow from who
may execute it. `KeeperInv` says that a run has at most one *keeper* (the request that
starts it, a watcher, or its place in `todo`), that what has a keeper is
running, and that there are no keepers while the server is down or has not listed the running
runs. `OutcomeIsTheJobs` adds what the watcher at each `pc` knows of its Job: an outcome once read stays true, because
only a keeper deletes a Job and a Job never starts again. `TableLemmas` says once what
appending a row or changing one leaves alone.

**The argument for sweeps.** The statements of the store protect a trial, but not the sweep: what a
holder decided at one step it carries out at later ones. `HolderInv` is what it may rely on at each `pc`:
the trials it still has to launch are pending, those it still has to scan or prune are running and
have a run, the running ones and those to be launched together are at most `Parallel`, and if it will finish the sweep nothing is
pending or running. The mutex is what makes this inductive: only the holder
writes trials. A crash gives up the mutex and the decision with it. Every step is
then an action of `SweepPromise` or a stutter. No fault, crash or early request is excluded.

`PrunedNotBest` holds because the median that a trial is compared with is the value of a trial that is done, or
the mean of two such values, one of which is then better still (`Beaten`); `BestInv` adds that this is so of all that the holder is about to stop, and that
a trial that ended keeps its report.

**The argument for trials and their runs.** A sweep's runs are watched by goroutines that know nothing of it, and stopped by a holder
that knows nothing of them. `EndRows` joins the two. A run that was *given up* (its trial is being stopped, or was) has no Job; a watcher
of a run that ended and was not given up can only write `failed` once more, so what the holder harvests stays true (`KeptOK`, `WatcherOK`). A run made for a trial that a
crash kept from learning of it is a *stray*: another was made for the trial later, or the trial does not know it (`Strays`). Only a crash makes one, the one
that was being launched, hence `StraysFew`: there are at most as many as crashes. The rest is counting: a run that is no stray is the only one of its trial, and a Job at work is a stray's,
the one being launched, or a running trial's, of which `HolderInv` says how many there are. The three faults excluded each leave a Job at work whose run has ended.

**The argument for pipelines.** A tick reads all rows, looks at the running ones, decides, and only then writes; the decision is right if the rows it
has finished with are still as it believes. `PipeInv` says so:

    PipeInv == TypeOK /\ NeedsBeforeWork /\ RowsInv /\ StarterInv
               /\ HolderShape /\ ScanInv /\ DecidedInv

Two facts carry it. A row only moves forward (`Moves`), and while the mutex is held nobody but the holder ends
a step, except that the request that starts an Argo run, which has no mutex, marks compute steps. So the holder's view of a row it has looked at
fits (`Fits`) unless the step is Argo's, and `Ours` separates the two. `ScanInv` says that what a tick has still
to look at is running and that a stop's list holds all that has not ended; `DecidedInv`, that what a tick will launch has its needs done, what it will skip is downstream of a
failed step, and what it will record of the run is what the rows say. `RowsInv` is left when the mutex is: a step that runs or is done has its needs done, and an ended run has no step
left, except one whose Workflow was never created. Each step of the code then falls in one of
four lemmas: the row the holder is at goes (`ScanGoes`, `ActGoes`, `StopGoes`, `ReconcileGoes`). The steps downstream of another, `Upstream`, are a recursive function over the
DAG; that its definition has a solution is proved by the least set closed under `Needs` (`UpstreamUnfolds`).
The refinement maps the holder's doing to `stopping`; a step that changes a row is one action of `PipelinePromise` on it (`StartSeen`, `EndSeen`), and one that changes hands, `Stopping`
or a stutter (`HandsSeen`). No fault and no crash is excluded.

**The argument for the life of apps.** `AppsLeftAlone` is about objects; what breaks it is a goroutine that will put objects back.
`AppInv` therefore says of each `pc` of a deploy's goroutine (`ReleaseOK`) and of a request (`DeskOK`) that the app it is
about to write for is managed and still has the name, or that the name has strayed. An ejection or a destruction
makes this false of a goroutine under way, and these are just the steps that record the name in `strayed`; an id that is given again makes it
false of a request that holds the old one, whose own step then records it. Lemmas say what a step that leaves the apps' rows alone keeps of both; the four that do
not (creation, ejection, adoption, deletion) have proofs of their own.

**The argument for addons.** A request that changes an addon does so in up to five steps: row, Secret, volume, the app's variables, row again. `AddonInv` follows each
name that the history does not call `astray`: a request at work on it has the row as it is (`CallsKnow`), and one that removes it is alone; and what the row, the objects and the
app's variables have in common at each `pc` (`AttachedAsWanted`, `UrlsInStep`, `ObjectsInStep`). What a deploy or a sync sends is a set of variables it rendered before: unless `outdated`, it is still what the app has, or a sync is
owed (`NoSync`, `OwedSyncKeeps`). Requests that overlap on one name make it astray
in the very step that would break this; the other names are untouched by it because a row has its name, and a variable its key, alone (`NamesOwn`, `KeysOwn`).

**The argument for settings.** `SettingsReach` speaks of an app at rest, after whatever happened before. `SettingsInv` says when rest begins: a request
that has run alone since it read the row (`Undisturbed`), and likewise a deploy (`Unraced`), carries the row as it is, so what it applies is what the row renders to;
what an earlier apply left beside it is gone once an autoscale request ran alone (`settled`), and nothing that runs alone brings it back (`RestKept`).

**The argument for migrations.** `MigrationsWhole` speaks of an open database, and the initial states are every file an old server may have left,
so the invariant is about the files in between. `MigrationInv` says what each step of `Open` has behind it (`StepsBehind`), that an id is `was`, the place in
which a deployment was made, until the table is rebuilt with text ids (`RowsInOrder`), that a number once given is
the place among the deployments of its app (`NumbersAreRight`), that the projects are the first ones until isolation is
set (`IsolationOnce`), and that lineage names what it meant whatever the ids are now (`Lineage`). Death is a step
back to `closed`, which keeps all of it because nothing in it asks for more than the steps behind. The order of
the steps is one lemma (`StepsOrder`), and counting the rows of an app up to a row another.

**The argument for outages and machines.** Both loops carry out what they decided on rows read earlier. `ProbeOK` says for each `pc` of a probe what its
copy of the check still has in common with the row, the incidents and the last alert, of an app that no fault or person has
upset. `MachineOK` relates a machine, its row and whoever is between the two; `LoopOK` says that what the loop saw is on none of the
machines it is still to destroy. `KnownPodsSurvive` is then an action property of the one step that destroys.

**The argument for backups.** `BackupsWhole` relates rows, archives and objects that goroutines write one after the other, and
exempts a name chosen twice. `BackupInv` therefore follows each name that was chosen once: whoever makes its archive is alone and what is there is what
its `pc` says (`MakingOK`), and as soon as a row or a snapshot of the table knows the name nobody makes it any more (`RowsOK`). `RowsStand` is
`RowsHaveArchives` without its exemption of every row on a prune's list: only the one whose files the prune has just unlinked lacks
them. `NewestStay` is inductive because the row a prune deletes has itself `Keep` newer ones (`NewerStay`); it makes a new row's id greater than
any on a list, and it keeps the row of the day from a prune, with `DayOK`: without faults, later ids are of later days. That ids stay
within the number of backups (`NextBackupId`) and that a second has a free name (`FreeName`) are countings.

**The argument for pushes.** `PushesWhole` asks that a push which was recorded reaches a build. `PushInv` says of each recorded push that the history names why it
was given up, or a delivery of it is still under way, or a build has cloned a head with it or has not cloned yet; a delivery under way is the only
one of its push, and the build it saw when it looked has ended (`HookOK`). A push that comes late moves only the head, so what a build has cloned stays.

**The argument for schedules.** `SchedulesWhole` compares runs with what a tick looked at minutes earlier. `ScheduleInv` says what the mutex is worth:
its holder is one (`OneHolder`), and while the tick is at its crons every run that is newer than its minute is still under way, because
only a holder ends runs (`TickOK`). Rows of runs are in the order of their start, so the newest run of a pipeline speaks for all of them: were there a run of this
tick, the newest would have started in this minute or would be under way, and the schedule does not fire (`FiringIsFirst`). `WorkerOK` says what a
goroutine may rely on of the run it read under the mutex, `DeliveryOK` that a delivery at work is on record, alone and without a run, and `LooksOK` that a look is
answered unless its run is just being inserted. How a row of `pipeline_runs` may change is one definition (`Follows`), and what
stands when rows so change is proved once.

**The argument for environments.** `EnvironmentsWhole` exempts a name that a fault hit, or that two worked on at once, from the step on in which that happens. So `EnvInv`
says of each other name (`NameKept`) that one actor at most is at work on it, or one build, or the reaper's list has it (`OneAtWork`); that nobody else holds the id of its row, which SQLite
may give again (`IdOwn`); and what the one at work finds at its `pc` (`Meets`): only before its branch is on the row is the preview not whole. A step that would break this is one that
disturbs the name. All other names are left alone by it (`Apart`), which is proved once for the steps that act on a row (`ActsOn`), that make one (`Inserts`) and that begin (`SetsOut`).

**The argument for images.** What a tag holds was made by the deploy of its number, which is its row's own (`TagHolds`), and a row that names
a tag has what that tag's deploy made, as a rollback copies both (`RowNames`); so what pods pull is theirs (`Serves`). A sweep deletes by digest, seconds after it read the
rows. `SpareRow` says of each row, while a sweep is at work, that what is to be kept of it is on the list that the sweep read, or on record as unseen, as the row of a rollback is whose look at the registry a sweep came after; `Condemned`, that neither the tags still
to go nor the digest looked up are of the list, which needs that a digest is of one tag (`OwnContent`). A deploy that becomes live, or the newest, meanwhile is either on
the list or was not on record when it was read.

**The argument for accounts.** A request acts on the account it read some steps before. `Read` says what of that is still true: the account's id and role, and its address unless it has moved,
while it exists; and once it does not, that it is in `crossed`. An id that is given again is therefore told from its first owner by the history (`ReadOwns`). `GateOK` and `ProvedOK` say for each `pc` what
a request relies on; `InviteOK`, that an invite which no two requests met at is in one request's hands, and unused only before that request has made its account. Tokens and invites get the next number, so
that they fit their bound is a counting of the requests under way (`NumbersOK`). An admin who deletes another is still one or is deleted, which is `alone`. What a step shows the requests of the others is one definition
(`Others`), under which all that they read stays (`ReadStays`).

**What proving changed in the models.** `Settings` lacked parentheses around a set of subsets less the empty one, which the prover reads otherwise than TLC. `AccountAssumption` had to say that there are people, and room for the two accounts a server is found with; the sets of `KeepTags` are unions over apps, because the prover reads
no set of pairs. `RentalAssumption` had to say that a machine's name is none of the words for the state of a pod, and
`ScheduleAssumption` that no client is called as the loop is and no expression is the empty column.
Three definitions used `CASE` with guards that overlap, whose value TLA+ leaves open and TLC takes from the first: they are now
decided by `IF`, or their guards are disjoint (`Resumed` in `Apps`, `AfterWrites` in `Settings`, `IsolationByAge` in `Migrations`). The restore after
a lost disk happened also where `BackupFaults` has no restore. `PipelinePromise` said that steps start, end and fail only while the run is running. That is false of the code: the request
that fails to create the Workflow marks the run failed without the mutex (`startPipelineRun`), and a tick that has read the run before goes on to do its first actions. TLC confirms it; the promise
now says it (`Going`). `StableIsNewestLive` held only because the histories of its run were short: it exempted the moment at which the latest deploy is a rollback that failed. With a fourth deploy TLC finds
that the image of a failed rollback stays in the Deployment beyond it, through a canary that fails too and leaves the Deployment alone; the property now says so, and the run has four deploys.

**Only model-checked**: `DeploysSettle`, `RunsEnd`, `SweepEnds`, `NativeRunEnds`, `IdleMachinesDie`, `DomainsSettle` (liveness under
fairness is beyond the prover); everything about surfaces,
certificates and projects; of pipelines `AttemptsInTurn`, `DoneStepsDidIt` and `EndedRunIsQuiet`, which relate steps,
runs and Jobs and fail under some faults.

## What the models leave out

Of deploys:

- One app, of kind web, whose rollout is gated. Jobs, cron apps, agents and apps
  without a gate go live at once. Other apps share no state with it.
- The weighted traffic mode of canaries. The header mode and blue-green differ in
  how the split is rendered, not in the step machine's writes.
- `SetDeploymentImage` and `SetDeploymentStatus` of `finishDeploy` are one step, as are
  a render and the apply that follows it; the writes before and after are separate steps.
- `CleanupCanary` is one step with the phase write that follows it in a failed or
  finished promotion; in an abort it is a step of its own, because two aborts race there.
- The arithmetic of probes and of `Judge` is reduced to its verdicts, and holds and
  timeouts to a choice.
- The limit of 50 rows in which the gate searches rollback targets: histories of the runs are shorter.
- Deleting and ejecting an app (module `Apps`); logs, progress texts, notifications.
- `JobExpires` happens only while the server is down: a Job lives an hour after
  its end, and a server that is up watches it.

Of runs and sweeps:

- One app and one sweep. Other sweeps and runs share no row; what they share is the GPU budget, which
  is a refusal that may happen at any launch, and the order of the loop over sweeps.
- Exit codes, logs and the drawing of trial parameters. A trial's metric is the last the pods
  reported, or none when it cannot be read; whether MLflow or the logs are asked is not distinguished.
- Errors of reading the database: a tick that fails to read ends and is tried again.
- In `loops`, `sweep` and `projects`, a Job deleted from outside; no request stops a single run.
- Deleting the app.
- Runs `loops` and `sweep` leave out the faults `answer`, `lookup`, `read`, `delete` and `timeout`, under
  which `RunsWatched` or `OutcomeIsTheJobs` does not hold (`run_ends` has `answer`); the theorems name the
  ones each property excludes, and `SweepKeepsPromise` holds under all of them.

Of pipelines:

- One pipeline run. Others share no row with it; they share the GPU budget, which is a refusal.
- The definition of pipelines, the compilation to YAML, artifacts, notifications. What starts a run is module `Schedules`'.
- The GPU arithmetic of a launch, reduced to its three verdicts: now, not now, never. The runs leave out
  the faults `budget`, `read`, `lookup` and `delete`: under `delete` a stop leaves Jobs behind by design.
- A deploy step of an app without a gate. A gated deploy's own course is module `Deploy`'s; here it ends, live or failed.
- What Argo does in a node; it retries by itself, so a node has one outcome.

Of the smaller models:

- Rented machines: prices and offers, the node's join to the cluster, the drain before a destruction by hand. A
  machine is busy or not; what its pods do is theirs.
- Images: blobs and the registry's own offline collection. A deploy is applied in one step, without a rollout: module `Deploy` has that.
- Environments: one git app; copies of addons, comments on pull requests, and what `PUT` of an environment's variables does.
- Settings: of an app's many columns those that decide which objects exist; others are the request `sync`. A GPU is there or not.
- Uptime: samples and their rollups, which nothing decides on; the status page.
- Certificates: the panel's own, DNS records, ACME's messages. An order succeeds, is refused, or fails for want of its challenge.
- Addons: postgres stands for every type, and one managed app for all; the bucket of minio, what mlflow adds, variables of the user's with the key of an addon.
- Apps: the columns of a new app and their checks; deploys are rolling; a user's rollback and redeploy are deploys of an image;
  the deletion of a project; an apply that fails.
- Schedules: a run has one step and the native engine; the definition's other columns, secrets, ids of deliveries older than 72 hours, which are
  pruned; a delivery that cannot be recorded, which is handled without looking for an earlier one.
- Pushes: signatures, other branches, what becomes of an image.
- Backups: the key file, dumps of addons, the bucket's settings, the copy a restore makes first, and a crash inside a restore.
- Accounts: expiry of tokens and invites, the rate limiter, `last_used`.
- Projects: budgets of CPU and memory go the way of the GPU's; a namespace goes at once; addons and apps of a project being deleted are
  only a call that may fail; what runs use.
- Surfaces: what a request asks is one step; a body is good, malformed, unfit, over the budget or a purge; every project has rows
  of environments; a template is installed in one step.
- Migrations: columns that no later step reads, `external_ref`, lineage to a row that is gone (set to `NULL`), and `schema.sql`
  statement by statement.

## Plan

What is modelled is proved about next, in this order; nothing else of the inventory has state that several actors change.

1. **Pipelines**: `AttemptsInTurn`, `DoneStepsDidIt` and `EndedRunIsQuiet`, over `PipeInv` and what watchers and Jobs say of a step's run (`KeeperInv`).
2. **Projects**: `ProjectsWhole`, whose histories already name the exceptions an invariant needs.
3. **Deploys**: the rows of the `rollouts` table as a second abstract specification.
4. **Pure functions**: `cronexpr` next time against the least match; `Judge` against the rollout states it distinguishes.
