--------------------------------- MODULE Settings --------------------------------
(***************************************************************************)
(* The settings of an app and what of them reaches the cluster             *)
(* (internal/server/apps.go scaleApp and autoscaleApp, volumes.go,         *)
(* gpuquota.go, sync.go, render/render.go): one web app, the requests that *)
(* change its row, and its deploys.                                        *)
(*                                                                         *)
(* A request and a deploy read the row when they begin and apply what they *)
(* read; volumes are read when the manifests are rendered.  Applying only  *)
(* adds and updates, so that an object no longer rendered has to be deleted*)
(* by name.  The two bounds of autoscaling are one number, the minimum.    *)
(***************************************************************************)
EXTENDS Naturals, FiniteSets

CONSTANTS
    Askers,        \* clients that change settings, one request at a time each
    SettingKinds,  \* what they ask for: a subset of AllSettingKinds
    ScaleColumns,  \* what they scale: a subset of {"replicas", "cpu", "gpu"}
    MaxReplicas,   \* bound: replicas, 20 in the code
    GPUQuota,      \* the project's GPU budget, 0 for none
    MaxAppDeploys, \* bound: deploys of the app
    SettingFaults  \* what may go wrong, each once: a subset of {"store", "kube"}

\* sync: any other setting, applied by syncIfLive.
AllSettingKinds == {"scale", "autoscale", "addVolume", "removeVolume", "sync"}

ASSUME SettingsAssumption ==
    /\ IsFiniteSet(Askers) /\ SettingKinds \subseteq AllSettingKinds
    /\ ScaleColumns \subseteq {"replicas", "cpu", "gpu"}
    /\ MaxReplicas \in Nat \ {0} /\ GPUQuota \in Nat /\ MaxAppDeploys \in Nat
    /\ SettingFaults \subseteq {"store", "kube"}

VARIABLES
    app,      \* the row of apps: replicas, autoscale_min, whether cpu is set, gpu_count
    volume,   \* whether the app has a row in volumes
    cluster,  \* the objects of the app in its namespace
    latest,   \* status of the newest deploy
    deploys,  \* deploys in progress
    asker,    \* the goroutine of each request
    settled,  \* history: nothing is owed to the cluster
    spent     \* deploys so far, and the faults that have happened

settingVars == <<app, volume, cluster, latest, deploys, asker, settled, spent>>

Counts   == 0 .. MaxReplicas
SettingRow  == [replicas : Counts, min : Counts, cpu : BOOLEAN, gpu : 0 .. 1]

\* replicas: spec.replicas as it stands.  hpa: its minimum, 0 without one.
Objects == [running : BOOLEAN, replicas : Counts, gpu : 0 .. 1, volume : BOOLEAN,
            hpa : Counts, pdb : BOOLEAN]

\* a: the row it read, with the changes asked for.  more: GPUs it adds.  todo: columns
\* to write.  live: LatestDeployment was live.  volume: as rendered.
\* alone: nothing else was in progress meanwhile.  owes: it could not finish.
AskerPCs == {"idle", "check", "write", "unscale", "sync", "apply", "trim"}
Columns  == {"replicas", "cpu", "gpu", "min", "volume", "none"}

NewApp  == [replicas |-> 1, min |-> 0, cpu |-> FALSE, gpu |-> 0]
Waiting == [pc |-> "idle", kind |-> "sync", a |-> NewApp, more |-> 0, todo |-> {},
            live |-> FALSE, volume |-> FALSE, alone |-> TRUE, owes |-> FALSE]

SettingsInit ==
    /\ app \in {NewApp, [NewApp EXCEPT !.cpu = TRUE]} /\ volume = FALSE
    /\ cluster = [running |-> FALSE, replicas |-> 0, gpu |-> 0, volume |-> FALSE,
                  hpa |-> 0, pdb |-> FALSE]
    /\ latest = "none" /\ deploys = {}
    /\ asker = [q \in Askers |-> Waiting]
    /\ settled = TRUE
    /\ spent = [deploys |-> 0, faults |-> {}]

--------------------------------

AtIt       == {q \in Askers : asker[q].pc # "idle"}
NobodyAtIt == AtIt = {} /\ deploys = {}

\* Whoever begins is no longer alone, and neither is anyone else.
NotAlone == [q \in Askers |-> IF q \in AtIt THEN [asker[q] EXCEPT !.alone = FALSE] ELSE asker[q]]

Fails(k) == k \in SettingFaults \ spent.faults /\ spent' = [spent EXCEPT !.faults = @ \cup {k}]

Moves(q, pc) == asker' = [asker EXCEPT ![q].pc = pc]

\* A request ends.  What it leaves is known when nothing else was in progress.
Finishes(q, owes) ==
    /\ asker' = [asker EXCEPT ![q] = Waiting]
    /\ settled' = /\ asker[q].alone /\ ~owes /\ ~asker[q].owes
                  /\ settled \/ (asker[q].kind = "autoscale" /\ asker[q].live)

Refused(q) ==
    /\ asker' = [asker EXCEPT ![q] = Waiting]
    /\ UNCHANGED <<app, volume, cluster, latest, deploys, settled, spent>>

\* pdbFloor: the fewest pods there may be.
Floor(a) == IF a.min > 0 THEN a.min ELSE a.replicas

\* gpuEffReplicas, SumProjectGPURequests.
PlannedGPUs(a) == a.gpu * (IF a.replicas < 1 THEN 1 ELSE a.replicas)

\* validateGPUBudget: what is planned is read from the database.
WithinBudget(more) == more = 0 \/ GPUQuota = 0 \/ PlannedGPUs(app) + more <= GPUQuota

\* Render: autoscaling leaves the number of replicas to the HPA.
Applied(a, v) ==
    [running |-> TRUE, gpu |-> a.gpu, volume |-> v,
     replicas |-> IF a.min > 0 THEN cluster.replicas ELSE a.replicas,
     hpa |-> IF a.min > 0 THEN a.min ELSE cluster.hpa,
     pdb |-> cluster.pdb \/ Floor(a) >= 2]

--------------------------------
(***************************************************************************)
(* Requests: the row is read, checks are made on what was read, columns    *)
(* are written one statement at a time, and a live app is synced.          *)
(***************************************************************************)

Asked(q, kind, a, todo, pc) ==
    /\ asker[q].pc = "idle" /\ kind \in SettingKinds
    /\ asker' = [NotAlone EXCEPT ![q] =
                     [Waiting EXCEPT !.pc = pc, !.kind = kind, !.a = a, !.todo = todo,
                         !.more = IF PlannedGPUs(a) > PlannedGPUs(app)
                                  THEN PlannedGPUs(a) - PlannedGPUs(app) ELSE 0,
                         !.alone = NobodyAtIt]]
    /\ deploys' = {[x EXCEPT !.alone = FALSE] : x \in deploys}
    /\ UNCHANGED <<app, volume, cluster, latest, settled, spent>>

\* scaleApp: replicas, CPU and GPUs, of which some are given.
ScaleAsked(q) ==
    /\ asker[q].pc = "idle"
    /\ \E todo \in (SUBSET ScaleColumns) \ {{}} : \E a \in SettingRow :
          /\ \A c \in DOMAIN app \ todo : a[c] = app[c]
          /\ "replicas" \in todo => app.min = 0
          /\ Asked(q, "scale", a, todo, "check")

ScaleChecks(q) ==
    /\ asker[q].pc = "check" /\ asker[q].kind = "scale"
    /\ IF \/ ~WithinBudget(asker[q].more)
          \/ "replicas" \in asker[q].todo /\ asker[q].a.replicas > 1 /\ volume
       THEN Refused(q)
       ELSE /\ asker' = [asker EXCEPT ![q].pc = "write", ![q].live = latest = "live"]
            /\ UNCHANGED <<app, volume, cluster, latest, deploys, settled, spent>>

\* autoscaleApp: a minimum of 0 turns it off.
AutoscaleAsked(q) ==
    \E n \in Counts :
        /\ n > 0 => app.cpu /\ app.gpu = 0
        /\ Asked(q, "autoscale", [app EXCEPT !.min = n], {"min"}, "check")

AutoscaleChecks(q) ==
    /\ asker[q].pc = "check" /\ asker[q].kind = "autoscale"
    /\ IF asker[q].a.min > 0 /\ volume
       THEN Refused(q)
       ELSE /\ asker' = [asker EXCEPT ![q].pc = "write", ![q].live = latest = "live"]
            /\ UNCHANGED <<app, volume, cluster, latest, deploys, settled, spent>>

\* addVolume, removeVolume, and the settings that are not modelled.
VolumeAsked(q) ==
    \/ ~volume /\ app.replicas <= 1 /\ Asked(q, "addVolume", app, {"volume"}, "write")
    \/ volume /\ Asked(q, "removeVolume", app, {"volume"}, "write")

SyncAsked(q) == Asked(q, "sync", app, {"none"}, "write")

\* The order of the statements in scaleApp.
NextColumn(q) ==
    CHOOSE c \in asker[q].todo :
        /\ c = "gpu" => asker[q].todo = {"gpu"}
        /\ c = "cpu" => "replicas" \notin asker[q].todo

\* Mutant: an HPA that is no longer rendered is left in the cluster.
AfterWritesSync(q) ==
    IF asker[q].kind \in {"scale", "autoscale"} /\ ~asker[q].live THEN "done" ELSE "sync"

AfterWrites(q) ==
    IF asker[q].kind \in {"scale", "autoscale"} /\ ~asker[q].live THEN "done"
    ELSE IF asker[q].kind = "autoscale" /\ asker[q].a.min = 0 THEN "unscale"
    ELSE "sync"

\* SetReplicas, SetResources, SetGPU, SetAutoscale, AddVolume, DeleteVolume.
\* The last write of a request that has nothing to sync ends it.
Writes(q) ==
    /\ asker[q].pc = "write"
    /\ LET c    == NextColumn(q)
           rest == asker[q].todo \ {c}
           next == IF rest = {} THEN AfterWrites(q) ELSE "write"
       IN  /\ IF c \in DOMAIN app
              THEN app' = [app EXCEPT ![c] = asker[q].a[c]] /\ UNCHANGED volume
              ELSE /\ volume' = IF c = "volume" THEN asker[q].kind = "addVolume" ELSE volume
                   /\ UNCHANGED app
           /\ IF next = "done"
              THEN Finishes(q, cluster.running)
              ELSE /\ asker' = [asker EXCEPT ![q].pc = next, ![q].todo = rest, ![q].more = 0]
                   /\ UNCHANGED settled
    /\ UNCHANGED <<cluster, latest, deploys, spent>>

\* An error of the database: what was written before stays.
WriteFails(q) ==
    /\ asker[q].pc = "write" /\ Fails("store")
    /\ Finishes(q, TRUE)
    /\ UNCHANGED <<app, volume, cluster, latest, deploys>>

\* autoscaleApp deletes the HPA; without success it does not sync.
Unscales(q) ==
    /\ asker[q].pc = "unscale"
    /\ \/ /\ cluster' = [cluster EXCEPT !.hpa = 0]
          /\ Moves(q, "sync") /\ UNCHANGED <<settled, spent>>
       \/ Fails("kube") /\ Finishes(q, TRUE) /\ UNCHANGED cluster
    /\ UNCHANGED <<app, volume, latest, deploys>>

AfterSync(q) == IF asker[q].kind \in {"scale", "autoscale"} THEN "trim" ELSE "done"

\* syncApp, syncIfLive: the manifests of an app whose newest deploy is live.
Syncs(q) ==
    /\ asker[q].pc = "sync"
    /\ IF latest = "live"
       THEN /\ asker' = [asker EXCEPT ![q].pc = "apply", ![q].volume = volume]
            /\ UNCHANGED settled
       ELSE IF AfterSync(q) = "done" THEN Finishes(q, cluster.running)
       ELSE /\ asker' = [asker EXCEPT ![q].pc = "trim", ![q].owes = TRUE]
            /\ UNCHANGED settled
    /\ UNCHANGED <<app, volume, cluster, latest, deploys, spent>>

Applies(q) ==
    /\ asker[q].pc = "apply"
    /\ cluster' = Applied(asker[q].a, asker[q].volume)
    /\ IF AfterSync(q) = "done" THEN Finishes(q, FALSE) ELSE Moves(q, "trim") /\ UNCHANGED settled
    /\ UNCHANGED <<app, volume, latest, deploys, spent>>

ApplyFails(q) ==
    /\ asker[q].pc = "apply" /\ Fails("kube")
    /\ Finishes(q, TRUE)
    /\ UNCHANGED <<app, volume, cluster, latest, deploys>>

\* "when the replica floor drops below 2 the stale PDB must be deleted".
Trims(q) ==
    /\ asker[q].pc = "trim"
    /\ IF Floor(asker[q].a) >= 2
       THEN Finishes(q, FALSE) /\ UNCHANGED <<cluster, spent>>
       ELSE \/ /\ cluster' = [cluster EXCEPT !.pdb = FALSE]
               /\ Finishes(q, FALSE) /\ UNCHANGED spent
            \/ Fails("kube") /\ Finishes(q, TRUE) /\ UNCHANGED cluster
    /\ UNCHANGED <<app, volume, latest, deploys>>

--------------------------------
(***************************************************************************)
(* Deploys: they read the row when they are asked for, and apply it when   *)
(* the build is done.                                                      *)
(***************************************************************************)

DeployAsked ==
    /\ spent.deploys < MaxAppDeploys
    /\ spent' = [spent EXCEPT !.deploys = @ + 1]
    /\ deploys' = {[x EXCEPT !.alone = FALSE] : x \in deploys}
                    \cup {[n |-> spent.deploys + 1, a |-> app, pc |-> "build", alone |-> NobodyAtIt]}
    /\ latest' = "building"
    /\ asker' = NotAlone
    /\ UNCHANGED <<app, volume, cluster, settled>>

\* runBuild, finishDeploy, applyAndGate.
DeployApplies(x) ==
    /\ x.pc = "build"
    /\ cluster' = Applied(x.a, volume)
    /\ deploys' = (deploys \ {x}) \cup {[x EXCEPT !.pc = "gate"]}
    /\ UNCHANGED <<app, volume, latest, asker, settled, spent>>

\* The build fails, or the gate, or it goes live; only the newest is looked at.
DeployFinishes(x) ==
    /\ \E status \in {"failed", "live"} :
        /\ status = "live" => x.pc = "gate"
        /\ latest' = IF x.n = spent.deploys THEN status ELSE latest
    /\ deploys' = deploys \ {x}
    /\ settled' = (settled /\ x.alone)
    /\ UNCHANGED <<app, volume, cluster, asker, spent>>

\* External: the HPA chooses the number of replicas.
HPAScales ==
    /\ cluster.hpa > 0
    /\ \E n \in cluster.hpa .. MaxReplicas : cluster' = [cluster EXCEPT !.replicas = n]
    /\ UNCHANGED <<app, volume, latest, deploys, asker, settled, spent>>

AskerStep(q) ==
    \/ ScaleAsked(q) \/ ScaleChecks(q) \/ AutoscaleAsked(q) \/ AutoscaleChecks(q)
    \/ VolumeAsked(q) \/ SyncAsked(q) \/ Writes(q) \/ WriteFails(q) \/ Unscales(q)
    \/ Syncs(q) \/ Applies(q) \/ ApplyFails(q) \/ Trims(q)

SettingsNext ==
    \/ \E q \in Askers : AskerStep(q)
    \/ DeployAsked \/ HPAScales
    \/ \E x \in deploys : DeployApplies(x) \/ DeployFinishes(x)

SettingsSpec == SettingsInit /\ [][SettingsNext]_settingVars

--------------------------------
(***************************************************************************)
(* Properties. What makes the settings right: they reach the cluster, all  *)
(* of them.                                                                *)
(***************************************************************************)

\* Every variable has the shape its comment gives (apps.go, volumes.go).
SettingsTypeOK ==
    /\ app \in SettingRow /\ volume \in BOOLEAN /\ cluster \in Objects
    /\ latest \in {"none", "building", "live", "failed"}
    /\ \A x \in deploys : x.a \in SettingRow /\ x.pc \in {"build", "gate"} /\ x.n <= spent.deploys
    /\ \A q \in Askers : /\ asker[q].pc \in AskerPCs /\ asker[q].a \in SettingRow
                         /\ asker[q].todo \subseteq Columns /\ asker[q].more \in Nat
    /\ settled \in BOOLEAN

\* The objects of the app are those its row renders to, and no others.
InStep ==
    /\ cluster.volume = volume /\ cluster.gpu = app.gpu
    /\ cluster.hpa = app.min
    /\ app.min = 0 => cluster.replicas = app.replicas
    /\ cluster.pdb <=> app.min >= 2 \/ (app.min = 0 /\ app.replicas >= 2)

\* Whatever races and failures came before, an autoscale request that runs alone on
\* a live app brings every setting and every stale object in line, and requests and
\* deploys that then run one at a time on a live app keep it so
\* (scaleApp, autoscaleApp, syncApp).
SettingsReach ==
    settled /\ NobodyAtIt /\ latest = "live" => InStep

================================
