--------------------------------- MODULE Deploy ---------------------------------
(***************************************************************************)
(* The deploys of one web app: the requests that create deployment rows,   *)
(* the goroutines that build, apply and gate them, the canary step         *)
(* machine, auto-rollback, and the reconciliation a restarted server does  *)
(* (internal/server: apps.go, build.go, canary.go, rolloutgate.go,         *)
(* rollback.go, redeploy.go, reconcile.go, sync.go).                       *)
(*                                                                         *)
(* Three kinds of state:                                                   *)
(*   - the database (deploys, rollouts, policy) survives a crash;          *)
(*   - the cluster (stable, serving, canary, split, jobs) is another       *)
(*     system, reached by calls that may fail and moving by itself;        *)
(*   - the goroutines (tasks, syncs) hold what they read earlier and die   *)
(*     with the process.                                                   *)
(* A step of a goroutine goes from one read or write that another actor    *)
(* can affect to the next.                                                 *)
(***************************************************************************)
EXTENDS DeployStore, FiniteSets

CONSTANTS
    MaxUserDeploys,   \* bound: deploys users ask for (auto-rollbacks add to them)
    MaxCrashes,       \* bound: server crashes
    MaxAsks,          \* bound: promote and abort requests
    MaxEdits,         \* bound: changes of the app's policy
    MaxSyncs,         \* bound: syncs after a setting changed
    Steps,            \* number of traffic steps of a canary
    Policies,         \* the policies the app may have: [strategy, autoRollback]
    Origins,          \* the requests users make, a subset of OriginKinds
    Overlap,          \* may a request start a deploy while another is under way?
    Faults,           \* may calls to the cluster, the disk or the registry fail?
    ServeEarly        \* may a request arrive before reconciliation has read its list?

OriginKinds == {"image", "git", "tarball", "redeploy", "rollback"}

PolicyType == [strategy : {"rolling", "canary"}, autoRollback : BOOLEAN]

ASSUME BoundsAssumption ==
    /\ MaxUserDeploys \in Nat /\ MaxCrashes \in Nat /\ MaxAsks \in Nat
    /\ MaxEdits \in Nat /\ MaxSyncs \in Nat
    /\ Steps \in Nat \ {0}

ASSUME ModeAssumption ==
    /\ Policies \subseteq PolicyType /\ Origins \subseteq OriginKinds
    /\ Overlap \in BOOLEAN /\ Faults \in BOOLEAN /\ ServeEarly \in BOOLEAN

VARIABLES
    deploys,    \* the rows of table deployments, oldest first
    rollouts,   \* the rollouts row of each deploy, or NoRollout
    policy,     \* the app's policy
    stable,     \* the app's Deployment object: image, pod-template stamp, state
    serving,    \* the image of the pods behind the app's Service (0: none)
    canary,     \* the <app>-canary Deployment (image 0: there is none)
    split,      \* 0: all traffic to stable; k: the weight of step k - 1
    jobs,       \* the Build Job of each deploy
    mode,       \* the server process
    tasks,      \* the goroutines that drive deploys
    syncs,      \* the images held by syncs that have read them and not applied
    used        \* how much of each bound is spent

db      == <<deploys, rollouts, policy>>
cluster == <<stable, serving, canary, split, jobs>>
process == <<mode, tasks, syncs>>
vars    == <<db, cluster, process, used>>

PodStates == {"none", "rolling", "ready", "broken"}
JobStates == {"none", "running", "succeeded", "failed"}

NoPods == [image |-> 0, state |-> "none"]

(***************************************************************************)
(* Goroutines.  d is the deploy the goroutine drives and ref the ImageRef  *)
(* of the copy of its row it was started with, which nothing refreshes;    *)
(* target is the Deployment a gate watches, fixed when the gate starts;    *)
(* step is the traffic step about to be taken; rb says whether a failure   *)
(* may roll back; resumed whether promoteCanary was reached from           *)
(* startCanary instead of from the step loop.                              *)
(***************************************************************************)
PCs == {"build", "reattach", "wait", "finish", "apply", "canaryApply",
        "gate", "sample", "live", "fail", "cleanFail", "autoRollback",
        "drive", "route", "probe", "promote", "promoteApply", "finishCanary",
        "abort", "abortClean", "abortMark", "abortFail"}

NewTask(d, pc, ref) ==
    [d |-> d, pc |-> pc, ref |-> ref, target |-> "stable", step |-> 0,
     rb |-> FALSE, resumed |-> FALSE]

At(t, pc) == NewTask(t.d, pc, t.ref)

Become(t, u) == tasks' = (tasks \ {t}) \cup {u}
Goto(t, pc)  == Become(t, At(t, pc))
Stop(t)      == tasks' = tasks \ {t}

\* SetDeploymentStatus(failed) and the goroutine's return: what a failing
\* call does in runBuild, applyImageDeploy and reconcileFail.  No rollback,
\* and a rollouts row keeps the phase it has.
FailRow(t) ==
    /\ deploys' = SetDeploymentStatus(deploys, t.d, "failed")
    /\ Stop(t)
    /\ UNCHANGED <<rollouts, policy, cluster, mode, syncs, used>>

Spend(what) == used' = [used EXCEPT ![what] = @ + 1]

UserDeploys == Cardinality({n \in DOMAIN deploys : deploys[n].cause = 0})

Latest == LatestDeployment(deploys)

Init ==
    /\ deploys = <<>> /\ rollouts = <<>> /\ jobs = <<>>
    /\ policy \in Policies
    /\ stable = [image |-> 0, stamp |-> 0, state |-> "none"]
    /\ serving = 0 /\ canary = NoPods /\ split = 0
    /\ mode = "up" /\ tasks = {} /\ syncs = {}
    /\ used = [crash |-> 0, ask |-> 0, edit |-> 0, sync |-> 0]

--------------------------------
(***************************************************************************)
(* The cluster, as far as the server can see it.                           *)
(***************************************************************************)

\* kube.Apply of the app's manifests.  The pod template carries the image
\* and the id of the latest deploy; a template that did not change leaves
\* the pods alone.
ApplyStable(image) ==
    stable' = IF stable.image = image /\ stable.stamp = Latest THEN stable
              ELSE [image |-> image, stamp |-> Latest, state |-> "rolling"]

ApplyCanary(image) ==
    canary' = IF canary.image = image THEN canary
              ELSE [image |-> image, state |-> "rolling"]

\* Best effort: a deletion that fails is logged and forgotten.
CleanupCanary ==
    \/ canary' = NoPods /\ split' = 0
    \/ Faults /\ UNCHANGED <<canary, split>>

\* maxUnavailable is 0: the old pods serve until the new ones are ready.
StableReady ==
    /\ stable.state = "rolling"
    /\ stable' = [stable EXCEPT !.state = "ready"]
    /\ serving' = stable.image
    /\ UNCHANGED <<db, canary, split, jobs, process, used>>

StableBroken ==
    /\ stable.state = "rolling"
    /\ stable' = [stable EXCEPT !.state = "broken"]
    /\ UNCHANGED <<db, serving, canary, split, jobs, process, used>>

CanaryReady ==
    /\ canary.state = "rolling"
    /\ canary' = [canary EXCEPT !.state = "ready"]
    /\ UNCHANGED <<db, stable, serving, split, jobs, process, used>>

CanaryBroken ==
    /\ canary.state \in {"rolling", "ready"}
    /\ canary' = [canary EXCEPT !.state = "broken"]
    /\ UNCHANGED <<db, stable, serving, split, jobs, process, used>>

JobEnds(n) ==
    /\ jobs[n] = "running"
    /\ \E end \in {"succeeded", "failed"} : jobs' = [jobs EXCEPT ![n] = end]
    /\ UNCHANGED <<db, stable, serving, canary, split, process, used>>

\* ttlSecondsAfterFinished: a finished Job disappears while nobody looks.
JobExpires(n) ==
    /\ mode = "down" /\ jobs[n] \in {"succeeded", "failed"}
    /\ jobs' = [jobs EXCEPT ![n] = "none"]
    /\ UNCHANGED <<db, stable, serving, canary, split, process, used>>

ClusterStep ==
    \/ StableReady \/ StableBroken \/ CanaryReady \/ CanaryBroken
    \/ \E n \in DOMAIN jobs : JobEnds(n) \/ JobExpires(n)

--------------------------------
(***************************************************************************)
(* Requests.                                                               *)
(***************************************************************************)

ServesRequests == mode = "up" \/ (ServeEarly /\ mode = "starting")

\* A user may deploy: the bound, and whether deploys of the app may overlap.
MayDeploy(origin) ==
    /\ ServesRequests /\ origin \in Origins
    /\ UserDeploys < MaxUserDeploys
    /\ Overlap \/ (tasks = {} /\ syncs = {})

Insert(row) ==
    /\ deploys' = Append(deploys, row)
    /\ rollouts' = Append(rollouts, NoRollout)
    /\ jobs' = Append(jobs, "none")
    /\ UNCHANGED <<policy, stable, serving, canary, split, mode, syncs, used>>

Spawn(pc, ref) == tasks' = tasks \cup {NewTask(Len(deploys) + 1, pc, ref)}

\* A prebuilt image: the row starts at "deploying" and the handler applies it.
DeployImage ==
    LET n == Len(deploys) + 1 IN
    /\ MayDeploy("image")
    /\ Insert(Row("deploying", n, 0, 0)) /\ Spawn("apply", n)

\* A tarball, a git repository or a push: the row starts without an image.
DeploySource ==
    /\ MayDeploy("git") \/ MayDeploy("tarball")
    /\ Insert(Row("building", 0, 0, 0)) /\ Spawn("build", 0)

\* The row exists before the tarball is saved; if saving fails the handler
\* answers 500 and leaves the row as it is.
UploadFails ==
    /\ MayDeploy("tarball") /\ Faults
    /\ Insert(Row("building", 0, 0, 0)) /\ UNCHANGED tasks

Redeploy ==
    /\ MayDeploy("redeploy")
    /\ Latest > 0 /\ deploys[Latest].image # 0
    /\ LET image == deploys[Latest].image IN
       Insert(Row("deploying", image, 0, 0)) /\ Spawn("apply", image)

\* With a deploy id any row that has an image may be restored.
Rollback ==
    /\ MayDeploy("rollback")
    /\ \E m \in WithImage(deploys) :
         /\ Insert(Row("deploying", deploys[m].image, m, 0))
         /\ Spawn("apply", deploys[m].image)

\* promote or abort, recorded on the app's newest active rollout.
RequestRollout ==
    /\ ServesRequests /\ used.ask < MaxAsks
    /\ \E n \in DOMAIN rollouts, phase \in {"promote-requested", "abort-requested"} :
         /\ IsNewest(n, ActiveRollouts(rollouts)) /\ MayRequest(rollouts, n)
         /\ rollouts' = SetRolloutPhase(rollouts, n, phase)
    /\ Spend("ask")
    /\ UNCHANGED <<deploys, policy, cluster, process>>

SetPolicy ==
    /\ ServesRequests /\ used.edit < MaxEdits
    /\ \E p \in Policies \ {policy} : policy' = p
    /\ Spend("edit")
    /\ UNCHANGED <<deploys, rollouts, cluster, process>>

\* A setting changed and the latest deploy is live: read its image, then
\* apply it, two steps with anything in between.
SyncRead ==
    /\ ServesRequests /\ used.sync < MaxSyncs
    /\ Latest > 0 /\ deploys[Latest].status = "live"
    /\ syncs' = syncs \cup {deploys[Latest].image}
    /\ Spend("sync")
    /\ UNCHANGED <<db, cluster, mode, tasks>>

SyncApply ==
    /\ \E image \in syncs : ApplyStable(image) /\ syncs' = syncs \ {image}
    /\ UNCHANGED <<db, serving, canary, split, jobs, mode, tasks, used>>

Request ==
    \/ DeployImage \/ DeploySource \/ UploadFails \/ Redeploy \/ Rollback
    \/ RequestRollout \/ SetPolicy \/ SyncRead \/ SyncApply

--------------------------------
(***************************************************************************)
(* Building: runBuild up to finishDeploy, and its twin after a restart.    *)
(***************************************************************************)

ApplyBuildJob(t) ==
    /\ t.pc = "build"
    /\ jobs' = [jobs EXCEPT ![t.d] = "running"]
    /\ Goto(t, "wait")
    /\ UNCHANGED <<db, stable, serving, canary, split, mode, syncs, used>>

\* reconcileBuilding: attach to the Job if it is still there.
Reattach(t) ==
    /\ t.pc = "reattach" /\ jobs[t.d] # "none"
    /\ Goto(t, "wait")
    /\ UNCHANGED <<db, cluster, mode, syncs, used>>

BuildSucceeds(t) ==
    /\ t.pc = "wait" /\ jobs[t.d] = "succeeded"
    /\ Goto(t, "finish")
    /\ UNCHANGED <<db, cluster, mode, syncs, used>>

\* The Job failed or outlasted the build timeout; or there is none to attach
\* to; or a call on the way to the Job failed.
BuildFails(t) ==
    /\ \/ t.pc = "wait" /\ jobs[t.d] \in {"running", "failed"}
       \/ t.pc = "reattach" /\ jobs[t.d] = "none"
       \/ t.pc \in {"build", "reattach"} /\ Faults
    /\ FailRow(t)
\* Mutant: the goroutine's copy is written back, without the built image.
FinishStale(t) ==
    /\ t.pc = "finish"
    /\ deploys' = SetImageAndDeploying(deploys, t.d, t.ref)
    /\ Goto(t, "apply")
    /\ UNCHANGED <<rollouts, policy, cluster, mode, syncs, used>>

\* finishDeploy writes the row, not the copy of it that the goroutine holds.
Finish(t) ==
    /\ t.pc = "finish"
    /\ deploys' = SetImageAndDeploying(deploys, t.d,
                                       IF t.ref = 0 THEN t.d ELSE t.ref)
    /\ Goto(t, "apply")
    /\ UNCHANGED <<rollouts, policy, cluster, mode, syncs, used>>

--------------------------------
(***************************************************************************)
(* Applying: applyAndGate and startCanary.                                 *)
(***************************************************************************)

\* A rollback rolls; so does a deploy with no other live deploy to compare
\* with, unless it has started a rollout already.
DeployStrategy(n) ==
    IF /\ deploys[n].from = 0
       /\ \/ rollouts[n].phase # "none"
          \/ LiveDeployments(deploys) \ {n} # {}
    THEN policy.strategy ELSE "rolling"
\* Mutant: a promotion is gated on the canary that is already ready.
StartGateOnCanary(t) ==
    Become(t, [At(t, "gate") EXCEPT !.target =
                 IF rollouts[t.d].phase \in {"starting", "promoting"}
                 THEN "canary" ELSE "stable"])

\* watchRollout starts: the Deployment it watches is fixed now.
StartGate(t) ==
    Become(t, [At(t, "gate") EXCEPT !.target =
                 IF rollouts[t.d].phase = "starting" THEN "canary" ELSE "stable"])

ApplyRolling(t) ==
    /\ t.pc = "apply" /\ DeployStrategy(t.d) = "rolling"
    /\ ApplyStable(deploys[t.d].image)
    /\ StartGate(t)
    /\ UNCHANGED <<db, serving, canary, split, jobs, mode, syncs, used>>

\* A call of applyAndGate failed.  A canary is rendered from the goroutine's
\* copy of the row, and an empty image does not render.
ApplyFails(t) ==
    /\ \/ t.pc \in {"apply", "canaryApply"} /\ Faults
       \/ t.pc = "canaryApply" /\ t.ref = 0
       \/ t.pc = "promoteApply" /\ t.resumed /\ (Faults \/ t.ref = 0)
    /\ FailRow(t)

\* The first time a canary starts, its row does too; after a restart it goes
\* on from the phase the row is in.
StartCanary(t) ==
    /\ t.pc = "apply" /\ DeployStrategy(t.d) = "canary"
    /\ LET phase == rollouts[t.d].phase IN
       /\ rollouts' = IF phase = "none"
                      THEN [rollouts EXCEPT ![t.d] = Rollout("starting", 0)]
                      ELSE rollouts
       /\ CASE phase \in {"none", "starting"} -> Goto(t, "canaryApply")
            [] phase = "promoting" ->
                 Become(t, [At(t, "promote") EXCEPT !.resumed = TRUE])
            [] phase \in {"done", "aborted"} -> Stop(t)
            [] OTHER -> Goto(t, "drive")
    /\ UNCHANGED <<deploys, policy, cluster, mode, syncs, used>>

CanaryApply(t) ==
    /\ t.pc = "canaryApply" /\ t.ref # 0
    /\ ApplyCanary(t.ref)
    /\ StartGate(t)
    /\ UNCHANGED <<db, stable, serving, split, jobs, mode, syncs, used>>

--------------------------------
(***************************************************************************)
(* The rollout gate: watchRollout, gateDone, gateFailed, failDeploy.  A    *)
(* poll that sees pods still rolling changes nothing and is not a step.    *)
(***************************************************************************)

GateFailed(t, rb) ==
    LET phase == rollouts[t.d].phase IN
    Become(t, CASE phase \in BeforePromotion -> At(t, "abort")
                [] phase = "promoting" -> [At(t, "cleanFail") EXCEPT !.rb = rb]
                [] OTHER -> [At(t, "fail") EXCEPT !.rb = rb])

GateDone(t) ==
    LET phase == rollouts[t.d].phase IN
    Goto(t, CASE phase = "starting" -> "drive"
              [] phase = "promoting" -> "finishCanary"
              [] OTHER -> "live")

Watched(t) == IF t.target = "canary" THEN canary.state ELSE stable.state

\* First the loop asks whether the deploy is still the latest one ...
GateCheck(t) ==
    /\ t.pc = "gate" /\ Latest = t.d
    /\ Become(t, [t EXCEPT !.pc = "sample"])
    /\ UNCHANGED <<db, cluster, mode, syncs, used>>

GateSuperseded(t) ==
    /\ \/ t.pc = "gate"
       \/ t.pc = "sample" /\ Watched(t) = "rolling"
    /\ Latest # t.d
    /\ GateFailed(t, FALSE)
    /\ UNCHANGED <<db, cluster, mode, syncs, used>>

\* ... then it samples the Deployment, and a finished or failed rollout is
\* final whatever happened since it asked.
GateSamplesDone(t) ==
    /\ t.pc = "sample" /\ Watched(t) = "ready"
    /\ GateDone(t)
    /\ UNCHANGED <<db, cluster, mode, syncs, used>>
\* Mutant: the rollout timeout is forgotten.
GateSamplesFailedNoTimeout(t) ==
    /\ t.pc = "sample" /\ Watched(t) = "broken"
    /\ GateFailed(t, TRUE)
    /\ UNCHANGED <<db, cluster, mode, syncs, used>>

\* A fast-fail signal, or the rollout timeout: also when the status could not be read
\* for all that time, whatever the pods were.
GateSamplesFailed(t) ==
    /\ t.pc = "sample" /\ (Faults \/ Watched(t) \in {"broken", "rolling"})
    /\ GateFailed(t, TRUE)
    /\ UNCHANGED <<db, cluster, mode, syncs, used>>

GateFindsNothing(t) ==
    /\ t.pc = "sample" /\ Watched(t) = "none"
    /\ GateFailed(t, FALSE)
    /\ UNCHANGED <<db, cluster, mode, syncs, used>>

MarkLive(t) ==
    /\ t.pc = "live"
    /\ deploys' = SetDeploymentStatus(deploys, t.d, "live")
    /\ Stop(t)
    /\ UNCHANGED <<rollouts, policy, cluster, mode, syncs, used>>
\* Mutant: the goroutine forgets that the failure may roll back.
CleanFailForgetsRollback(t) ==
    /\ t.pc = "cleanFail"
    /\ CleanupCanary
    /\ rollouts' = SetRolloutPhase(rollouts, t.d, "aborted")
    /\ Goto(t, "fail")
    /\ UNCHANGED <<deploys, policy, stable, serving, jobs, mode, syncs, used>>

\* A failed promotion: the canary goes, the rollout is aborted.
CleanFail(t) ==
    /\ t.pc = "cleanFail"
    /\ CleanupCanary
    /\ rollouts' = SetRolloutPhase(rollouts, t.d, "aborted")
    /\ Become(t, [t EXCEPT !.pc = "fail"])
    /\ UNCHANGED <<deploys, policy, stable, serving, jobs, mode, syncs, used>>
\* Mutant: a rollback that fails is rolled back too.
FailRollsBackRollbacks(t) ==
    /\ t.pc = "fail"
    /\ deploys' = SetDeploymentStatus(deploys, t.d, "failed")
    /\ IF t.rb /\ policy.autoRollback THEN Goto(t, "autoRollback") ELSE Stop(t)
    /\ UNCHANGED <<rollouts, policy, cluster, mode, syncs, used>>

Fail(t) ==
    /\ t.pc = "fail"
    /\ deploys' = SetDeploymentStatus(deploys, t.d, "failed")
    /\ IF t.rb /\ deploys[t.d].from = 0 /\ policy.autoRollback
       THEN Goto(t, "autoRollback") ELSE Stop(t)
    /\ UNCHANGED <<rollouts, policy, cluster, mode, syncs, used>>

\* rollback() on behalf of failDeploy: a new row, driven by the same goroutine.
AutoRollback(t) ==
    /\ t.pc = "autoRollback"
    /\ \E m \in DOMAIN deploys :
         /\ IsNewest(m, RollbackTargets(deploys))
         /\ Insert(Row("deploying", deploys[m].image, m, t.d))
         /\ Become(t, NewTask(Len(deploys) + 1, "apply", deploys[m].image))

\* Nothing to go back to, or the registry lost the image or did not answer.
NoRollback(t) ==
    /\ t.pc = "autoRollback"
    /\ RollbackTargets(deploys) = {} \/ Faults
    /\ Stop(t)
    /\ UNCHANGED <<db, cluster, mode, syncs, used>>

--------------------------------
(***************************************************************************)
(* The canary step machine: runCanary, promoteCanary, finishCanary,        *)
(* abortCanary.                                                            *)
(***************************************************************************)

Drive(t) ==
    /\ t.pc = "drive"
    /\ LET phase == rollouts[t.d].phase IN
       IF Latest # t.d THEN Goto(t, "abort")
       ELSE CASE phase = "abort-requested"   -> Goto(t, "abort")
              [] phase = "promote-requested" -> Goto(t, "promote")
              [] phase = "starting"          -> Goto(t, "route")
              [] phase = "stepping"          -> Goto(t, "probe")
              [] OTHER                       -> Stop(t)
    /\ UNCHANGED <<db, cluster, mode, syncs, used>>

\* setCanaryWeight, then SetRolloutStep, which says "stepping" even if a
\* request was recorded since the loop read the row.
Route(t) ==
    /\ t.pc = "route" /\ t.ref # 0
    /\ split' = t.step + 1
    /\ rollouts' = SetRolloutStep(rollouts, t.d, t.step)
    /\ Goto(t, "drive")
    /\ UNCHANGED <<deploys, policy, stable, serving, canary, jobs, mode, syncs, used>>

RouteFails(t) ==
    /\ t.pc = "route" /\ (Faults \/ t.ref = 0)
    /\ Goto(t, "abort")
    /\ UNCHANGED <<db, cluster, mode, syncs, used>>

\* A restarted canary pod or a success rate below the policy's.
ProbeUnhealthy(t) ==
    /\ t.pc = "probe"
    /\ Goto(t, "abort")
    /\ UNCHANGED <<db, cluster, mode, syncs, used>>
\* Mutant: one step too many.
ProbeAdvancesTooFar(t) ==
    /\ t.pc = "probe" /\ (Faults \/ canary.state \notin {"broken", "none"})
    /\ LET next == rollouts[t.d].step + 1 IN
       IF next <= Steps
       THEN Become(t, [At(t, "route") EXCEPT !.step = next])
       ELSE Goto(t, "promote")
    /\ UNCHANGED <<db, cluster, mode, syncs, used>>

\* The step's hold is over and the probes are good.  A canary whose pods cannot be
\* read counts as well.
ProbeAdvances(t) ==
    /\ t.pc = "probe" /\ (Faults \/ canary.state \notin {"broken", "none"})
    /\ LET next == rollouts[t.d].step + 1 IN
       IF next < Steps
       THEN Become(t, [At(t, "route") EXCEPT !.step = next])
       ELSE Goto(t, "promote")
    /\ UNCHANGED <<db, cluster, mode, syncs, used>>

\* The next turn of the loop, when there is something new to read.
ProbeAgain(t) ==
    /\ t.pc = "probe"
    /\ Latest # t.d \/ rollouts[t.d].phase # "stepping"
    /\ Goto(t, "drive")
    /\ UNCHANGED <<db, cluster, mode, syncs, used>>

Promote(t) ==
    /\ t.pc = "promote"
    /\ rollouts' = SetRolloutPhase(rollouts, t.d, "promoting")
    /\ Become(t, [t EXCEPT !.pc = "promoteApply"])
    /\ UNCHANGED <<deploys, policy, cluster, mode, syncs, used>>

PromoteApply(t) ==
    /\ t.pc = "promoteApply" /\ t.ref # 0
    /\ ApplyStable(t.ref)
    /\ StartGate(t)
    /\ UNCHANGED <<db, serving, canary, split, jobs, mode, syncs, used>>

PromoteFails(t) ==
    /\ t.pc = "promoteApply" /\ ~t.resumed /\ (Faults \/ t.ref = 0)
    /\ Goto(t, "abort")
    /\ UNCHANGED <<db, cluster, mode, syncs, used>>

FinishCanary(t) ==
    /\ t.pc = "finishCanary"
    /\ CleanupCanary
    /\ rollouts' = SetRolloutPhase(rollouts, t.d, "done")
    /\ Goto(t, "live")
    /\ UNCHANGED <<deploys, policy, stable, serving, jobs, mode, syncs, used>>
\* The canary objects are left alone when a newer rollout owns them.
Abort(t) ==
    /\ t.pc = "abort"
    /\ LET active == ActiveRollouts(rollouts) IN
       IF active = {} \/ IsNewest(t.d, active)
       THEN Goto(t, "abortClean") ELSE Goto(t, "abortMark")
    /\ UNCHANGED <<db, cluster, mode, syncs, used>>

AbortClean(t) ==
    /\ t.pc = "abortClean"
    /\ CleanupCanary
    /\ Goto(t, "abortMark")
    /\ UNCHANGED <<db, stable, serving, jobs, mode, syncs, used>>

AbortMark(t) ==
    /\ t.pc = "abortMark"
    /\ rollouts' = SetRolloutPhase(rollouts, t.d, "aborted")
    /\ Goto(t, "abortFail")
    /\ UNCHANGED <<deploys, policy, cluster, mode, syncs, used>>

AbortFail(t) ==
    /\ t.pc = "abortFail"
    /\ deploys' = IF deploys[t.d].status = "deploying"
                  THEN SetDeploymentStatus(deploys, t.d, "failed") ELSE deploys
    /\ Stop(t)
    /\ UNCHANGED <<rollouts, policy, cluster, mode, syncs, used>>

--------------------------------
TaskStep(t) ==
    \/ ApplyBuildJob(t) \/ Reattach(t) \/ BuildSucceeds(t) \/ BuildFails(t)
    \/ Finish(t) \/ ApplyRolling(t) \/ ApplyFails(t)
    \/ StartCanary(t) \/ CanaryApply(t)
    \/ GateCheck(t) \/ GateSuperseded(t) \/ GateSamplesDone(t)
    \/ GateSamplesFailed(t) \/ GateFindsNothing(t)
    \/ MarkLive(t) \/ CleanFail(t) \/ Fail(t) \/ AutoRollback(t) \/ NoRollback(t)
    \/ Drive(t) \/ Route(t) \/ RouteFails(t)
    \/ ProbeUnhealthy(t) \/ ProbeAdvances(t) \/ ProbeAgain(t)
    \/ Promote(t) \/ PromoteApply(t) \/ PromoteFails(t) \/ FinishCanary(t)
    \/ Abort(t) \/ AbortClean(t) \/ AbortMark(t) \/ AbortFail(t)

\* The process dies, and every goroutine with it.
Crash ==
    /\ mode # "down" /\ used.crash < MaxCrashes
    /\ mode' = "down" /\ tasks' = {} /\ syncs' = {}
    /\ Spend("crash")
    /\ UNCHANGED <<db, cluster>>

Restart ==
    /\ mode = "down"
    /\ mode' = "starting"
    /\ UNCHANGED <<db, cluster, tasks, syncs, used>>
\* Mutant: only rows whose build had ended are resumed.
ReconcileDeployingOnly ==
    /\ mode = "starting"
    /\ mode' = "up"
    /\ tasks' = tasks \cup
         {NewTask(n, "finish", deploys[n].image) :
            n \in {m \in DOMAIN deploys : deploys[m].status = "deploying"}}
    /\ UNCHANGED <<db, cluster, syncs, used>>

\* Mutant: reconciliation runs again while the server is up.
ReconcileAnyTime ==
    /\ mode \in {"starting", "up"}
    /\ mode' = "up"
    /\ tasks' = tasks \cup
         {NewTask(n, IF deploys[n].status = "building" THEN "reattach" ELSE "finish",
                  deploys[n].image) : n \in UnfinishedDeployments(deploys)}
    /\ UNCHANGED <<db, cluster, syncs, used>>

\* reconcileUnfinished reads the unfinished rows once and starts a goroutine
\* for each, holding the row as it was read.
Reconcile ==
    /\ mode = "starting"
    /\ mode' = "up"
    /\ tasks' = tasks \cup
         {NewTask(n, IF deploys[n].status = "building" THEN "reattach" ELSE "finish",
                  deploys[n].image) : n \in UnfinishedDeployments(deploys)}
    /\ UNCHANGED <<db, cluster, syncs, used>>

ServerStep == Crash \/ Restart \/ Reconcile

Next ==
    \/ ClusterStep \/ Request \/ ServerStep
    \/ \E t \in tasks : TaskStep(t)

Spec == Init /\ [][Next]_vars

\* A goroutine that can take a step eventually does, a server that died is
\* restarted by its supervisor and reconciles.  Nothing is assumed of pods,
\* of Jobs or of users: the code's own timeouts bound its waits on them.
DriveDeploy(n) == \E t \in tasks : t.d = n /\ TaskStep(t)

\* No deploy has a seq above this one: at most one auto-rollback per request.
MaxSeq == 2 * MaxUserDeploys

Fairness ==
    /\ \A n \in 1..MaxSeq : WF_vars(DriveDeploy(n))
    /\ WF_vars(Restart) /\ WF_vars(Reconcile)

FairSpec == Spec /\ Fairness

================================
