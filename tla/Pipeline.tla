--------------------------------- MODULE Pipeline ------------------------------
(***************************************************************************)
(* A pipeline run (internal/server/pipelines.go, argo.go,                  *)
(* store/pipelines.go): a DAG of steps that start runs of job apps, plain  *)
(* Jobs, deploys and other actions.  The native engine's tick drives the   *)
(* steps itself; under the Argo engine a Workflow runs the compute steps   *)
(* and the tick only the actions.  The tick, the request that stops a run  *)
(* and the reconciliation after a restart hold one mutex from beginning to *)
(* end.  The request that starts a run takes it only for the first tick.   *)
(* One pipeline run is modelled; others share no row with it.              *)
(***************************************************************************)
EXTENDS JobRuns, FiniteSetsExt

CONSTANTS
    Last,      \* number of steps, in topological order
    Kind,      \* of each step
    Needs,     \* the steps each step needs
    Retries,   \* how often each step is run again
    Engines,   \* the engines a run may be started with
    UserStops  \* do users stop the run?

StepIds == 1 .. Last
Actions == {"deploy", "scale", "notify"}

ASSUME PipelineAssumption ==
    /\ Last \in Nat \ {0}
    /\ Kind \in [StepIds -> Actions \cup {"app", "image"}]
    /\ Retries \in [StepIds -> Nat]
    /\ Needs \in [StepIds -> SUBSET StepIds]
    /\ \A k \in StepIds : Needs[k] \subseteq 1 .. (k - 1)
    /\ Engines \subseteq {"native", "argo"} /\ UserStops \in BOOLEAN

VARIABLES
    prun,      \* the row of table pipeline_runs
    steps,     \* its rows of table pipeline_run_steps
    stepJobs,  \* the Job of the last attempt of each image step
    rollouts,  \* the deploy each deploy step started
    workflow,  \* the Argo Workflow of the run
    starter,   \* the request that starts the run
    holder     \* the goroutine that holds pipelineMu

cluster  == <<stepJobs, rollouts, workflow>>
pipeVars == <<prun, steps, cluster, starter, holder>>
vars     == <<runVars, pipeVars>>

RunEnds    == {"done", "failed", "stopped"}
StepEnds   == {"done", "failed", "skipped"}
StepStates == StepEnds \cup {"pending", "running"}
RunRow     == [status : RunEnds \cup {"none", "running"}, engine : {"native", "argo"}]
\* waits: the detail of the row names the deploy the step waits for.
StepRow    == [state : StepStates, run : Nat, attempt : Nat, waits : BOOLEAN]
WorkflowType == [phase : {"none", "Running", "Succeeded", "Failed"},
                 nodes : [StepIds -> StepEnds \cup {"running"}]]
StarterType  == [pc : {"none", "apply", "mark", "tick"}, marks : SUBSET StepIds]

(***************************************************************************)
(* The holder of the mutex: what it does, where it is, the rows as it read *)
(* them and has moved them since, the ones it has still to look at, the    *)
(* steps to be retried, and what is left of its decision.  run is the run  *)
(* it is launching.                                                        *)
(***************************************************************************)
HolderType == [op     : {"none", "tick", "stop", "reconcile"},
               pc     : {"idle", "workflow", "scan", "scanApply", "act", "actApply",
                         "apply", "mark", "markFailed", "action", "gate",
                         "stopRun", "stopStep", "orphan"},
               view   : [StepIds -> StepStates],
               scan   : SUBSET StepIds,
               retry  : SUBSET StepIds,
               skip   : SUBSET StepIds,
               launch : SUBSET StepIds,
               finish : {"no", "done", "failed"},
               run    : Nat]

Compute == {k \in StepIds : Kind[k] \notin Actions}
In(state) == {k \in StepIds : steps[k].state = state}
States == [k \in StepIds |-> steps[k].state]
Native == prun.engine = "native"

Free == [op |-> "none", pc |-> "idle", view |-> [k \in StepIds |-> "pending"],
         scan |-> {}, retry |-> {}, skip |-> {}, launch |-> {}, finish |-> "no",
         run |-> 0]

NewStep    == [state |-> "pending", run |-> 0, attempt |-> 0, waits |-> FALSE]
NoWorkflow == [phase |-> "none", nodes |-> [k \in StepIds |-> "running"]]
NoStarter  == [pc |-> "none", marks |-> {}]

Init ==
    /\ RunInit
    /\ prun = [status |-> "none", engine |-> "native"]
    /\ steps = [k \in StepIds |-> NewStep]
    /\ stepJobs = [k \in StepIds |-> "none"] /\ rollouts = [k \in StepIds |-> "none"]
    /\ workflow = NoWorkflow /\ starter = NoStarter /\ holder = Free

--------------------------------
(***************************************************************************)
(* Statements of the store.  Each names the state it expects.              *)
(***************************************************************************)

MarkStepRunning(k, r, attempt) ==
    steps' = IF steps[k].state \in {"pending", "running"}
             THEN [steps EXCEPT ![k].state = "running", ![k].run = r,
                                ![k].attempt = attempt]
             ELSE steps

FinishStep(k, state) ==
    steps' = IF \/ steps[k].state = "running"
                \/ steps[k].state = "pending" /\ state # "done"
             THEN [steps EXCEPT ![k].state = state]
             ELSE steps

SetStepDetail(k) ==
    steps' = IF steps[k].state = "running"
             THEN [steps EXCEPT ![k].waits = TRUE] ELSE steps

FinishPipelineRun(status) ==
    prun' = IF prun.status \in RunEnds THEN prun ELSE [prun EXCEPT !.status = status]

\* Steps that change one table of JobRuns.
OnlyRunRows   == UNCHANGED <<jobs, watchers, starters, todo, mode, live, used>>
OnlyRunsJobs  == UNCHANGED <<watchers, starters, todo, mode, live, used>>
OnlyJobs      == UNCHANGED <<runs, watchers, starters, todo, mode, live, used>>
OnlyApplies   == UNCHANGED <<runs, starters, todo, mode, live, used>>

--------------------------------
(***************************************************************************)
(* decidePipelineRun, over the rows as the tick sees them.                 *)
(***************************************************************************)

\* Compile sorts the steps; Downstream is the inverse of Upstream.
Upstream[k \in StepIds] == Needs[k] \cup UNION {Upstream[n] : n \in Needs[k]}

AllNeedsDone(view, k) == \A n \in Needs[k] : view[n] = "done"

ToSkip(view) ==
    {k \in StepIds : /\ Native /\ view[k] = "pending"
                     /\ \E n \in Upstream[k] : view[n] = "failed"}

ToLaunch(view) ==
    {k \in StepIds \ ToSkip(view) : /\ Native \/ k \notin Compute
                                    /\ view[k] = "pending" /\ AllNeedsDone(view, k)}

\* Mutant: a run with a skipped step is done.
OutcomeLenient(view) ==
    IF \E k \in StepIds : view[k] \in {"pending", "running"} THEN "no"
    ELSE IF \E k \in StepIds : view[k] = "failed" THEN "failed" ELSE "done"

Outcome(view) ==
    IF \E k \in StepIds : view[k] \in {"pending", "running"} THEN "no"
    ELSE IF \A k \in StepIds : view[k] = "done" THEN "done" ELSE "failed"

--------------------------------
(***************************************************************************)
(* The request that starts a run.                                          *)
(***************************************************************************)

\* Every app that is run is live, and no compute step needs an action.
ArgoPreflight ==
    /\ live \/ \A k \in StepIds : Kind[k] # "app"
    /\ \A k \in Compute : Needs[k] \subseteq Compute

CreatePipelineRun(engine) ==
    /\ Alive /\ prun.status = "none"
    /\ engine = "argo" => ArgoPreflight
    /\ prun' = [status |-> "running", engine |-> engine]
    /\ starter' = [NoStarter EXCEPT !.pc = IF engine = "argo" THEN "apply" ELSE "tick"]
    /\ UNCHANGED <<runVars, steps, cluster, holder>>

ApplyWorkflow ==
    /\ starter.pc = "apply"
    /\ workflow' = [NoWorkflow EXCEPT !.phase = "Running"]
    /\ starter' = [pc |-> "mark", marks |-> Compute]
    /\ UNCHANGED <<runVars, prun, steps, stepJobs, rollouts, holder>>

ApplyWorkflowFails ==
    /\ starter.pc = "apply" /\ "apply" \in Faults
    /\ FinishPipelineRun("failed")
    /\ starter' = NoStarter
    /\ UNCHANGED <<runVars, steps, cluster, holder>>

MarkComputeStep ==
    /\ starter.pc = "mark" /\ starter.marks # {}
    /\ MarkStepRunning(Oldest(starter.marks), 0, 0)
    /\ starter' = [starter EXCEPT !.marks = @ \ {Oldest(starter.marks)}]
    /\ UNCHANGED <<runVars, prun, cluster, holder>>

MarkedAll ==
    /\ starter.pc = "mark" /\ starter.marks = {}
    /\ starter' = [starter EXCEPT !.pc = "tick"]
    /\ UNCHANGED <<runVars, prun, steps, cluster, holder>>

--------------------------------
(***************************************************************************)
(* Taking the mutex.                                                       *)
(***************************************************************************)

Take(op, pc, scan) ==
    /\ holder = Free
    /\ holder' = [Free EXCEPT !.op = op, !.pc = pc, !.scan = scan, !.view = States]
    /\ UNCHANGED <<runVars, prun, steps, cluster>>

Tick == Take("tick", IF Native THEN "scan" ELSE "workflow",
             IF Native THEN In("running") ELSE In("running") \cap Compute)

LoopTicks ==
    /\ mode = "up" /\ prun.status = "running"
    /\ Tick
    /\ UNCHANGED starter

\* The new run's first tick does not look at the run's status again.
FirstTick ==
    /\ Alive /\ starter.pc = "tick"
    /\ Tick
    /\ starter' = NoStarter

\* stopPipelineRun re-reads the status under the mutex.
StopBegins ==
    /\ UserStops /\ Alive /\ prun.status = "running"
    /\ Take("stop", IF Native THEN "scan" ELSE "workflow", In("running") \cup In("pending"))
    /\ UNCHANGED starter

ReconcileBegins ==
    /\ mode = "resumed" /\ prun.status = "running" /\ Native
    /\ Take("reconcile", "scan", In("running"))
    /\ UNCHANGED starter

NothingToReconcile ==
    /\ mode = "resumed" /\ holder = Free
    /\ prun.status # "running" \/ ~ Native
    /\ mode' = "up"
    /\ UNCHANGED <<runs, jobs, watchers, starters, todo, live, used, pipeVars>>

Doing(op, pc) == holder.op = op /\ holder.pc = pc
Scanning == Oldest(holder.scan)

EndTurn == holder' = Free

--------------------------------
(***************************************************************************)
(* pipelineTickOne: the running steps are harvested.                       *)
(***************************************************************************)

ScanStep(kinds) ==
    Native /\ Doing("tick", "scan") /\ holder.scan # {} /\ Kind[Scanning] \in kinds

Seen(state) ==
    holder' = [holder EXCEPT !.scan = @ \ {Scanning}, !.view[Scanning] = state]

Leave         == Seen("running") /\ UNCHANGED steps
Settle(state) == Seen(state) /\ FinishStep(Scanning, state)

\* Mutant: one retry too many.
MayRetryOnceMore == steps[Scanning].attempt <= Retries[Scanning] + 1

MayRetry == steps[Scanning].attempt <= Retries[Scanning]

HarvestApp ==
    /\ ScanStep({"app"})
    /\ LET status == runs[steps[Scanning].run].status IN
       \/ status = "running" /\ Leave
       \/ status = "succeeded" /\ Settle("done")
       \/ status = "failed" /\ ~ MayRetry /\ Settle("failed")
       \/ /\ status = "failed" /\ MayRetry
          /\ holder' = [holder EXCEPT !.scan = @ \ {Scanning}, !.retry = @ \cup {Scanning}]
          /\ UNCHANGED steps
    /\ UNCHANGED <<runVars, prun, cluster, starter>>

\* A step that does not fit now is left as it is, one that never will fails.
OverBudget(k) == "budget" \in Faults /\ (UNCHANGED steps \/ FinishStep(k, "failed"))

\* Mutant: the end of a Job is its success.
HarvestImageEnded ==
    /\ ScanStep({"image"})
    /\ LET job == stepJobs[Scanning] IN
       \/ job = "running" /\ Leave
       \/ job \in Ended /\ Settle("done")
       \/ job \in {"none", "gone"} /\ Settle("failed")
    /\ UNCHANGED <<runVars, prun, cluster, starter>>

\* Mutant: a Job that is not there is waited for.
HarvestImageWaits ==
    /\ ScanStep({"image"})
    /\ LET job == stepJobs[Scanning] IN
       \/ job \in {"running", "none", "gone"} /\ Leave
       \/ job = "succeeded" /\ Settle("done")
       \/ job = "failed" /\ ~ MayRetry /\ Settle("failed")
    /\ UNCHANGED <<runVars, prun, cluster, starter>>

\* A Job that is not there has been deleted by hand, or was never applied.
HarvestImage ==
    /\ ScanStep({"image"})
    /\ LET job == stepJobs[Scanning] IN
       \/ job = "running" /\ Leave
       \/ "read" \in Faults /\ Leave
       \/ job = "failed" /\ MayRetry /\ OverBudget(Scanning) /\ Seen("running")
       \/ job = "succeeded" /\ Settle("done")
       \/ /\ job \in {"none", "gone"} \/ (job = "failed" /\ ~ MayRetry)
          /\ Settle("failed")
    /\ UNCHANGED <<runVars, prun, cluster, starter>>

\* The retry of an image step happens while the rows are looked at.
RetryImage ==
    /\ ScanStep({"image"}) /\ stepJobs[Scanning] = "failed" /\ MayRetry
    /\ MarkStepRunning(Scanning, 0, steps[Scanning].attempt + 1)
    /\ stepJobs' = [stepJobs EXCEPT ![Scanning] = "none"]
    /\ holder' = [holder EXCEPT !.pc = "scanApply"]
    /\ UNCHANGED <<runVars, prun, rollouts, workflow, starter>>

\* A deploy step has an outcome once its detail names a deploy that has one;
\* the other actions are not expected to be running here.
HarvestAction ==
    /\ ScanStep(Actions)
    /\ IF ~ steps[Scanning].waits \/ rollouts[Scanning] = "deploying" THEN Leave
       ELSE Settle(IF rollouts[Scanning] = "live" THEN "done" ELSE "failed")
    /\ UNCHANGED <<runVars, prun, cluster, starter>>

--------------------------------
(***************************************************************************)
(* pipelineTickArgoRun: the compute steps take the states of the nodes.    *)
(***************************************************************************)

NodeOutcome(k) ==
    IF workflow.phase = "none" THEN "failed"
    ELSE IF workflow.nodes[k] # "running" THEN workflow.nodes[k]
    ELSE CASE workflow.phase = "Running"   -> "running"
           [] workflow.phase = "Succeeded" -> "skipped"
           [] workflow.phase = "Failed"    -> "failed"

ReadWorkflow ==
    /\ Doing("tick", "workflow")
    /\ \/ holder' = [holder EXCEPT !.pc = "scan",
                        !.view = [k \in StepIds |-> IF k \in holder.scan
                                     THEN NodeOutcome(k) ELSE holder.view[k]]]
       \/ "read" \in Faults /\ EndTurn
    /\ UNCHANGED <<runVars, prun, steps, cluster, starter>>

HarvestNode ==
    /\ ~ Native /\ Doing("tick", "scan") /\ holder.scan # {}
    /\ IF holder.view[Scanning] = "running" THEN UNCHANGED steps
       ELSE FinishStep(Scanning, holder.view[Scanning])
    /\ holder' = [holder EXCEPT !.scan = @ \ {Scanning}]
    /\ UNCHANGED <<runVars, prun, cluster, starter>>

--------------------------------
(***************************************************************************)
(* What the tick decided: skip, launch, finish.                            *)
(***************************************************************************)

Decide ==
    /\ Doing("tick", "scan") /\ holder.scan = {}
    /\ holder' = [holder EXCEPT !.pc = "act", !.skip = ToSkip(holder.view),
                                !.launch = ToLaunch(holder.view) \cup holder.retry,
                                !.finish = Outcome(holder.view)]
    /\ UNCHANGED <<runVars, prun, steps, cluster, starter>>

SkipStep ==
    /\ Doing("tick", "act") /\ holder.skip # {}
    /\ FinishStep(Oldest(holder.skip), "skipped")
    /\ holder' = [holder EXCEPT !.skip = @ \ {Oldest(holder.skip)}]
    /\ UNCHANGED <<runVars, prun, cluster, starter>>

Launching == Oldest(holder.launch)

Launch(kinds) ==
    /\ Doing("tick", "act") /\ holder.skip = {} /\ holder.launch # {}
    /\ Kind[Launching] \in kinds

NextLaunch ==
    holder' = [holder EXCEPT !.pc = "act", !.launch = @ \ {Launching}, !.run = 0]

\* An app that is not live fails its step.
LaunchRefused ==
    /\ Launch({"app", "image"})
    /\ \/ OverBudget(Launching)
       \/ Kind[Launching] = "app" /\ ~ live /\ FinishStep(Launching, "failed")
    /\ NextLaunch
    /\ UNCHANGED <<runVars, prun, cluster, starter>>

LaunchApp ==
    /\ Launch({"app"}) /\ live
    /\ CreateJobRun(Launching, 1)
    /\ holder' = [holder EXCEPT !.pc = "apply", !.run = Len(runs) + 1]
    /\ OnlyRunsJobs
    /\ UNCHANGED <<prun, steps, cluster, starter>>

ApplyApp ==
    /\ Doing("tick", "apply")
    /\ ApplyRun(holder.run)
    /\ holder' = [holder EXCEPT !.pc = "mark"]
    /\ OnlyApplies
    /\ UNCHANGED <<prun, steps, cluster, starter>>

MarkApp ==
    /\ Doing("tick", "mark")
    /\ MarkStepRunning(Launching, holder.run, steps[Launching].attempt + 1)
    /\ NextLaunch
    /\ UNCHANGED <<runVars, prun, cluster, starter>>

ApplyAppFails ==
    /\ Doing("tick", "apply")
    /\ ApplyFails(holder.run)
    /\ FinishJobRun(holder.run, "failed")
    /\ holder' = [holder EXCEPT !.pc = "markFailed"]
    /\ OnlyRunsJobs
    /\ UNCHANGED <<prun, steps, cluster, starter>>

MarkAppFailed ==
    /\ Doing("tick", "markFailed")
    /\ FinishStep(Launching, "failed")
    /\ NextLaunch
    /\ UNCHANGED <<runVars, prun, cluster, starter>>

LaunchImage ==
    /\ Launch({"image"})
    /\ MarkStepRunning(Launching, 0, steps[Launching].attempt + 1)
    /\ stepJobs' = [stepJobs EXCEPT ![Launching] = "none"]
    /\ holder' = [holder EXCEPT !.pc = "actApply"]
    /\ UNCHANGED <<runVars, prun, rollouts, workflow, starter>>

\* For a retry the row stays running in the view, applied or not.
Applying == IF holder.pc = "scanApply" THEN Scanning ELSE Launching

Applied ==
    IF holder.pc = "scanApply"
    THEN holder' = [holder EXCEPT !.pc = "scan", !.scan = @ \ {Scanning}]
    ELSE NextLaunch

ApplyImage ==
    /\ holder.pc \in {"scanApply", "actApply"}
    /\ stepJobs' = [stepJobs EXCEPT ![Applying] = "running"]
    /\ Applied
    /\ UNCHANGED <<runVars, prun, steps, rollouts, workflow, starter>>

ApplyImageFails ==
    /\ holder.pc \in {"scanApply", "actApply"} /\ "apply" \in Faults
    /\ FinishStep(Applying, "failed")
    /\ Applied
    /\ UNCHANGED <<runVars, prun, cluster, starter>>

\* An action is marked running before it is done.
LaunchAction ==
    /\ Launch(Actions)
    /\ MarkStepRunning(Launching, 0, steps[Launching].attempt + 1)
    /\ holder' = [holder EXCEPT !.pc = "action"]
    /\ UNCHANGED <<runVars, prun, cluster, starter>>

\* The app is not there or not live, or the cluster refuses.
ActionFails ==
    /\ holder.pc \in {"action", "gate"} /\ Kind[Launching] # "notify"
    /\ FinishStep(Launching, "failed")
    /\ NextLaunch
    /\ UNCHANGED <<runVars, prun, cluster, starter>>

ActionDone ==
    /\ holder.pc = "action" /\ Kind[Launching] # "deploy"
    /\ FinishStep(Launching, "done")
    /\ NextLaunch
    /\ UNCHANGED <<runVars, prun, cluster, starter>>

DeployCreated ==
    /\ holder.pc = "action" /\ Kind[Launching] = "deploy"
    /\ rollouts' = [rollouts EXCEPT ![Launching] = "deploying"]
    /\ holder' = [holder EXCEPT !.pc = "gate"]
    /\ UNCHANGED <<runVars, prun, steps, stepJobs, workflow, starter>>

\* Whatever ended the deploy since, the step is done.
DeployApplied ==
    /\ holder.pc = "gate"
    /\ IF rollouts[Launching] = "deploying" THEN SetStepDetail(Launching)
       ELSE FinishStep(Launching, "done")
    /\ NextLaunch
    /\ UNCHANGED <<runVars, prun, cluster, starter>>

TickEnds ==
    /\ Doing("tick", "act") /\ holder.skip = {} /\ holder.launch = {}
    /\ IF holder.finish = "no" THEN UNCHANGED prun ELSE FinishPipelineRun(holder.finish)
    /\ EndTurn
    /\ UNCHANGED <<runVars, steps, cluster, starter>>

--------------------------------
(***************************************************************************)
(* stopPipelineRun.                                                        *)
(***************************************************************************)

StopWorkflow ==
    /\ Doing("stop", "workflow")
    /\ workflow' = NoWorkflow \/ ("delete" \in Faults /\ UNCHANGED workflow)
    /\ holder' = [holder EXCEPT !.pc = "scan", !.view = States,
                                !.scan = In("running") \cup In("pending")]
    /\ UNCHANGED <<runVars, prun, steps, stepJobs, rollouts, starter>>

Stops(kind) ==
    /\ Doing("stop", "scan") /\ holder.scan # {}
    /\ holder.view[Scanning] = "running" /\ Kind[Scanning] = kind

StopRunJob ==
    /\ Stops("app") /\ steps[Scanning].run # 0
    /\ DeleteJob(steps[Scanning].run)
    /\ holder' = [holder EXCEPT !.pc = "stopRun"]
    /\ OnlyJobs
    /\ UNCHANGED <<prun, steps, cluster, starter>>

StopRun ==
    /\ holder.pc = "stopRun"
    /\ FinishJobRun(steps[Scanning].run, "failed")
    /\ holder' = [holder EXCEPT !.pc = "stopStep"]
    /\ OnlyRunRows
    /\ UNCHANGED <<prun, steps, cluster, starter>>

StopStepJob ==
    /\ Stops("image")
    /\ \/ stepJobs' = [stepJobs EXCEPT ![Scanning] = IF @ = "none" THEN @ ELSE "gone"]
       \/ "delete" \in Faults /\ UNCHANGED stepJobs
    /\ holder' = [holder EXCEPT !.pc = "stopStep"]
    /\ UNCHANGED <<runVars, prun, steps, rollouts, workflow, starter>>

StopStep ==
    /\ \/ holder.pc = "stopStep"
       \/ /\ Doing("stop", "scan") /\ holder.scan # {}
          /\ ~ Stops("image") /\ ~ (Stops("app") /\ steps[Scanning].run # 0)
    /\ FinishStep(Scanning, IF holder.view[Scanning] = "running" THEN "failed" ELSE "skipped")
    /\ holder' = [holder EXCEPT !.pc = "scan", !.scan = @ \ {Scanning}]
    /\ UNCHANGED <<runVars, prun, cluster, starter>>

StopEnds ==
    /\ Doing("stop", "scan") /\ holder.scan = {}
    /\ FinishPipelineRun("stopped")
    /\ EndTurn
    /\ UNCHANGED <<runVars, steps, cluster, starter>>

--------------------------------
(***************************************************************************)
(* pipelineReconcileOne.                                                   *)
(***************************************************************************)

Reconciles(kinds) ==
    /\ Doing("reconcile", "scan") /\ holder.scan # {}
    /\ Kind[Scanning] \in kinds

Reconciled == holder' = [holder EXCEPT !.pc = "scan", !.scan = @ \ {Scanning}]

\* Unlike the tick, it does not look at the retries that are left.
ReconcileApp ==
    /\ Reconciles({"app"})
    /\ LET r == steps[Scanning].run IN
       \/ runs[r].status = "succeeded" /\ FinishStep(Scanning, "done")
       \/ runs[r].status = "failed" /\ FinishStep(Scanning, "failed")
       \/ /\ runs[r].status = "running"
          /\ jobs[r].state \notin {"none", "gone"} \/ "lookup" \in Faults
          /\ UNCHANGED steps
    /\ Reconciled
    /\ UNCHANGED <<runVars, prun, cluster, starter>>

ReconcileOrphan ==
    /\ Reconciles({"app"})
    /\ LET r == steps[Scanning].run IN
       /\ runs[r].status = "running" /\ jobs[r].state \in {"none", "gone"}
       /\ FinishJobRun(r, "failed")
    /\ holder' = [holder EXCEPT !.pc = "orphan"]
    /\ OnlyRunRows
    /\ UNCHANGED <<prun, steps, cluster, starter>>

ReconcileFails ==
    /\ Doing("reconcile", "orphan")
    /\ FinishStep(Scanning, "failed")
    /\ Reconciled
    /\ UNCHANGED <<runVars, prun, cluster, starter>>

ReconcileImage ==
    /\ Reconciles({"image"})
    /\ \/ stepJobs[Scanning] \in {"none", "gone"} /\ FinishStep(Scanning, "failed")
       \/ /\ stepJobs[Scanning] \notin {"none", "gone"} \/ "lookup" \in Faults
          /\ UNCHANGED steps
    /\ Reconciled
    /\ UNCHANGED <<runVars, prun, cluster, starter>>

\* A running action is left to the tick.
ReconcileAction ==
    /\ Reconciles(Actions)
    /\ Reconciled
    /\ UNCHANGED <<runVars, prun, steps, cluster, starter>>

ReconcileEnds ==
    /\ Doing("reconcile", "scan") /\ holder.scan = {}
    /\ mode' = "up"
    /\ EndTurn
    /\ UNCHANGED <<runs, jobs, watchers, starters, todo, live, used, prun, steps,
                   cluster, starter>>

--------------------------------
(***************************************************************************)
(* The cluster: Jobs, the deploys and Argo, none of them this code's.      *)
(***************************************************************************)

StepJobEnds(k) ==
    /\ stepJobs[k] = "running"
    /\ \E state \in Ended : stepJobs' = [stepJobs EXCEPT ![k] = state]
    /\ UNCHANGED <<runVars, prun, steps, rollouts, workflow, starter, holder>>

\* By hand, with the namespace, or a day after its end.
StepJobDeleted(k) ==
    /\ stepJobs[k] \notin {"none", "gone"}
    /\ stepJobs' = [stepJobs EXCEPT ![k] = "gone"]
    /\ UNCHANGED <<runVars, prun, steps, rollouts, workflow, starter, holder>>

RunJobDeleted(r) == SetJob(r, {"pending", "running"}, "gone") /\ UNCHANGED pipeVars

\* What module Deploy promises: a deploy ends.
RolloutEnds(k) ==
    /\ rollouts[k] = "deploying"
    /\ \E status \in {"live", "failed"} : rollouts' = [rollouts EXCEPT ![k] = status]
    /\ UNCHANGED <<runVars, prun, steps, stepJobs, workflow, starter, holder>>

NodesOf(S) == {workflow.nodes[k] : k \in S \cap Compute}

\* Argo retries a node by itself and omits what a failed node is needed for.
NodeEnds(k) ==
    /\ workflow.phase = "Running" /\ workflow.nodes[k] = "running"
    /\ \/ /\ NodesOf(Needs[k]) \subseteq {"done"}
          /\ \E state \in {"done", "failed"} :
                workflow' = [workflow EXCEPT !.nodes[k] = state]
       \/ /\ NodesOf(Needs[k]) \cap {"failed", "skipped"} # {}
          /\ workflow' = [workflow EXCEPT !.nodes[k] = "skipped"]
    /\ UNCHANGED <<runVars, prun, steps, stepJobs, rollouts, starter, holder>>

WorkflowEnds ==
    /\ workflow.phase = "Running" /\ "running" \notin NodesOf(StepIds)
    /\ workflow' = [workflow EXCEPT !.phase =
                       IF NodesOf(StepIds) \subseteq {"done"} THEN "Succeeded" ELSE "Failed"]
    /\ UNCHANGED <<runVars, prun, steps, stepJobs, rollouts, starter, holder>>

\* The Workflow fails as a whole, or somebody deletes it.
WorkflowLost ==
    /\ workflow.phase # "none"
    /\ \/ workflow' = NoWorkflow
       \/ workflow.phase = "Running" /\ workflow' = [workflow EXCEPT !.phase = "Failed"]
    /\ UNCHANGED <<runVars, prun, steps, stepJobs, rollouts, starter, holder>>

--------------------------------
PipelineCrash ==
    /\ Crash
    /\ holder' = Free /\ starter' = NoStarter
    /\ UNCHANGED <<prun, steps, cluster>>

Starting == ApplyWorkflow \/ ApplyWorkflowFails \/ MarkComputeStep \/ MarkedAll

Loop == LoopTicks \/ FirstTick \/ ReconcileBegins \/ NothingToReconcile

HolderStep ==
    \/ HarvestApp \/ HarvestImage \/ RetryImage \/ HarvestAction
    \/ ReadWorkflow \/ HarvestNode
    \/ Decide \/ SkipStep
    \/ LaunchRefused \/ LaunchApp \/ ApplyApp \/ MarkApp \/ ApplyAppFails \/ MarkAppFailed
    \/ LaunchImage \/ ApplyImage \/ ApplyImageFails
    \/ LaunchAction \/ ActionFails \/ ActionDone \/ DeployCreated \/ DeployApplied
    \/ TickEnds
    \/ StopWorkflow \/ StopRunJob \/ StopRun \/ StopStepJob \/ StopStep \/ StopEnds
    \/ ReconcileApp \/ ReconcileOrphan \/ ReconcileFails \/ ReconcileImage
    \/ ReconcileAction \/ ReconcileEnds

ClusterEnds == \E k \in StepIds : StepJobEnds(k) \/ RolloutEnds(k) \/ NodeEnds(k)

Next ==
    \/ RunNext /\ UNCHANGED pipeVars
    \/ PipelineCrash \/ StopBegins \/ Starting \/ Loop \/ HolderStep
    \/ \E e \in Engines : CreatePipelineRun(e)
    \/ ClusterEnds \/ WorkflowEnds \/ WorkflowLost
    \/ \E k \in StepIds : StepJobDeleted(k)
    \/ \E r \in DOMAIN jobs : RunJobDeleted(r)

Spec == Init /\ [][Next]_vars

(***************************************************************************)
(* Startup and whoever holds the mutex or waits for it go on; so do the    *)
(* starting request and the watchers, and the cluster.  One condition for  *)
(* each of the three suffices, since but for the loop each has an end.     *)
(***************************************************************************)
RunIds ==
    1 .. (MaxUserRuns + MaxCrashes
            + MapThenSumSet(LAMBDA k : Retries[k] + 1, {k \in StepIds : Kind[k] = "app"}))

Fairness ==
    /\ WF_vars((Startup /\ UNCHANGED pipeVars) \/ Loop \/ HolderStep)
    /\ WF_vars(\/ Starting
               \/ (\E r \in RunIds : WatcherOf(r)) /\ UNCHANGED pipeVars)
    /\ WF_vars(\/ ClusterEnds \/ WorkflowEnds
               \/ (\E r \in RunIds : JobMoves(r)) /\ UNCHANGED pipeVars)

FairSpec == Spec /\ Fairness

================================
