--------------------------- MODULE PipelineProperties --------------------------
(* What makes a pipeline run correct.  The README says in which            *)
(* environment each property is checked.                                   *)
EXTENDS Pipeline, RunProperties

\* Every variable has the shape its comment gives, and the run of a step is a
\* row (store/pipelines.go, pipelines.go).
TypeOK ==
    /\ RunTypeOK
    /\ prun \in RunRow /\ steps \in [StepIds -> StepRow]
    /\ \A k \in StepIds : steps[k].run \in DOMAIN runs \cup {0}
    /\ stepJobs \in [StepIds -> Ended \cup {"none", "running", "gone"}]
    /\ rollouts \in [StepIds -> {"none", "deploying", "live", "failed"}]
    /\ workflow \in WorkflowType /\ starter \in StarterType /\ holder \in HolderType

RunsOf(k) == {r \in DOMAIN runs : runs[r].owner = k}

Touched(k) ==
    \/ RunsOf(k) # {} \/ stepJobs[k] # "none" \/ rollouts[k] # "none"
    \/ steps[k].attempt > 0

\* Nothing is done for a step before the steps it needs are done, whichever
\* engine runs them and whatever a restart forgot of it (allNeedsDone,
\* allRowNeedsDone): no run, Job, deploy or other action.
NeedsBeforeWork ==
    \A k \in StepIds : Touched(k) => \A n \in Needs[k] : steps[n].state = "done"

ActiveRuns(k) == {r \in RunsOf(k) : jobs[r].state \in {"pending", "running"}}

\* Each launch of an app step is an attempt, attempts are bounded by the
\* retries (docs/ml/pipelines.md: N+1 in total), and a retry waits for the
\* end of the Job before it: but for one launch that each crash hides
\* between startRun and MarkStepRunning.
AttemptsInTurn ==
    \A k \in StepIds :
        /\ steps[k].attempt <= Retries[k] + 1
        /\ Cardinality(RunsOf(k)) <= Retries[k] + 1 + used.crash
        /\ Cardinality(ActiveRuns(k)) <= 1 + used.crash

\* A step that is done did it: its run, its Job or its node succeeded, though
\* rows, Jobs and runs are read at different times (pipelineHarvestStep).
DoneStepsDidIt ==
    \A k \in In("done") :
        CASE Kind[k] = "app" /\ Native -> runs[steps[k].run].status = "succeeded"
          [] Kind[k] = "image" /\ Native -> stepJobs[k] \in {"succeeded", "gone"}
          [] k \in Compute /\ ~ Native -> workflow.nodes[k] = "done" \/ workflow.phase = "none"
          [] OTHER -> steps[k].attempt > 0

\* An ended run leaves no step to start and, under the native engine, nothing
\* of it in the cluster, but for the Jobs a crash hid (stopPipelineRun).
EndedRunIsQuiet ==
    prun.status \in RunEnds /\ Native =>
        /\ In("pending") \cup In("running") = {}
        /\ \A k \in StepIds : stepJobs[k] # "running"
        /\ Cardinality(UNION {ActiveRuns(k) : k \in StepIds}) <= used.crash

\* Steps start when what they need did its work, and end with their run
\* (pipelineTickOne, pipelineHarvestStep, stopPipelineRun).
StepsInOrder == NeedsBeforeWork /\ DoneStepsDidIt /\ EndedRunIsQuiet

\* The rows keep the promise of PipelinePromise.
Promise == INSTANCE PipelinePromise WITH
    run <- prun.status, argo <- ~ Native, state <- States, stopping <- holder.op = "stop"
PromiseSpec == Promise!Spec

\* The steps of a running Argo run that will never start.
Doomed ==
    {d \in In("pending") : /\ prun = [status |-> "running", engine |-> "argo"]
                           /\ \E k \in Upstream[d] : steps[k].state = "failed"}

\* A failed step skips every step downstream of it (docs/ml/pipelines.md),
\* also under the Argo engine, whose tick says it finishes a run by "the
\* same rule" as the native one (pipelineTickArgoRun).
ArgoFailFast == Doomed # {} ~> Doomed = {}

\* What a crash leaves that no tick looks for: an action interrupted after
\* MarkStepRunning, or steps that need one a half-done stop has skipped.
Interrupted(k) ==
    \/ /\ Kind[k] \in Actions /\ steps[k].state = "running" /\ ~ steps[k].waits
    \/ /\ steps[k].state = "skipped"
       /\ \A n \in Upstream[k] : steps[n].state # "failed"

\* A native run ends, over a restart and failing calls, unless the restart
\* interrupted one of its actions or a stop (startPipelineLoop).
NativeRunEnds ==
    (prun.status = "running" /\ Native)
        ~> \/ prun.status # "running"
           \/ used.crash > 0 /\ \E k \in StepIds : Interrupted(k)

================================
