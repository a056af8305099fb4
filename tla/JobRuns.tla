--------------------------------- MODULE JobRuns --------------------------------
(***************************************************************************)
(* The runs of one job app (internal/server/runs.go, store/jobruns.go):    *)
(* startRun, the goroutine that watches a run's Job, the guard that tears  *)
(* down a multi-node Job whose pods do not all start, and the watchers a   *)
(* restarted server attaches again.  Sweep composes it with the loop that  *)
(* starts runs by itself.                                                  *)
(*                                                                         *)
(* runs survives a crash, jobs is the cluster's, watchers and starters are *)
(* goroutines.  A Job runs until it ends: one that outlives the 24 hours a *)
(* watcher waits is the fault "timeout".                                   *)
(***************************************************************************)
EXTENDS Naturals, Sequences, FiniteSets

CONSTANTS
    MaxUserRuns,  \* bound: runs users start
    MaxCrashes,   \* bound: server crashes
    MaxDeploys,   \* bound: deploys of the app while runs are started
    UserNodes,    \* the node counts users ask for
    GangTimeout,  \* is train_gang_timeout_minutes above 0?
    Reports,      \* the observations a Job may report: [found, value, step]
    Faults,       \* the calls that may fail, a subset of FaultKinds
    ServeEarly    \* may a request arrive before the list of running runs is read?

\* apply, delete: of a run's Job.  answer: it was applied, and the answer is lost.
\* lookup: JobExists.  read: a poll of WaitJob.
\* metrics: reading a trial's metric.  budget: the GPU budget is spent.
\* timeout: a Job that runs longer than runTimeout.
FaultKinds == {"apply", "answer", "delete", "lookup", "read", "metrics", "budget", "timeout"}

NoReport == [found |-> FALSE, value |-> 0, step |-> 0]

ASSUME RunAssumption ==
    /\ MaxUserRuns \in Nat /\ MaxCrashes \in Nat /\ MaxDeploys \in Nat
    /\ UserNodes \subseteq Nat \ {0}
    /\ GangTimeout \in BOOLEAN /\ ServeEarly \in BOOLEAN
    /\ Faults \subseteq FaultKinds
    /\ Reports \subseteq [found : {TRUE}, value : Nat, step : Nat]

VARIABLES
    runs,      \* the rows of table job_runs, oldest first
    jobs,      \* the Job of each run
    watchers,  \* the goroutines of watchRun
    starters,  \* runs whose request is between CreateJobRun and Apply
    todo,      \* what resumeRunWatchers has still to look at
    mode,      \* the server process
    live,      \* is the app's latest deployment live?
    used       \* how much of each bound is spent

runVars == <<runs, jobs, watchers, starters, todo, mode, live, used>>

Ended    == {"succeeded", "failed"}
\* owner: 0 for a run of a user, else the trial or the step it is started for.
RowType  == [owner : Nat, nodes : Nat \ {0}, status : Ended \cup {"running"}]
JobType  == [state : Ended \cup {"none", "pending", "running", "gone"},
             report : Reports \cup {NoReport}]
Modes    == {"up", "down", "starting", "resuming", "resumed"}

\* By is what started the goroutine: a run can have one of each.
WatcherType == [run : Nat, by : {"start", "resume"}, ok : BOOLEAN,
                pc : {"gang", "gangDelete", "gangRecord", "wait", "record"}]

NewRun(owner, nodes) == [owner |-> owner, nodes |-> nodes, status |-> "running"]
NoJob == [state |-> "none", report |-> NoReport]

Running == {r \in DOMAIN runs : runs[r].status = "running"}

Alive == mode # "down"

Spend(what) == used' = [used EXCEPT ![what] = @ + 1]

RunInit ==
    /\ runs = <<>> /\ jobs = <<>>
    /\ watchers = {} /\ starters = {} /\ todo = {}
    /\ mode = "up" /\ live = TRUE
    /\ used = [crash |-> 0, user |-> 0, deploy |-> 0]

--------------------------------
(***************************************************************************)
(* What startRun, the watchers, sweeps and pipelines do to a run.          *)
(***************************************************************************)

CreateJobRun(owner, nodes) ==
    /\ runs' = Append(runs, NewRun(owner, nodes))
    /\ jobs' = Append(jobs, NoJob)

\* The UPDATE names the run and nothing else: an ended run is overwritten.
FinishJobRun(r, status) == runs' = [runs EXCEPT ![r].status = status]

Watcher(r, by) ==
    [run |-> r, by |-> by, ok |-> FALSE,
     pc |-> IF runs[r].nodes > 1 /\ GangTimeout THEN "gang" ELSE "wait"]

\* Mutant: a Job that has not started its pods yet is left alone.
AttachStarted(r, by) ==
    watchers' = IF jobs[r].state = "pending" THEN watchers
                ELSE watchers \cup {Watcher(r, by)}

\* go watchRun.
Attach(r, by) == watchers' = watchers \cup {Watcher(r, by)}

\* kube.Apply of the run's Job, then its watcher.
ApplyRun(r) ==
    /\ jobs' = [jobs EXCEPT ![r].state = "pending"]
    /\ Attach(r, "start")

\* It answers with an error, the Job applied or not.
ApplyFails(r) ==
    \/ "apply" \in Faults /\ UNCHANGED jobs
    \/ "answer" \in Faults /\ jobs' = [jobs EXCEPT ![r].state = "pending"]

\* A deletion that fails is logged and the caller goes on.
DeleteJob(r) ==
    \/ jobs' = IF jobs[r].state = "none" THEN jobs
               ELSE [jobs EXCEPT ![r].state = "gone"]
    \/ "delete" \in Faults /\ UNCHANGED jobs

\* trialMetric: MLflow, or the logs of the pods while there are any.
Observed(r) ==
    {o \in {jobs[r].report, NoReport} :
        o = NoReport => \/ jobs[r].report = NoReport
                        \/ jobs[r].state = "gone" \/ "metrics" \in Faults}

--------------------------------
(***************************************************************************)
(* Requests.                                                               *)
(***************************************************************************)

\* handleCreateRun up to the row.  A budget that is spent is a refusal.
CreateRun(nodes) ==
    /\ mode \in {"resumed", "up"} \/ (Alive /\ ServeEarly)
    /\ live /\ used.user < MaxUserRuns
    /\ CreateJobRun(0, nodes)
    /\ starters' = starters \cup {Len(runs) + 1}
    /\ Spend("user")
    /\ UNCHANGED <<watchers, todo, mode, live>>

StartRun(r) ==
    /\ r \in starters
    /\ ApplyRun(r)
    /\ starters' = starters \ {r}
    /\ UNCHANGED <<runs, todo, mode, live, used>>

\* Mutant: the row is left as it was inserted.
StartRunFailsSilently(r) ==
    /\ r \in starters
    /\ ApplyFails(r)
    /\ starters' = starters \ {r}
    /\ UNCHANGED <<runs, watchers, todo, mode, live, used>>

StartRunFails(r) ==
    /\ r \in starters
    /\ ApplyFails(r)
    /\ FinishJobRun(r, "failed")
    /\ starters' = starters \ {r}
    /\ UNCHANGED <<watchers, todo, mode, live, used>>

\* A deploy of the app: until it is live, its row is the latest.
DeployBegins ==
    /\ live /\ used.deploy < MaxDeploys
    /\ live' = FALSE
    /\ Spend("deploy")
    /\ UNCHANGED <<runs, jobs, watchers, starters, todo, mode>>

DeployEnds ==
    /\ ~ live
    /\ live' = TRUE
    /\ UNCHANGED <<runs, jobs, watchers, starters, todo, mode, used>>

--------------------------------
(***************************************************************************)
(* watchRun.                                                               *)
(***************************************************************************)

Watch(w, pc, ok) ==
    watchers' = (watchers \ {w}) \cup {[w EXCEPT !.pc = pc, !.ok = ok]}

\* RunningJobPods counts the pods in phase Running, now.
GangStarts(w) ==
    /\ w.pc = "gang" /\ jobs[w.run].state = "running"
    /\ Watch(w, "wait", FALSE)
    /\ UNCHANGED <<runs, jobs, starters, todo, mode, live, used>>

\* Mutant: the run is failed and its Job stays.
GangGivesUp(w) ==
    /\ w.pc = "gang"
    /\ Watch(w, "gangRecord", FALSE)
    /\ UNCHANGED <<runs, jobs, starters, todo, mode, live, used>>

\* The window closes: no poll saw all pods running.  They may have run and
\* ended between two polls; the Job's own status is not looked at.
GangTimesOut(w) ==
    /\ w.pc = "gang"
    /\ Watch(w, "gangDelete", FALSE)
    /\ UNCHANGED <<runs, jobs, starters, todo, mode, live, used>>

GangDelete(w) ==
    /\ w.pc = "gangDelete"
    /\ DeleteJob(w.run)
    /\ Watch(w, "gangRecord", FALSE)
    /\ UNCHANGED <<runs, starters, todo, mode, live, used>>

\* WaitJob returns: the Job has ended, is not there, or could not be read.
WaitReturns(w) ==
    /\ w.pc = "wait"
    /\ \/ /\ jobs[w.run].state \in Ended \cup {"none", "gone"}
          /\ Watch(w, "record", jobs[w.run].state = "succeeded")
       \/ /\ Faults \cap {"read", "timeout"} # {}
          /\ Watch(w, "record", FALSE)
    /\ UNCHANGED <<runs, jobs, starters, todo, mode, live, used>>

\* recordRunOutcome, after its call for the exit code; and gangGuard's end.
Record(w) ==
    /\ w.pc \in {"record", "gangRecord"}
    /\ FinishJobRun(w.run, IF w.ok THEN "succeeded" ELSE "failed")
    /\ watchers' = watchers \ {w}
    /\ UNCHANGED <<jobs, starters, todo, mode, live, used>>

WatcherStep(w) ==
    \/ GangStarts(w) \/ GangTimesOut(w) \/ GangDelete(w)
    \/ WaitReturns(w) \/ Record(w)

--------------------------------
(***************************************************************************)
(* Startup.  Crash is the part of a crash this module's state sees.        *)
(***************************************************************************)

Crash ==
    /\ Alive /\ used.crash < MaxCrashes
    /\ mode' = "down"
    /\ watchers' = {} /\ starters' = {} /\ todo' = {}
    /\ Spend("crash")
    /\ UNCHANGED <<runs, jobs, live>>

Restart ==
    /\ mode = "down"
    /\ mode' = "starting"
    /\ UNCHANGED <<runs, jobs, watchers, starters, todo, live, used>>

\* Mutant: every run is looked at again.
ListAll ==
    /\ mode = "starting"
    /\ mode' = "resuming" /\ todo' = DOMAIN runs
    /\ UNCHANGED <<runs, jobs, watchers, starters, live, used>>

ListRunning ==
    /\ mode = "starting"
    /\ mode' = "resuming" /\ todo' = Running
    /\ UNCHANGED <<runs, jobs, watchers, starters, live, used>>

Oldest(S) == CHOOSE n \in S : \A m \in S : n <= m

\* One turn of the loop of resumeRunWatchers, oldest run first.
ResumeRun ==
    /\ mode = "resuming" /\ todo # {}
    /\ LET r == Oldest(todo) IN
       /\ todo' = todo \ {r}
       /\ \/ /\ jobs[r].state \in {"none", "gone"}
             /\ FinishJobRun(r, "failed")
             /\ UNCHANGED watchers
          \/ /\ jobs[r].state \in Ended
             /\ FinishJobRun(r, jobs[r].state)
             /\ UNCHANGED watchers
          \/ /\ \/ jobs[r].state \in {"pending", "running"}
                \/ jobs[r].state \in Ended /\ "read" \in Faults
             /\ Attach(r, "resume")
             /\ UNCHANGED runs
          \/ "lookup" \in Faults /\ UNCHANGED <<runs, watchers>>
    /\ UNCHANGED <<jobs, starters, mode, live, used>>

Resumed ==
    /\ mode = "resuming" /\ todo = {}
    /\ mode' = "resumed"
    /\ UNCHANGED <<runs, jobs, watchers, starters, todo, live, used>>

Startup == Restart \/ ListRunning \/ ResumeRun \/ Resumed

--------------------------------
(***************************************************************************)
(* The cluster.                                                            *)
(***************************************************************************)

SetJob(r, from, to) ==
    /\ jobs[r].state \in from
    /\ jobs' = [jobs EXCEPT ![r].state = to]
    /\ UNCHANGED <<runs, watchers, starters, todo, mode, live, used>>

JobStarts(r)   == SetJob(r, {"pending"}, "running")
JobSucceeds(r) == SetJob(r, {"running"}, "succeeded")
JobFails(r)    == SetJob(r, {"pending", "running"}, "failed")

JobEnds(r) == JobSucceeds(r) \/ JobFails(r)

\* The TTL of an ended Job is 24 hours: a server that is up has seen it.
JobExpires(r) == mode = "down" /\ SetJob(r, Ended, "gone")

\* In any order: a line without a step is one of step 0.
JobReports(r, o) ==
    /\ jobs[r].state = "running"
    /\ jobs' = [jobs EXCEPT ![r].report = o]
    /\ UNCHANGED <<runs, watchers, starters, todo, mode, live, used>>

Cluster ==
    \E r \in DOMAIN jobs :
        \/ JobStarts(r) \/ JobEnds(r) \/ JobExpires(r)
        \/ \E o \in Reports : JobReports(r, o)

Requests ==
    \/ \E n \in UserNodes : CreateRun(n)
    \/ \E r \in starters : StartRun(r) \/ StartRunFails(r)
    \/ DeployBegins \/ DeployEnds

RunNext ==
    \/ Requests \/ Startup \/ Cluster
    \/ \E w \in watchers : WatcherStep(w)

RunSpec == RunInit /\ [][RunNext \/ Crash]_runVars

(***************************************************************************)
(* Every goroutine that can run does, and each of its waits has a timeout; *)
(* a Job ends, or is the fault "timeout"; a server that went down is       *)
(* restarted (its Deployment's controller) and its startup runs.           *)
(***************************************************************************)
StarterStep(r) == r \in starters /\ (StartRun(r) \/ StartRunFails(r))
WatcherOf(r)   == \E w \in watchers : w.run = r /\ WatcherStep(w)
JobMoves(r)    == r \in DOMAIN jobs /\ (JobStarts(r) \/ JobEnds(r))

RunFairness(RunIds) ==
    /\ WF_runVars(Startup)
    /\ \A r \in RunIds : WF_runVars(StarterStep(r)) /\ WF_runVars(WatcherOf(r))
                          /\ WF_runVars(JobMoves(r))

FairRunSpec == RunSpec /\ RunFairness(1 .. MaxUserRuns)

================================
