---------------------------------- MODULE Sweep ---------------------------------
(***************************************************************************)
(* A hyperparameter sweep (internal/server/sweeps.go, store/sweeps.go):    *)
(* the loop that launches the runs of its trials, reads their metrics,     *)
(* stops the bad ones early and finishes the sweep; the request that stops *)
(* it; and what a restarted server does with its trials.  The three hold   *)
(* one mutex from beginning to end, so at most one of them is under way,   *)
(* but the watchers of the runs, the cluster and a crash do not wait for   *)
(* it.  One sweep is modelled; other sweeps and runs share no row with it. *)
(***************************************************************************)
EXTENDS JobRuns

CONSTANTS
    Trials,      \* number of trials
    Parallel,    \* trials that may run at a time
    SweepNodes,  \* node count of a trial's run
    EarlyStop,   \* are trials worse than the median stopped?
    Direction,   \* "min" or "max"
    UserStops    \* do users stop the sweep?

ASSUME SweepAssumption ==
    /\ Trials \in Nat \ {0} /\ Parallel \in Nat \ {0} /\ SweepNodes \in Nat \ {0}
    /\ EarlyStop \in BOOLEAN /\ UserStops \in BOOLEAN
    /\ Direction \in {"min", "max"}

VARIABLES
    sweep,   \* status of the row of table sweeps, or "none"
    trials,  \* its rows of table sweep_trials, oldest first
    holder   \* the goroutine that holds sweepMu

sweepVars == <<sweep, trials, holder>>
vars      == <<runVars, sweepVars>>

TrialIds == 1 .. Trials

SweepStates == {"none", "running", "done", "stopped"}
TrialEnds   == {"done", "failed", "pruned"}
TrialType   == [state : TrialEnds \cup {"pending", "running"}, run : Nat,
                report : Reports \cup {NoReport}]

(***************************************************************************)
(* The holder of the mutex: what it does, where it is, the running trials  *)
(* it has not looked at yet, the live metrics it saw, and what is left of  *)
(* its decision.  run is the run it is launching.                          *)
(***************************************************************************)
HolderType == [op     : {"none", "tick", "stop", "reconcile"},
               pc     : {"idle", "scan", "act", "apply", "mark", "markFailed",
                         "pruneRun", "pruneTrial", "orphan"},
               scan   : SUBSET TrialIds,
               view   : [TrialIds -> Reports \cup {NoReport}],
               launch : SUBSET TrialIds,
               prune  : SUBSET TrialIds,
               finish : BOOLEAN,
               run    : Nat]

NoViews == [k \in TrialIds |-> NoReport]

Free == [op |-> "none", pc |-> "idle", scan |-> {}, view |-> NoViews,
         launch |-> {}, prune |-> {}, finish |-> FALSE, run |-> 0]

NewTrial == [state |-> "pending", run |-> 0, report |-> NoReport]

In(state)  == {k \in TrialIds : trials[k].state = state}
RunOf(k)   == trials[k].run

Init ==
    /\ RunInit
    /\ sweep = "none" /\ trials = [k \in TrialIds |-> NewTrial]
    /\ holder = Free

--------------------------------
(***************************************************************************)
(* Statements of the store.  Each names the state it expects.              *)
(***************************************************************************)

\* Mutant: the trial keeps its state.
MarkTrialRun(k, r) ==
    trials' = IF trials[k].state = "pending"
              THEN [trials EXCEPT ![k].run = r] ELSE trials

MarkTrialLaunched(k, r) ==
    trials' = IF trials[k].state = "pending"
              THEN [trials EXCEPT ![k].state = "running", ![k].run = r]
              ELSE trials

FinishTrial(k, state, report) ==
    trials' = IF \/ trials[k].state = "running"
                 \/ trials[k].state = "pending" /\ state = "failed"
              THEN [trials EXCEPT ![k].state = state, ![k].report = report]
              ELSE trials

FinishSweep(status) ==
    sweep' = IF sweep \in {"done", "stopped"} THEN sweep ELSE status

--------------------------------
(***************************************************************************)
(* decideSweep.                                                            *)
(***************************************************************************)

\* Trials that must be done before one is compared with them.
Enough == 3

Measured == {k \in In("done") : trials[k].report.found}

\* sorted[i - 1] of medianOf: the i-th smallest of the values of D.
Ranked(D, i) ==
    CHOOSE v \in {trials[k].report.value : k \in D} :
        /\ Cardinality({k \in D : trials[k].report.value < v}) < i
        /\ i <= Cardinality({k \in D : trials[k].report.value <= v})

TwiceMedian(D) ==
    LET n == Cardinality(D) IN
    Ranked(D, (n + 1) \div 2) + Ranked(D, (n \div 2) + 1)

\* A trial is compared only once it is as far as the shortest that ended.
Worse(report, D) ==
    /\ report.found
    /\ \E k \in D : report.step >= trials[k].report.step
    /\ CASE Direction = "min" -> 2 * report.value > TwiceMedian(D)
         [] Direction = "max" -> 2 * report.value < TwiceMedian(D)

\* The first n of a set of trials, oldest first.
First(S, n) == {k \in S : Cardinality({j \in S : j < k}) < n}

ToLaunch ==
    IF Cardinality(In("running")) < Parallel
    THEN First(In("pending"), Parallel - Cardinality(In("running"))) ELSE {}

\* Mutant: a trial that beats none of those that ended is stopped.
ToPruneUnbeaten(view) ==
    {k \in In("running") : /\ EarlyStop /\ Measured # {} /\ view[k].found
                           /\ \A j \in Measured :
                                 IF Direction = "min"
                                 THEN view[k].value >= trials[j].report.value
                                 ELSE view[k].value <= trials[j].report.value}

ToPrune(view) ==
    {k \in In("running") : /\ EarlyStop
                           /\ Cardinality(Measured) >= Enough
                           /\ Worse(view[k], Measured)}

Drained == In("pending") = {} /\ In("running") = {}

--------------------------------
(***************************************************************************)
(* Taking the mutex.                                                       *)
(***************************************************************************)

Take(op, pc, scan, prune) ==
    /\ holder = Free /\ sweep = "running"
    /\ holder' = [Free EXCEPT !.op = op, !.pc = pc, !.scan = scan, !.prune = prune]
    /\ UNCHANGED <<runVars, sweep, trials>>

\* A tick that would find nothing to do is not a step.
WorkForTick ==
    \/ EarlyStop /\ In("running") # {}
    \/ \E k \in In("running") : runs[RunOf(k)].status # "running"
    \/ ToLaunch # {} \/ Drained

TickBegins ==
    /\ mode = "up" /\ WorkForTick
    /\ Take("tick", "scan", In("running"), {})

\* Mutant: a stop leaves the running trials alone.
StopBeginsIdle == UserStops /\ Alive /\ Take("stop", "act", {}, {})

\* The request may arrive before the trials have been reconciled.
StopBegins == UserStops /\ Alive /\ Take("stop", "act", {}, In("running"))

ReconcileBegins == mode = "resumed" /\ Take("reconcile", "scan", In("running"), {})

NothingToReconcile ==
    /\ mode = "resumed" /\ holder = Free /\ sweep # "running"
    /\ mode' = "up"
    /\ UNCHANGED <<runs, jobs, watchers, starters, todo, live, used, sweepVars>>

Doing(op, pc) == holder.op = op /\ holder.pc = pc

\* The run of k has ended: its metric is read and the trial closed.
Harvest(k) ==
    \E o \in Observed(RunOf(k)) :
        FinishTrial(k, IF runs[RunOf(k)].status = "failed" THEN "failed" ELSE "done", o)

--------------------------------
(***************************************************************************)
(* sweepTickOne.                                                           *)
(***************************************************************************)

ScanTrial ==
    /\ Doing("tick", "scan") /\ holder.scan # {}
    /\ LET k == Oldest(holder.scan) IN
       \/ /\ runs[RunOf(k)].status = "running"
          /\ \E o \in IF EarlyStop THEN Observed(RunOf(k)) ELSE {NoReport} :
                holder' = [holder EXCEPT !.scan = @ \ {k}, !.view[k] = o]
          /\ UNCHANGED trials
       \/ /\ runs[RunOf(k)].status # "running"
          /\ Harvest(k)
          /\ holder' = [holder EXCEPT !.scan = @ \ {k}]
    /\ UNCHANGED <<runVars, sweep>>

Decide ==
    /\ Doing("tick", "scan") /\ holder.scan = {}
    /\ holder' = [holder EXCEPT !.pc = "act", !.launch = ToLaunch,
                                !.prune = ToPrune(holder.view), !.finish = Drained]
    /\ UNCHANGED <<runVars, sweep, trials>>

Launching == Oldest(holder.launch)

NextLaunch ==
    holder' = [holder EXCEPT !.pc = "act", !.launch = @ \ {Launching}, !.run = 0]

\* Mutant: a trial without a live deployment is tried again for ever.
LaunchPostponed ==
    /\ Doing("tick", "act") /\ holder.launch # {}
    /\ ~ live \/ "budget" \in Faults
    /\ holder' = [holder EXCEPT !.launch = @ \ {Launching}]
    /\ UNCHANGED <<runVars, sweep, trials>>

\* startRun's checks: over budget the trial stays pending; without a live
\* deployment it has failed.
LaunchRefused ==
    /\ Doing("tick", "act") /\ holder.launch # {}
    /\ \/ /\ "budget" \in Faults
          /\ UNCHANGED trials
       \/ /\ ~ live
          /\ FinishTrial(Launching, "failed", NoReport)
    /\ holder' = [holder EXCEPT !.launch = @ \ {Launching}]
    /\ UNCHANGED <<runVars, sweep>>

LaunchCreates ==
    /\ Doing("tick", "act") /\ holder.launch # {} /\ live
    /\ CreateJobRun(Launching, SweepNodes)
    /\ holder' = [holder EXCEPT !.pc = "apply", !.run = Len(runs) + 1]
    /\ UNCHANGED <<watchers, starters, todo, mode, live, used, sweep, trials>>

LaunchApplies ==
    /\ Doing("tick", "apply")
    /\ ApplyRun(holder.run)
    /\ holder' = [holder EXCEPT !.pc = "mark"]
    /\ UNCHANGED <<runs, starters, todo, mode, live, used, sweep, trials>>

LaunchMarks ==
    /\ Doing("tick", "mark")
    /\ MarkTrialLaunched(Launching, holder.run)
    /\ NextLaunch
    /\ UNCHANGED <<runVars, sweep>>

LaunchFails ==
    /\ Doing("tick", "apply")
    /\ ApplyFails(holder.run)
    /\ FinishJobRun(holder.run, "failed")
    /\ holder' = [holder EXCEPT !.pc = "markFailed"]
    /\ UNCHANGED <<watchers, starters, todo, mode, live, used, sweep, trials>>

LaunchMarksFailed ==
    /\ Doing("tick", "markFailed")
    /\ FinishTrial(Launching, "failed", NoReport)
    /\ NextLaunch
    /\ UNCHANGED <<runVars, sweep>>

--------------------------------
(***************************************************************************)
(* sweepPruneTrial, for a tick and for a stop, and the end of both.        *)
(***************************************************************************)

Pruning == Oldest(holder.prune)

PruneDeletes ==
    /\ holder.pc = "act" /\ holder.launch = {} /\ holder.prune # {}
    /\ DeleteJob(RunOf(Pruning))
    /\ holder' = [holder EXCEPT !.pc = "pruneRun"]
    /\ UNCHANGED <<runs, watchers, starters, todo, mode, live, used, sweep, trials>>

PruneFailsRun ==
    /\ holder.pc = "pruneRun"
    /\ FinishJobRun(RunOf(Pruning), "failed")
    /\ holder' = [holder EXCEPT !.pc = "pruneTrial"]
    /\ UNCHANGED <<jobs, watchers, starters, todo, mode, live, used, sweep, trials>>

PruneEnds ==
    /\ holder.pc = "pruneTrial"
    /\ FinishTrial(Pruning, "pruned", holder.view[Pruning])
    /\ holder' = [holder EXCEPT !.pc = "act", !.prune = @ \ {Pruning}]
    /\ UNCHANGED <<runVars, sweep>>

TickEnds ==
    /\ Doing("tick", "act") /\ holder.launch = {} /\ holder.prune = {}
    /\ IF holder.finish THEN FinishSweep("done") ELSE UNCHANGED sweep
    /\ holder' = Free
    /\ UNCHANGED <<runVars, trials>>

StopEnds ==
    /\ Doing("stop", "act") /\ holder.prune = {}
    /\ FinishSweep("stopped")
    /\ holder' = Free
    /\ UNCHANGED <<runVars, trials>>

--------------------------------
(***************************************************************************)
(* sweepReconcileOne.                                                      *)
(***************************************************************************)

Reconciled(k) == holder' = [holder EXCEPT !.pc = "scan", !.scan = @ \ {k}]

\* A trial whose run has ended is harvested; one whose Job is there, or
\* could not be looked up, is left to its watcher.
ReconcileTrial ==
    /\ Doing("reconcile", "scan") /\ holder.scan # {}
    /\ LET k == Oldest(holder.scan) IN
       /\ \/ /\ runs[RunOf(k)].status # "running"
             /\ Harvest(k)
          \/ /\ runs[RunOf(k)].status = "running"
             /\ \/ jobs[RunOf(k)].state \notin {"none", "gone"}
                \/ "lookup" \in Faults
             /\ UNCHANGED trials
       /\ Reconciled(k)
    /\ UNCHANGED <<runVars, sweep>>

\* The Job is gone: the run has failed, and then the trial.
ReconcileOrphan ==
    /\ Doing("reconcile", "scan") /\ holder.scan # {}
    /\ LET k == Oldest(holder.scan) IN
       /\ runs[RunOf(k)].status = "running"
       /\ jobs[RunOf(k)].state \in {"none", "gone"}
       /\ FinishJobRun(RunOf(k), "failed")
    /\ holder' = [holder EXCEPT !.pc = "orphan"]
    /\ UNCHANGED <<jobs, watchers, starters, todo, mode, live, used, sweep, trials>>

ReconcileFails ==
    /\ Doing("reconcile", "orphan")
    /\ FinishTrial(Oldest(holder.scan), "failed", NoReport)
    /\ Reconciled(Oldest(holder.scan))
    /\ UNCHANGED <<runVars, sweep>>

ReconcileEnds ==
    /\ Doing("reconcile", "scan") /\ holder.scan = {}
    /\ holder' = Free
    /\ mode' = "up"
    /\ UNCHANGED <<runs, jobs, watchers, starters, todo, live, used, sweep, trials>>

--------------------------------
CreateSweep ==
    /\ Alive /\ sweep = "none" /\ live
    /\ sweep' = "running"
    /\ UNCHANGED <<runVars, trials, holder>>

SweepCrash == Crash /\ holder' = Free /\ UNCHANGED <<sweep, trials>>

HolderStep ==
    \/ ScanTrial \/ Decide
    \/ LaunchRefused \/ LaunchCreates \/ LaunchApplies \/ LaunchMarks
    \/ LaunchFails \/ LaunchMarksFailed
    \/ PruneDeletes \/ PruneFailsRun \/ PruneEnds
    \/ TickEnds \/ StopEnds
    \/ ReconcileTrial \/ ReconcileOrphan \/ ReconcileFails \/ ReconcileEnds

Loop == TickBegins \/ ReconcileBegins \/ NothingToReconcile

Next ==
    \/ RunNext /\ UNCHANGED sweepVars
    \/ SweepCrash \/ CreateSweep \/ StopBegins \/ Loop \/ HolderStep

Spec == Init /\ [][Next]_vars

(***************************************************************************)
(* Startup, the loop and whoever holds the mutex go on; so do the requests *)
(* and the watchers, and the Jobs.  One condition for each of the three    *)
(* suffices, since but for the loop each of them has an end.  Nothing is   *)
(* assumed of users or of deploys.                                         *)
(***************************************************************************)
RunIds == 1 .. (MaxUserRuns + Trials + MaxCrashes)

Fairness ==
    /\ WF_vars((Startup /\ UNCHANGED sweepVars) \/ Loop \/ HolderStep)
    /\ WF_vars((\E r \in RunIds : StarterStep(r) \/ WatcherOf(r)) /\ UNCHANGED sweepVars)
    /\ WF_vars((\E r \in RunIds : JobMoves(r)) /\ UNCHANGED sweepVars)

FairSpec == Spec /\ Fairness

================================
