----------------------------- MODULE SweepProperties ----------------------------
(* What makes runs and sweeps correct.  The README says in which            *)
(* environment each property is checked.                                   *)
EXTENDS Sweep, RunProperties

\* Every variable has the shape its comment gives; a watcher's, a starter's
\* and a trial's run is a row (runs.go, sweeps.go).
TypeOK ==
    /\ RunTypeOK
    /\ sweep \in SweepStates
    /\ trials \in [TrialIds -> TrialType]
    /\ \A k \in TrialIds : RunOf(k) \in DOMAIN runs \cup {0}
    /\ holder \in HolderType
    /\ holder.pc \in {"apply", "mark"} => holder.run \in DOMAIN runs

\* A closed trial tells what its run's row tells, whatever wrote the row:
\* the watcher, a resumed watcher, startup, or the sweep (FinishTrial).
HarvestMatchesRun ==
    \A k \in TrialIds :
        /\ trials[k].state = "done" => runs[RunOf(k)].status = "succeeded"
        /\ trials[k].state = "failed" /\ RunOf(k) # 0 => runs[RunOf(k)].status = "failed"

Active == {r \in DOMAIN jobs : jobs[r].state \in {"pending", "running"}}

\* The sweep's Jobs in the cluster, not just its rows, are at most Parallel,
\* and no trial is run twice: but for one run that each crash hides between
\* an Apply and MarkTrialLaunched (sweepTickOne, sweepLaunchTrial).
OneRunPerTrial ==
    LET launched == {r \in DOMAIN runs : runs[r].owner # 0}
    IN  /\ Cardinality(launched \cap Active) <= Parallel + used.crash
        /\ Cardinality(launched) <= Cardinality({runs[r].owner : r \in launched}) + used.crash

\* A trial is one run, and what the two say of its end is the same (sweepLaunchTrial,
\* sweepHarvest).
TrialsMatchRuns == HarvestMatchesRun /\ OneRunPerTrial

\* An ended sweep leaves no trial running and no Job of a trial behind
\* (stopSweep, FinishSweep): the loop would never look at it again.
EndedSweepIsQuiet ==
    sweep \in {"done", "stopped"} =>
        \A k \in TrialIds : trials[k].state # "running" /\ RunOf(k) \notin Active

\* Each trial is one run and ends as it did, and an ended sweep leaves nothing of its own
\* (sweepTickOne, stopSweep).
TrialsEndAsRuns == TrialsMatchRuns /\ EndedSweepIsQuiet

Better(v, w) == IF Direction = "min" THEN v < w ELSE v > w

\* Early stopping never stops the best: a trial that was stopped on its
\* metric is worse than one that was left to finish (decideSweep, trialMetric).
PrunedNotBest ==
    \A k \in In("pruned") :
        trials[k].report.found =>
            \E j \in In("done") : /\ trials[j].report.found
                                  /\ Better(trials[j].report.value, trials[k].report.value)

\* The rows of a sweep keep the promise of SweepPromise.
Promise == INSTANCE SweepPromise WITH state <- [k \in TrialIds |-> trials[k].state]
PromiseSpec == Promise!Spec

\* A sweep ends, over crashes and failing runs (startSweepLoop).
SweepEnds == sweep = "running" ~> sweep \in {"done", "stopped"}

================================
