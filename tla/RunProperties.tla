------------------------------ MODULE RunProperties -----------------------------
(* What makes the runs of a job app correct, whoever started them.         *)
EXTENDS JobRuns

\* Every variable has the shape its comment gives, and a goroutine's run is
\* a row (runs.go, store/jobruns.go).
RunTypeOK ==
    /\ runs \in Seq(RowType) /\ jobs \in Seq(JobType) /\ Len(jobs) = Len(runs)
    /\ \A w \in watchers : w \in WatcherType /\ w.run \in DOMAIN runs
    /\ starters \subseteq DOMAIN runs /\ todo \subseteq DOMAIN runs
    /\ mode \in Modes /\ live \in BOOLEAN
    /\ used \in [crash : Nat, user : Nat, deploy : Nat]

\* Nothing but a watcher moves a run off running (resumeRunWatchers says so):
\* once startup has gone through them, every running run has one, or its
\* request is still starting it.
RunsWatched ==
    mode \in {"resumed", "up"} =>
        \A r \in Running : r \in starters \/ \E w \in watchers : w.run = r

\* What a row says of an ended run is what the cluster did, although it is
\* written some calls after it was read: a success is the Job's (or the
\* Job has expired since), and the Job of a failed run holds no node (watchRun, gangGuard, resumeRunWatchers).
OutcomeIsTheJobs ==
    \A r \in DOMAIN runs :
        /\ runs[r].status = "succeeded" => jobs[r].state \in {"succeeded", "gone"}
        /\ runs[r].status = "failed" => jobs[r].state \notin {"pending", "running"}

\* FinishJobRun overwrites whatever is there: an ended run stays as it ended
\* because it has one watcher and startup looks at running runs only.
EndedRunsStay ==
    [][\A r \in DOMAIN runs \ Running : runs'[r] = runs[r]]_runVars

\* A run ends, over a crash of the server between any two steps (watchRun,
\* resumeRunWatchers).
RunsEnd == \A r \in 1 .. MaxUserRuns : r \in Running ~> r \notin Running

================================
