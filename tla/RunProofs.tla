-------------------------------- MODULE RunProofs -------------------------------
(***************************************************************************)
(* Proofs about module JobRuns, for every value of its constants: its type *)
(* invariant, and three of the properties of RunProperties from two        *)
(* inductive invariants.  SweepProofs and PipelineProofs cite the lemmas   *)
(* about its steps.                                                        *)
(***************************************************************************)
EXTENDS RunProperties, TableLemmas

--------------------------------
\* What the operators on the two tables return.

LEMMA Rows ==
    ASSUME RunTypeOK
    PROVE  /\ Len(runs) \in Nat
           /\ DOMAIN runs = 1 .. Len(runs) /\ DOMAIN jobs = DOMAIN runs
           /\ \A r \in DOMAIN runs : r \in Nat /\ runs[r] \in RowType /\ jobs[r] \in JobType
  BY LenProperties DEF RunTypeOK

LEMMA CreateRows ==
    ASSUME RunTypeOK, NEW owner \in Nat, NEW nodes \in Nat \ {0}, CreateJobRun(owner, nodes)
    PROVE  /\ runs' \in Seq(RowType) /\ jobs' \in Seq(JobType) /\ Len(jobs') = Len(runs')
           /\ DOMAIN runs' = DOMAIN runs \cup {Len(runs) + 1}
           /\ runs'[Len(runs) + 1].status = "running"
           /\ runs'[Len(runs) + 1].owner = owner
           /\ jobs'[Len(runs) + 1].state = "none"
           /\ \A r \in DOMAIN runs : runs'[r] = runs[r] /\ jobs'[r] = jobs[r]
<1>1. /\ NewRun(owner, nodes) \in RowType /\ NewRun(owner, nodes).status = "running"
      /\ NewRun(owner, nodes).owner = owner
  BY DEF NewRun, RowType
<1>2. NoJob \in JobType /\ NoJob.state = "none"
  BY DEF NoJob, JobType
<1>3. runs \in Seq(RowType) /\ jobs \in Seq(JobType) /\ Len(jobs) = Len(runs)
  BY DEF RunTypeOK
<1>4. DOMAIN jobs = DOMAIN runs
  BY Rows
<1>5. /\ runs' \in Seq(RowType) /\ Len(runs') = Len(runs) + 1
      /\ DOMAIN runs' = DOMAIN runs \cup {Len(runs) + 1}
      /\ runs'[Len(runs) + 1] = NewRun(owner, nodes)
      /\ \A r \in DOMAIN runs : runs'[r] = runs[r]
  BY <1>1, <1>3, AddRow DEF CreateJobRun
<1>6. /\ jobs' \in Seq(JobType) /\ Len(jobs') = Len(jobs) + 1
      /\ jobs'[Len(jobs) + 1] = NoJob
      /\ \A r \in DOMAIN jobs : jobs'[r] = jobs[r]
  BY <1>2, <1>3, AddRow DEF CreateJobRun
<1>7. QED  BY <1>1, <1>2, <1>3, <1>4, <1>5, <1>6

LEMMA FinishRow ==
    ASSUME RunTypeOK, NEW r \in DOMAIN runs, NEW status \in Ended, FinishJobRun(r, status)
    PROVE  /\ runs' \in Seq(RowType) /\ Len(runs') = Len(runs) /\ DOMAIN runs' = DOMAIN runs
           /\ runs'[r].status = status /\ runs'[r].owner = runs[r].owner
           /\ \A n \in DOMAIN runs : n # r => runs'[n] = runs[n]
<1> DEFINE e == [runs[r] EXCEPT !.status = status]
<1>1. runs[r] \in RowType
  BY Rows
<1>2. e \in RowType /\ e.status = status /\ e.owner = runs[r].owner
  BY <1>1 DEF RowType
<1>3. runs' = [runs EXCEPT ![r] = e]
  BY DEF FinishJobRun
<1> HIDE DEF e
<1>4. runs \in Seq(RowType)
  BY DEF RunTypeOK
<1>5. QED  BY <1>2, <1>3, <1>4, PutRow

LEMMA PutJob ==
    ASSUME RunTypeOK, NEW r \in DOMAIN runs, NEW job \in JobType,
           jobs' = [jobs EXCEPT ![r] = job]
    PROVE  /\ jobs' \in Seq(JobType) /\ Len(jobs') = Len(jobs)
           /\ jobs'[r] = job
           /\ \A n \in DOMAIN runs : n # r => jobs'[n] = jobs[n]
<1>1. jobs \in Seq(JobType) /\ DOMAIN jobs = DOMAIN runs
  BY Rows DEF RunTypeOK
<1>2. QED  BY <1>1, PutRow

JobStates == Ended \cup {"none", "pending", "running", "gone"}

LEMMA PutJobState ==
    ASSUME RunTypeOK, NEW r \in DOMAIN runs, NEW state \in JobStates,
           jobs' = [jobs EXCEPT ![r].state = state]
    PROVE  /\ jobs' \in Seq(JobType) /\ Len(jobs') = Len(jobs)
           /\ jobs'[r].state = state
           /\ \A n \in DOMAIN runs : n # r => jobs'[n] = jobs[n]
<1> DEFINE job == [jobs[r] EXCEPT !.state = state]
<1>1. jobs[r] \in JobType
  BY Rows
<1>2. job \in JobType /\ job.state = state
  BY <1>1 DEF JobType, JobStates
<1>3. jobs' = [jobs EXCEPT ![r] = job]
  OBVIOUS
<1> HIDE DEF job
<1>4. QED  BY <1>2, <1>3, PutJob

\* An apply that fails leaves every other Job alone, and its own unless only the answer is lost.
LEMMA ApplyFailsRow ==
    ASSUME RunTypeOK, NEW r \in DOMAIN runs, ApplyFails(r)
    PROVE  /\ jobs' \in Seq(JobType) /\ Len(jobs') = Len(jobs)
           /\ \A n \in DOMAIN runs : n # r => jobs'[n] = jobs[n]
           /\ "answer" \notin Faults => UNCHANGED jobs
<1>1. CASE UNCHANGED jobs
  BY <1>1 DEF RunTypeOK
<1>2. CASE "answer" \in Faults /\ jobs' = [jobs EXCEPT ![r].state = "pending"]
  BY <1>2, PutJobState DEF JobStates
<1>3. QED  BY <1>1, <1>2 DEF ApplyFails

\* Deleting a Job: it is gone, or was never there, or the call failed.
LEMMA DeleteJobRow ==
    ASSUME RunTypeOK, NEW r \in DOMAIN runs, DeleteJob(r)
    PROVE  /\ jobs' \in Seq(JobType) /\ Len(jobs') = Len(jobs)
           /\ \/ jobs'[r].state \in {"none", "gone"}
              \/ "delete" \in Faults /\ jobs'[r] = jobs[r]
           /\ \A n \in DOMAIN runs : n # r => jobs'[n] = jobs[n]
<1>1. CASE UNCHANGED jobs /\ ("delete" \in Faults \/ jobs[r].state = "none")
  BY <1>1 DEF RunTypeOK
<1>2. CASE jobs' = [jobs EXCEPT ![r].state = "gone"]
  BY <1>2, PutJobState DEF JobStates
<1>3. QED  BY <1>1, <1>2 DEF DeleteJob

\* The watcher a run gets, whoever attaches it.
LEMMA WatcherFits ==
    ASSUME RunTypeOK, NEW r \in DOMAIN runs, NEW by \in {"start", "resume"}
    PROVE  /\ Watcher(r, by) \in WatcherType /\ Watcher(r, by).run = r
           /\ Watcher(r, by).pc \in {"gang", "wait"}
<1>1. r \in Nat
  BY Rows
<1>2. QED  BY <1>1 DEF Watcher, WatcherType

--------------------------------
\* Types.

RowsOK == /\ runs \in Seq(RowType) /\ jobs \in Seq(JobType) /\ Len(jobs) = Len(runs)

RefsOK == /\ \A w \in watchers : w \in WatcherType /\ w.run \in DOMAIN runs
          /\ starters \subseteq DOMAIN runs /\ todo \subseteq DOMAIN runs

UsedOK == used \in [crash : Nat, user : Nat, deploy : Nat]

LEMMA RunTypeGroups == RunTypeOK <=> RowsOK /\ RefsOK /\ mode \in Modes /\ live \in BOOLEAN /\ UsedOK
  BY DEF RunTypeOK, RowsOK, RefsOK, UsedOK

\* The rows may grow; what referred to one still does.
LEMMA RefsKeep ==
    ASSUME RunTypeOK, DOMAIN runs \subseteq DOMAIN runs', UNCHANGED <<watchers, starters, todo>>
    PROVE  RefsOK'
  BY DEF RunTypeOK, RefsOK

LEMMA SpendOK ==
    ASSUME RunTypeOK, NEW what \in {"crash", "user", "deploy"}, Spend(what)
    PROVE  UsedOK'
  BY DEF RunTypeOK, UsedOK, Spend

LEMMA AttachOK ==
    ASSUME RunTypeOK, NEW r \in DOMAIN runs, NEW by \in {"start", "resume"}, Attach(r, by)
    PROVE  \A w \in watchers' : w \in WatcherType /\ w.run \in DOMAIN runs
  BY WatcherFits DEF RunTypeOK, Attach

LEMMA ApplyRunOK ==
    ASSUME RunTypeOK, NEW r \in DOMAIN runs, ApplyRun(r), UNCHANGED runs
    PROVE  RowsOK' /\ \A w \in watchers' : w \in WatcherType /\ w.run \in DOMAIN runs
<1>1. jobs' \in Seq(JobType) /\ Len(jobs') = Len(jobs)
  BY PutJobState DEF ApplyRun, JobStates
<1>2. QED  BY <1>1, AttachOK DEF ApplyRun, RunTypeOK, RowsOK

LEMMA TypeRequests ==
    ASSUME RunTypeOK, Requests
    PROVE  RunTypeOK'
<1>1. ASSUME NEW nodes \in UserNodes, CreateRun(nodes)  PROVE RunTypeOK'
  <2>1. nodes \in Nat \ {0}
    BY RunAssumption
  <2>2. CreateJobRun(0, nodes)
    BY <1>1 DEF CreateRun
  <2>3. RowsOK' /\ DOMAIN runs' = DOMAIN runs \cup {Len(runs) + 1}
    BY <2>1, <2>2, CreateRows DEF RowsOK
  <2>4. RefsOK'
    BY <1>1, <2>3 DEF CreateRun, RunTypeOK, RefsOK
  <2>5. UsedOK'
    BY <1>1, SpendOK DEF CreateRun
  <2>6. QED  BY <1>1, <2>3, <2>4, <2>5 DEF CreateRun, RunTypeOK, RowsOK, RefsOK, UsedOK
<1>2. ASSUME NEW r \in starters, StartRun(r)  PROVE RunTypeOK'
  <2>1. r \in DOMAIN runs
    BY DEF RunTypeOK
  <2>2. RowsOK' /\ \A w \in watchers' : w \in WatcherType /\ w.run \in DOMAIN runs
    BY <1>2, <2>1, ApplyRunOK DEF StartRun
  <2>3. QED  BY <1>2, <2>2 DEF StartRun, RunTypeOK, RowsOK
<1>3. ASSUME NEW r \in starters, StartRunFails(r)  PROVE RunTypeOK'
  <2>1. r \in DOMAIN runs /\ "failed" \in Ended
    BY DEF RunTypeOK, Ended
  <2>2. RowsOK' /\ DOMAIN runs' = DOMAIN runs
    <3>1. FinishJobRun(r, "failed") /\ ApplyFails(r)
      BY <1>3 DEF StartRunFails
    <3>2. /\ runs' \in Seq(RowType) /\ Len(runs') = Len(runs) /\ DOMAIN runs' = DOMAIN runs
      BY <2>1, <3>1, FinishRow
    <3>3. jobs' \in Seq(JobType) /\ Len(jobs') = Len(jobs)
      BY <2>1, <3>1, ApplyFailsRow
    <3>4. QED  BY <3>2, <3>3 DEF RowsOK, RunTypeOK
  <2>3. QED  BY <1>3, <2>2 DEF StartRunFails, RunTypeOK, RowsOK
<1>4. CASE DeployBegins \/ DeployEnds
  <2>1. UsedOK'
    BY <1>4, SpendOK DEF DeployBegins, DeployEnds, RunTypeOK, UsedOK
  <2>2. QED  BY <1>4, <2>1 DEF DeployBegins, DeployEnds, RunTypeOK, UsedOK
<1>5. QED  BY <1>1, <1>2, <1>3, <1>4 DEF Requests

LEMMA WatchOK ==
    ASSUME RunTypeOK, NEW w \in watchers, NEW ok \in BOOLEAN,
           NEW pc \in {"gang", "gangDelete", "gangRecord", "wait", "record"},
           Watch(w, pc, ok)
    PROVE  \A v \in watchers' : v \in WatcherType /\ v.run \in DOMAIN runs
<1> DEFINE moved == [w EXCEPT !.pc = pc, !.ok = ok]
<1>1. w \in WatcherType /\ w.run \in DOMAIN runs
  BY DEF RunTypeOK
<1>2. moved \in WatcherType /\ moved.run = w.run
  BY <1>1 DEF WatcherType
<1>3. watchers' = (watchers \ {w}) \cup {moved}
  BY DEF Watch
<1> HIDE DEF moved
<1>4. QED  BY <1>1, <1>2, <1>3 DEF RunTypeOK

LEMMA TypeWatcherStep ==
    ASSUME RunTypeOK, NEW w \in watchers, WatcherStep(w)
    PROVE  RunTypeOK'
<1>0. w.run \in DOMAIN runs /\ w \in WatcherType
  BY DEF RunTypeOK
<1>1. CASE GangStarts(w) \/ GangTimesOut(w) \/ WaitReturns(w)
  <2>1. \A v \in watchers' : v \in WatcherType /\ v.run \in DOMAIN runs
    BY <1>1, WatchOK DEF GangStarts, GangTimesOut, WaitReturns
  <2>2. QED  BY <1>1, <2>1 DEF GangStarts, GangTimesOut, WaitReturns, RunTypeOK
<1>2. CASE GangDelete(w)
  <2>1. \A v \in watchers' : v \in WatcherType /\ v.run \in DOMAIN runs
    BY <1>2, WatchOK DEF GangDelete
  <2>2. jobs' \in Seq(JobType) /\ Len(jobs') = Len(jobs)
    BY <1>0, <1>2, DeleteJobRow DEF GangDelete
  <2>3. QED  BY <1>2, <2>1, <2>2 DEF GangDelete, RunTypeOK
<1>3. CASE Record(w)
  <2>1. PICK status \in Ended : FinishJobRun(w.run, status)
    BY <1>3 DEF Record, Ended
  <2>2. runs' \in Seq(RowType) /\ Len(runs') = Len(runs) /\ DOMAIN runs' = DOMAIN runs
    BY <1>0, <2>1, FinishRow
  <2>3. QED  BY <1>3, <2>2 DEF Record, RunTypeOK
<1>4. QED  BY <1>1, <1>2, <1>3 DEF WatcherStep

LEMMA OldestIn ==
    ASSUME RunTypeOK, NEW S \in SUBSET Nat, S # {}
    PROVE  Oldest(S) \in S
  BY OldestExists DEF Oldest

LEMMA TypeStartup ==
    ASSUME RunTypeOK, Startup
    PROVE  RunTypeOK'
<1>1. CASE Restart \/ Resumed
  BY <1>1 DEF Restart, Resumed, RunTypeOK, Modes
<1>2. CASE ListRunning
  BY <1>2 DEF ListRunning, Running, RunTypeOK, Modes
<1>3. CASE ResumeRun
  <2> DEFINE r == Oldest(todo)
  <2>1. r \in DOMAIN runs
    BY <1>3, Rows, OldestIn DEF ResumeRun, RunTypeOK
  <2>2. todo' = todo \ {r} /\ UNCHANGED <<jobs, starters, mode, live, used>>
    BY <1>3 DEF ResumeRun
  <2>3. CASE \E status \in Ended : FinishJobRun(r, status) /\ UNCHANGED watchers
    <3>1. runs' \in Seq(RowType) /\ Len(runs') = Len(runs) /\ DOMAIN runs' = DOMAIN runs
      BY <2>1, <2>3, FinishRow
    <3>2. QED  BY <2>2, <2>3, <3>1 DEF RunTypeOK
  <2>4. CASE Attach(r, "resume") /\ UNCHANGED runs
    BY <2>1, <2>2, <2>4, AttachOK DEF RunTypeOK
  <2>5. CASE UNCHANGED <<runs, watchers>>
    BY <2>2, <2>5 DEF RunTypeOK
  <2>6. QED  BY <1>3, <2>3, <2>4, <2>5 DEF ResumeRun, Ended
<1>4. QED  BY <1>1, <1>2, <1>3 DEF Startup

LEMMA TypeCluster ==
    ASSUME RunTypeOK, Cluster
    PROVE  RunTypeOK'
<1>1. PICK r \in DOMAIN jobs :
         \/ JobStarts(r) \/ JobEnds(r) \/ JobExpires(r)
         \/ \E o \in Reports : JobReports(r, o)
  BY DEF Cluster
<1>2. r \in DOMAIN runs
  BY Rows
<1>3. UNCHANGED <<runs, watchers, starters, todo, mode, live, used>>
  BY <1>1 DEF JobStarts, JobEnds, JobSucceeds, JobFails, JobExpires, JobReports, SetJob
<1>4. jobs' \in Seq(JobType) /\ Len(jobs') = Len(jobs)
  <2>1. CASE \E s \in JobStates : jobs' = [jobs EXCEPT ![r].state = s]
    BY <1>2, <2>1, PutJobState
  <2>2. ASSUME NEW o \in Reports, jobs' = [jobs EXCEPT ![r].report = o]
        PROVE  jobs' \in Seq(JobType) /\ Len(jobs') = Len(jobs)
    <3> DEFINE job == [jobs[r] EXCEPT !.report = o]
    <3>1. job \in JobType
      BY <1>2, Rows DEF JobType
    <3>2. jobs' = [jobs EXCEPT ![r] = job]
      BY <2>2
    <3> HIDE DEF job
    <3>3. QED  BY <1>2, <3>1, <3>2, PutJob
  <2>3. QED
    BY <1>1, <2>1, <2>2
    DEF JobStarts, JobEnds, JobSucceeds, JobFails, JobExpires, JobReports, SetJob,
        JobStates, Ended
<1>5. QED  BY <1>3, <1>4 DEF RunTypeOK

LEMMA TypeRunStep ==
    ASSUME RunTypeOK, RunNext \/ Crash
    PROVE  RunTypeOK'
<1>1. CASE RunNext
  BY <1>1, TypeRequests, TypeWatcherStep, TypeStartup, TypeCluster DEF RunNext
<1>2. CASE Crash
  <2>1. UsedOK'
    BY <1>2, SpendOK DEF Crash
  <2>2. QED  BY <1>2, <2>1 DEF Crash, RunTypeOK, UsedOK, Modes
<1>3. QED  BY <1>1, <1>2

LEMMA RunInitType == RunInit => RunTypeOK
<1> SUFFICES ASSUME RunInit  PROVE RunTypeOK
  OBVIOUS
<1>1. runs \in Seq(RowType) /\ jobs \in Seq(JobType) /\ Len(jobs) = Len(runs)
  BY EmptySeq DEF RunInit
<1>2. QED  BY <1>1 DEF RunInit, RunTypeOK, Modes

\* Runs and Jobs stay in step, and a goroutine's run is a row (runs.go).
THEOREM RunTypeCorrect == RunSpec => []RunTypeOK
<1>1. RunTypeOK /\ [RunNext \/ Crash]_runVars => RunTypeOK'
  <2>1. ASSUME RunTypeOK, UNCHANGED runVars  PROVE RunTypeOK'
    BY <2>1 DEF runVars, RunTypeOK
  <2>2. QED  BY <2>1, TypeRunStep
<1>2. QED  BY <1>1, RunInitType, PTL DEF RunSpec

--------------------------------
\* A running run is tended: by its request, by its watcher, or because
\* startup has still to come to it.

Tended(r) == r \in starters \/ r \in todo \/ \E w \in watchers : w.run = r

WatchedInv ==
    /\ mode \in {"resuming", "resumed", "up"} => \A r \in Running : Tended(r)
    /\ mode \in {"resumed", "up"} => todo = {}

LEMMA RunningFinish ==
    ASSUME RunTypeOK, NEW r \in DOMAIN runs, NEW status \in Ended, FinishJobRun(r, status)
    PROVE  Running' = Running \ {r}
  BY FinishRow DEF Running, Ended

LEMMA RunningCreate ==
    ASSUME RunTypeOK, NEW owner \in Nat, NEW nodes \in Nat \ {0}, CreateJobRun(owner, nodes)
    PROVE  Running' = Running \cup {Len(runs) + 1} /\ Len(runs) + 1 \notin DOMAIN runs
  BY CreateRows, Rows DEF Running

\* A watcher that goes on watches the same run.
LEMMA WatchSame ==
    ASSUME RunTypeOK, NEW w \in watchers, NEW ok \in BOOLEAN,
           NEW pc \in {"gang", "gangDelete", "gangRecord", "wait", "record"},
           Watch(w, pc, ok)
    PROVE  \E v : /\ watchers' = (watchers \ {w}) \cup {v}
                  /\ v.run = w.run /\ v.pc = pc /\ v.ok = ok
<1>1. w \in WatcherType
  BY DEF RunTypeOK
<1> DEFINE v == [w EXCEPT !.pc = pc, !.ok = ok]
<1>2. v.run = w.run /\ v.pc = pc /\ v.ok = ok
  BY <1>1 DEF WatcherType
<1>3. watchers' = (watchers \ {w}) \cup {v}
  BY DEF Watch
<1> HIDE DEF v
<1>4. QED  BY <1>2, <1>3

\* What a step of a watcher does to the runs: it goes on, or records its own.
LEMMA WatcherEffect ==
    ASSUME RunTypeOK, NEW w \in watchers, WatcherStep(w)
    PROVE  /\ UNCHANGED <<starters, todo, mode, live, used>>
           /\ \/ /\ \E v : watchers' = (watchers \ {w}) \cup {v} /\ v.run = w.run
                 /\ UNCHANGED runs
              \/ /\ \E status \in Ended : FinishJobRun(w.run, status)
                 /\ watchers' = watchers \ {w}
<1>1. CASE Record(w)
  BY <1>1 DEF Record, Ended
<1>2. CASE ~ Record(w)
  <2>1. UNCHANGED <<runs, starters, todo, mode, live, used>>
    BY <1>2 DEF WatcherStep, GangStarts, GangTimesOut, GangDelete, WaitReturns
  <2>2. PICK pc \in {"gang", "gangDelete", "gangRecord", "wait", "record"}, ok \in BOOLEAN :
          Watch(w, pc, ok)
    BY <1>2 DEF WatcherStep, GangStarts, GangTimesOut, GangDelete, WaitReturns
  <2>3. \E v : watchers' = (watchers \ {w}) \cup {v} /\ v.run = w.run
    BY <2>2, WatchSame
  <2>4. QED  BY <2>1, <2>3
<1>3. QED  BY <1>1, <1>2

\* Likewise a turn of the loop of resumeRunWatchers.
LEMMA ResumeEffect ==
    ASSUME RunTypeOK, ResumeRun
    PROVE  LET r == Oldest(todo) IN
           /\ r \in todo /\ r \in DOMAIN runs /\ todo' = todo \ {r}
           /\ UNCHANGED <<jobs, starters, mode, live, used>>
           /\ \/ (\E status \in Ended : FinishJobRun(r, status)) /\ UNCHANGED watchers
              \/ Attach(r, "resume") /\ UNCHANGED runs
              \/ "lookup" \in Faults /\ UNCHANGED <<runs, watchers>>
<1>1. todo \in SUBSET Nat /\ todo # {} /\ todo \subseteq DOMAIN runs
  BY Rows DEF ResumeRun, RunTypeOK
<1>2. Oldest(todo) \in todo
  BY <1>1, OldestIn
<1>3. QED  BY <1>1, <1>2 DEF ResumeRun, Ended

\* No row of a run is ever removed, and a new one is a user's.
LEMMA RunsGrow ==
    ASSUME RunTypeOK, RunNext \/ Crash
    PROVE  /\ DOMAIN runs \subseteq DOMAIN runs'
           /\ \A r \in DOMAIN runs : runs'[r].owner = runs[r].owner
           /\ \A r \in DOMAIN runs' \ DOMAIN runs : runs'[r].owner = 0
<1>1. CASE \E nodes \in UserNodes : CreateRun(nodes)
  BY <1>1, RunAssumption, CreateRows DEF CreateRun
<1>2. ASSUME NEW r \in DOMAIN runs, NEW status \in Ended, FinishJobRun(r, status)
      PROVE  /\ DOMAIN runs' = DOMAIN runs
             /\ \A n \in DOMAIN runs : runs'[n].owner = runs[n].owner
  BY <1>2, FinishRow
<1>3. CASE \E r \in starters : StartRunFails(r)
  BY <1>2, <1>3 DEF StartRunFails, RunTypeOK, Ended
<1>4. CASE \E w \in watchers : WatcherStep(w)
  BY <1>2, <1>4, WatcherEffect DEF RunTypeOK
<1>5. CASE ResumeRun
  BY <1>2, <1>5, ResumeEffect
<1>6. CASE UNCHANGED runs
  BY <1>6
<1>7. QED
  BY <1>1, <1>3, <1>4, <1>5, <1>6
  DEF RunNext, Requests, Startup, StartRun, DeployBegins, DeployEnds, Restart, Resumed,
      ListRunning, Crash, Cluster, JobStarts, JobEnds, JobSucceeds, JobFails, JobExpires,
      JobReports, SetJob

LEMMA WatchedStep ==
    ASSUME "lookup" \notin Faults, RunTypeOK, WatchedInv, RunNext \/ Crash
    PROVE  WatchedInv'
<1>1. CASE \E nodes \in UserNodes : CreateRun(nodes)
  <2>1. PICK nodes \in UserNodes : CreateRun(nodes)
    BY <1>1
  <2>2. Running' = Running \cup {Len(runs) + 1}
    BY <2>1, RunAssumption, RunningCreate DEF CreateRun
  <2>3. QED  BY <2>1, <2>2 DEF CreateRun, WatchedInv, Tended
<1>2. CASE \E r \in starters : StartRun(r)
  <2>1. PICK r \in starters : StartRun(r)
    BY <1>2
  <2>2. Running' = Running
    BY <2>1 DEF StartRun, Running
  <2>3. watchers \subseteq watchers' /\ \E w \in watchers' : w.run = r
    BY <2>1, WatcherFits DEF StartRun, ApplyRun, Attach, RunTypeOK
  <2>4. QED  BY <2>1, <2>2, <2>3 DEF StartRun, WatchedInv, Tended
<1>3. CASE \E r \in starters : StartRunFails(r)
  <2>1. PICK r \in starters : StartRunFails(r)
    BY <1>3
  <2>2. Running' = Running \ {r}
    BY <2>1, RunningFinish DEF StartRunFails, RunTypeOK, Ended
  <2>3. QED  BY <2>1, <2>2 DEF StartRunFails, WatchedInv, Tended
<1>4. CASE DeployBegins \/ DeployEnds
  BY <1>4 DEF DeployBegins, DeployEnds, WatchedInv, Tended, Running
<1>5. CASE \E w \in watchers : WatcherStep(w)
  <2>1. PICK w \in watchers : WatcherStep(w)
    BY <1>5
  <2>2. w.run \in DOMAIN runs /\ UNCHANGED <<starters, todo, mode>>
    BY <2>1, WatcherEffect DEF RunTypeOK
  <2>3. CASE UNCHANGED runs /\ \E v : watchers' = (watchers \ {w}) \cup {v} /\ v.run = w.run
    BY <2>2, <2>3 DEF WatchedInv, Tended, Running
  <2>4. CASE watchers' = watchers \ {w} /\ \E status \in Ended : FinishJobRun(w.run, status)
    <3>1. Running' = Running \ {w.run}
      BY <2>2, <2>4, RunningFinish
    <3>2. QED  BY <2>2, <2>4, <3>1 DEF WatchedInv, Tended
  <2>5. QED  BY <2>1, <2>3, <2>4, WatcherEffect
<1>6. CASE Restart \/ Resumed \/ ListRunning
  BY <1>6 DEF Restart, Resumed, ListRunning, WatchedInv, Tended, Running
<1>7. CASE ResumeRun
  <2> DEFINE r == Oldest(todo)
  <2>1. /\ r \in todo /\ r \in DOMAIN runs /\ todo' = todo \ {r}
        /\ UNCHANGED <<starters, mode>> /\ mode = "resuming"
    BY <1>7, ResumeEffect DEF ResumeRun
  <2>2. CASE (\E status \in Ended : FinishJobRun(r, status)) /\ UNCHANGED watchers
    <3>1. Running' = Running \ {r}
      BY <2>1, <2>2, RunningFinish
    <3> HIDE DEF r
    <3>2. QED  BY <2>1, <2>2, <3>1 DEF WatchedInv, Tended
  <2>3. CASE Attach(r, "resume") /\ UNCHANGED runs
    <3>1. watchers \subseteq watchers' /\ \E w \in watchers' : w.run = r
      BY <2>1, <2>3, WatcherFits DEF Attach
    <3> HIDE DEF r
    <3>2. QED  BY <2>1, <2>3, <3>1 DEF WatchedInv, Tended, Running
  <2>4. QED  BY <1>7, <2>2, <2>3, ResumeEffect
<1>8. CASE Cluster
  <2>1. UNCHANGED <<runs, watchers, starters, todo, mode>>
    BY <1>8 DEF Cluster, JobStarts, JobEnds, JobSucceeds, JobFails, JobExpires,
                JobReports, SetJob
  <2>2. QED  BY <2>1 DEF WatchedInv, Tended, Running
<1>9. CASE Crash
  BY <1>9 DEF Crash, WatchedInv
<1>10. QED
  BY <1>1, <1>2, <1>3, <1>4, <1>5, <1>6, <1>7, <1>8, <1>9 DEF RunNext, Requests, Startup

\* As long as JobExists does not fail at startup, no running run is left
\* without somebody who will end it (watchRun, resumeRunWatchers).
THEOREM RunsWatchedAlways ==
    ASSUME "lookup" \notin Faults
    PROVE  RunSpec => []RunsWatched
<1>1. RunInit => WatchedInv
  BY DEF RunInit, WatchedInv, Running
<1>2. RunTypeOK /\ WatchedInv /\ [RunNext \/ Crash]_runVars => WatchedInv'
  <2>1. ASSUME WatchedInv, UNCHANGED runVars  PROVE WatchedInv'
    BY <2>1 DEF runVars, WatchedInv, Tended, Running
  <2>2. QED  BY <2>1, WatchedStep
<1>3. WatchedInv => RunsWatched
  BY DEF WatchedInv, RunsWatched, Tended
<1>4. QED  BY <1>1, <1>2, <1>3, RunTypeCorrect, PTL DEF RunSpec

--------------------------------
\* A running run is kept by one of them only, if no request is served
\* before startup has its list: so FinishJobRun meets running runs only.

KeeperInv ==
    /\ starters \subseteq Running /\ todo \subseteq Running /\ starters \cap todo = {}
    /\ \A w \in watchers : w.run \in Running /\ w.run \notin starters /\ w.run \notin todo
    /\ \A v, w \in watchers : v.run = w.run => v = w
    /\ mode \in {"down", "starting"} => watchers = {} /\ starters = {}
    /\ mode # "resuming" => todo = {}

LEMMA KeeperStep ==
    ASSUME ~ ServeEarly, RunTypeOK, KeeperInv, RunNext \/ Crash
    PROVE  KeeperInv'
<1>1. CASE \E nodes \in UserNodes : CreateRun(nodes)
  <2>1. PICK nodes \in UserNodes : CreateRun(nodes)
    BY <1>1
  <2>2. Running' = Running \cup {Len(runs) + 1} /\ Len(runs) + 1 \notin DOMAIN runs
    BY <2>1, RunAssumption, RunningCreate DEF CreateRun
  <2>3. \A w \in watchers : w.run # Len(runs) + 1
    BY <2>2 DEF RunTypeOK
  <2>4. mode \in {"resumed", "up"} /\ todo = {}
    BY <2>1 DEF CreateRun, KeeperInv
  <2>5. QED  BY <2>1, <2>2, <2>3, <2>4 DEF CreateRun, KeeperInv
<1>2. CASE \E r \in starters : StartRun(r)
  <2>1. PICK r \in starters : StartRun(r)
    BY <1>2
  <2>2. Running' = Running
    BY <2>1 DEF StartRun, Running
  <2>3. PICK v : watchers' = watchers \cup {v} /\ v.run = r
    BY <2>1, WatcherFits DEF StartRun, ApplyRun, Attach, RunTypeOK
  <2>4. QED  BY <2>1, <2>2, <2>3 DEF StartRun, KeeperInv
<1>3. CASE \E r \in starters : StartRunFails(r)
  <2>1. PICK r \in starters : StartRunFails(r)
    BY <1>3
  <2>2. Running' = Running \ {r}
    BY <2>1, RunningFinish DEF StartRunFails, RunTypeOK, Ended
  <2>3. QED  BY <2>1, <2>2 DEF StartRunFails, KeeperInv
<1>4. CASE DeployBegins \/ DeployEnds
  BY <1>4 DEF DeployBegins, DeployEnds, KeeperInv, Running
<1>5. CASE \E w \in watchers : WatcherStep(w)
  <2>1. PICK w \in watchers : WatcherStep(w)
    BY <1>5
  <2>2. w.run \in DOMAIN runs /\ UNCHANGED <<starters, todo, mode>>
    BY <2>1, WatcherEffect DEF RunTypeOK
  <2>3. CASE UNCHANGED runs /\ \E v : watchers' = (watchers \ {w}) \cup {v} /\ v.run = w.run
    BY <2>2, <2>3 DEF KeeperInv, Running
  <2>4. CASE watchers' = watchers \ {w} /\ \E status \in Ended : FinishJobRun(w.run, status)
    <3>1. Running' = Running \ {w.run}
      BY <2>2, <2>4, RunningFinish
    <3>2. QED  BY <2>2, <2>4, <3>1 DEF KeeperInv
  <2>5. QED  BY <2>1, <2>3, <2>4, WatcherEffect
<1>6. CASE Restart \/ Resumed \/ ListRunning
  BY <1>6 DEF Restart, Resumed, ListRunning, KeeperInv, Running
<1>7. CASE ResumeRun
  <2> DEFINE r == Oldest(todo)
  <2>1. /\ r \in todo /\ r \in DOMAIN runs /\ todo' = todo \ {r}
        /\ UNCHANGED <<starters, mode>> /\ mode = "resuming"
    BY <1>7, ResumeEffect DEF ResumeRun
  <2>2. CASE (\E status \in Ended : FinishJobRun(r, status)) /\ UNCHANGED watchers
    <3>1. Running' = Running \ {r}
      BY <2>1, <2>2, RunningFinish
    <3> HIDE DEF r
    <3>2. QED  BY <2>1, <2>2, <3>1 DEF KeeperInv
  <2>3. CASE Attach(r, "resume") /\ UNCHANGED runs
    <3>1. PICK v : watchers' = watchers \cup {v} /\ v.run = r
      BY <2>1, <2>3, WatcherFits DEF Attach
    <3> HIDE DEF r
    <3>2. QED  BY <2>1, <2>3, <3>1 DEF KeeperInv, Running
  <2>4. CASE UNCHANGED <<runs, watchers>>
    BY <2>1, <2>4 DEF KeeperInv, Running
  <2>5. QED  BY <1>7, <2>2, <2>3, <2>4, ResumeEffect
<1>8. CASE Cluster
  <2>1. UNCHANGED <<runs, watchers, starters, todo, mode>>
    BY <1>8 DEF Cluster, JobStarts, JobEnds, JobSucceeds, JobFails, JobExpires,
                JobReports, SetJob
  <2>2. QED  BY <2>1 DEF KeeperInv, Running
<1>9. CASE Crash
  BY <1>9 DEF Crash, KeeperInv, Running
<1>10. QED
  BY <1>1, <1>2, <1>3, <1>4, <1>5, <1>6, <1>7, <1>8, <1>9 DEF RunNext, Requests, Startup

\* Each running run has at most one keeper, the goroutine whose write ends
\* it, unless requests come before startup has read its list (runs.go:254).
THEOREM KeptAlways ==
    ASSUME ~ ServeEarly
    PROVE  RunSpec => [](RunTypeOK /\ KeeperInv)
<1>1. RunInit => KeeperInv
  BY DEF RunInit, KeeperInv, Running
<1>2. RunTypeOK /\ KeeperInv /\ [RunNext \/ Crash]_runVars => KeeperInv'
  <2>1. ASSUME KeeperInv, UNCHANGED runVars  PROVE KeeperInv'
    BY <2>1 DEF runVars, KeeperInv, Running
  <2>2. QED  BY <2>1, KeeperStep
<1>3. QED  BY <1>1, <1>2, RunTypeCorrect, PTL DEF RunSpec

\* A row is only ever finished by its keeper.
LEMMA OnlyRunningFinish ==
    ASSUME RunTypeOK, KeeperInv, RunNext \/ Crash
    PROVE  \A r \in DOMAIN runs \ Running : runs'[r] = runs[r]
<1>1. CASE \E nodes \in UserNodes : CreateRun(nodes)
  BY <1>1, RunAssumption, CreateRows DEF CreateRun
<1>2. CASE \E r \in starters : StartRunFails(r)
  BY <1>2, FinishRow DEF StartRunFails, RunTypeOK, KeeperInv, Ended
<1>3. CASE \E w \in watchers : WatcherStep(w)
  <2>1. PICK w \in watchers : WatcherStep(w)
    BY <1>3
  <2>2. w.run \in DOMAIN runs /\ w.run \in Running
    BY DEF RunTypeOK, KeeperInv
  <2>3. QED  BY <2>1, <2>2, WatcherEffect, FinishRow
<1>4. CASE ResumeRun
  <2> DEFINE r == Oldest(todo)
  <2>1. r \in DOMAIN runs /\ r \in Running
    BY <1>4, ResumeEffect DEF KeeperInv
  <2>2. UNCHANGED runs \/ \E status \in Ended : FinishJobRun(r, status)
    BY <1>4, ResumeEffect
  <2> HIDE DEF r
  <2>3. QED  BY <2>1, <2>2, FinishRow
<1>5. CASE UNCHANGED runs
  BY <1>5
<1>6. QED
  BY <1>1, <1>2, <1>3, <1>4, <1>5
  DEF RunNext, Requests, Startup, StartRun, DeployBegins, DeployEnds, Restart, Resumed,
      ListRunning, Crash, Cluster, JobStarts, JobEnds, JobSucceeds, JobFails, JobExpires,
      JobReports, SetJob

\* An ended run stays as it ended although FinishJobRun would overwrite it,
\* unless a request is served before startup has its list.
THEOREM EndedRunsStayAlways ==
    ASSUME ~ ServeEarly
    PROVE  RunSpec => EndedRunsStay
<1>1. RunTypeOK /\ KeeperInv /\ [RunNext \/ Crash]_runVars
        => [\A r \in DOMAIN runs \ Running : runs'[r] = runs[r]]_runVars
  BY OnlyRunningFinish
<1>2. QED  BY <1>1, KeptAlways, PTL DEF RunSpec, EndedRunsStay

--------------------------------
\* What a watcher has seen is still so when it writes it.

SawRight(w) ==
    /\ w.pc = "gangRecord" => ~ w.ok /\ jobs[w.run].state \in {"none", "gone"}
    /\ w.pc = "record" =>
          jobs[w.run].state \in IF w.ok THEN {"succeeded", "gone"} ELSE {"failed", "none", "gone"}

OutcomeInv ==
    /\ OutcomeIsTheJobs
    /\ \A w \in watchers : SawRight(w)
    /\ \A r \in starters : jobs[r].state = "none"

\* A Job moves forward only.
LEMMA ClusterMoves ==
    ASSUME RunTypeOK, Cluster
    PROVE  /\ UNCHANGED <<runs, watchers, starters, todo, mode, live, used>>
           /\ \A r \in DOMAIN runs :
                \/ jobs'[r].state = jobs[r].state
                \/ /\ jobs[r].state = "pending" /\ jobs'[r].state = "running"
                \/ /\ jobs[r].state \in {"pending", "running"} /\ jobs'[r].state \in Ended
                \/ /\ jobs[r].state \in Ended /\ jobs'[r].state = "gone"
<1>1. PICK r \in DOMAIN jobs :
         \/ JobStarts(r) \/ JobEnds(r) \/ JobExpires(r)
         \/ \E o \in Reports : JobReports(r, o)
  BY DEF Cluster
<1>2. r \in DOMAIN runs
  BY Rows
<1>3. UNCHANGED <<runs, watchers, starters, todo, mode, live, used>>
  BY <1>1 DEF JobStarts, JobEnds, JobSucceeds, JobFails, JobExpires, JobReports, SetJob
<1>4. ASSUME NEW from \in SUBSET JobStates, NEW to \in JobStates, SetJob(r, from, to)
      PROVE  /\ jobs[r].state \in from /\ jobs'[r].state = to
             /\ \A n \in DOMAIN runs : n # r => jobs'[n] = jobs[n]
  BY <1>2, <1>4, PutJobState DEF SetJob
<1>5. CASE JobStarts(r) \/ JobEnds(r) \/ JobExpires(r)
  BY <1>3, <1>4, <1>5 DEF JobStarts, JobEnds, JobSucceeds, JobFails, JobExpires, JobStates, Ended
<1>6. CASE \E o \in Reports : JobReports(r, o)
  <2>1. PICK o \in Reports : jobs' = [jobs EXCEPT ![r].report = o]
    BY <1>6 DEF JobReports
  <2> DEFINE job == [jobs[r] EXCEPT !.report = o]
  <2>2. job \in JobType /\ job.state = jobs[r].state
    BY <1>2, Rows DEF JobType
  <2>3. jobs' = [jobs EXCEPT ![r] = job]
    BY <2>1
  <2> HIDE DEF job
  <2>4. jobs'[r] = job /\ \A n \in DOMAIN runs : n # r => jobs'[n] = jobs[n]
    BY <1>2, <2>2, <2>3, PutJob
  <2>5. QED  BY <1>3, <2>2, <2>4
<1>7. QED  BY <1>1, <1>5, <1>6

LEMMA OutcomeStep ==
    ASSUME ~ ServeEarly, Faults \cap {"answer", "delete", "read", "timeout"} = {},
           RunTypeOK, KeeperInv, OutcomeInv, RunNext \/ Crash
    PROVE  OutcomeInv'
<1>1. CASE \E nodes \in UserNodes : CreateRun(nodes)
  <2>1. PICK nodes \in UserNodes : CreateRun(nodes)
    BY <1>1
  <2>2. /\ DOMAIN runs' = DOMAIN runs \cup {Len(runs) + 1}
        /\ runs'[Len(runs) + 1].status = "running"
        /\ jobs'[Len(runs) + 1].state = "none"
        /\ \A r \in DOMAIN runs : runs'[r] = runs[r] /\ jobs'[r] = jobs[r]
    BY <2>1, RunAssumption, CreateRows DEF CreateRun
  <2>3. \A w \in watchers : w.run \in DOMAIN runs
    BY DEF RunTypeOK
  <2>4. starters \subseteq DOMAIN runs
    BY DEF RunTypeOK
  <2>5. QED  BY <2>1, <2>2, <2>3, <2>4 DEF CreateRun, OutcomeInv, OutcomeIsTheJobs, SawRight
<1>2. CASE \E r \in starters : StartRun(r)
  <2>1. PICK r \in starters : StartRun(r)
    BY <1>2
  <2>2. r \in DOMAIN runs /\ r \in Running
    BY DEF RunTypeOK, KeeperInv
  <2>3. \A n \in DOMAIN runs : n # r => jobs'[n] = jobs[n]
    BY <2>1, <2>2, PutJobState DEF StartRun, ApplyRun, JobStates
  <2>4. PICK v : watchers' = watchers \cup {v} /\ v.pc \in {"gang", "wait"}
    BY <2>1, <2>2, WatcherFits DEF StartRun, ApplyRun, Attach
  <2>5. \A w \in watchers : w.run # r /\ w.run \in DOMAIN runs
    BY DEF RunTypeOK, KeeperInv
  <2>6. UNCHANGED runs /\ starters' = starters \ {r} /\ starters \subseteq DOMAIN runs
    BY <2>1 DEF StartRun, RunTypeOK
  <2>7. runs[r].status = "running"
    BY <2>2 DEF Running
  <2>8. QED  BY <2>3, <2>4, <2>5, <2>6, <2>7 DEF OutcomeInv, OutcomeIsTheJobs, SawRight
<1>3. CASE \E r \in starters : StartRunFails(r)
  <2>1. PICK r \in starters : StartRunFails(r)
    BY <1>3
  <2>2. /\ DOMAIN runs' = DOMAIN runs /\ runs'[r].status = "failed"
        /\ \A n \in DOMAIN runs : n # r => runs'[n] = runs[n]
    BY <2>1, FinishRow DEF StartRunFails, RunTypeOK, Ended
  <2>3. UNCHANGED <<jobs, watchers>>
    BY <2>1, ApplyFailsRow DEF StartRunFails, RunTypeOK
  <2>4. QED  BY <2>1, <2>2, <2>3 DEF StartRunFails, OutcomeInv, OutcomeIsTheJobs, SawRight
<1>4. CASE DeployBegins \/ DeployEnds
  BY <1>4 DEF DeployBegins, DeployEnds, OutcomeInv, OutcomeIsTheJobs, SawRight
<1>5. CASE \E w \in watchers : WatcherStep(w)
  <2>1. PICK w \in watchers : WatcherStep(w)
    BY <1>5
  <2>2. w.run \in DOMAIN runs /\ w.run \notin starters
    BY DEF RunTypeOK, KeeperInv
  <2>3. \A v \in watchers \ {w} : v.run # w.run /\ v.run \in DOMAIN runs
    BY DEF KeeperInv, RunTypeOK
  <2>4. CASE GangStarts(w) \/ GangTimesOut(w)
    <3>1. CASE GangStarts(w)
      <4>1. PICK v : /\ watchers' = (watchers \ {w}) \cup {v}
                     /\ v.run = w.run /\ v.pc = "wait" /\ v.ok = FALSE
        BY <3>1, WatchSame DEF GangStarts
      <4>2. QED  BY <3>1, <4>1 DEF GangStarts, OutcomeInv, OutcomeIsTheJobs, SawRight
    <3>2. CASE GangTimesOut(w)
      <4>1. PICK v : /\ watchers' = (watchers \ {w}) \cup {v}
                     /\ v.run = w.run /\ v.pc = "gangDelete" /\ v.ok = FALSE
        BY <3>2, WatchSame DEF GangTimesOut
      <4>2. QED  BY <3>2, <4>1 DEF GangTimesOut, OutcomeInv, OutcomeIsTheJobs, SawRight
    <3>3. QED  BY <2>4, <3>1, <3>2
  <2>5. CASE GangDelete(w)
    <3>1. PICK v : /\ watchers' = (watchers \ {w}) \cup {v}
                   /\ v.run = w.run /\ v.pc = "gangRecord" /\ v.ok = FALSE
      BY <2>5, WatchSame DEF GangDelete
    <3>2. /\ jobs'[w.run].state \in {"none", "gone"}
          /\ \A n \in DOMAIN runs : n # w.run => jobs'[n] = jobs[n]
      BY <2>2, <2>5, DeleteJobRow DEF GangDelete
    <3>3. UNCHANGED <<runs, starters>> /\ starters \subseteq DOMAIN runs
      BY <2>5 DEF GangDelete, RunTypeOK
    <3>4. runs[w.run].status = "running"
      BY DEF KeeperInv, Running
    <3>5. OutcomeIsTheJobs'
      BY <3>2, <3>3, <3>4 DEF OutcomeInv, OutcomeIsTheJobs
    <3>6. \A u \in watchers' : SawRight(u)'
      BY <2>3, <3>1, <3>2 DEF OutcomeInv, SawRight
    <3>7. QED  BY <2>2, <3>2, <3>3, <3>5, <3>6 DEF OutcomeInv
  <2>6. CASE WaitReturns(w)
    <3>1. PICK ok \in BOOLEAN :
             /\ Watch(w, "record", ok)
             /\ jobs[w.run].state \in
                   IF ok THEN {"succeeded", "gone"} ELSE {"failed", "none", "gone"}
      BY <2>6 DEF WaitReturns, Ended
    <3>2. PICK v : /\ watchers' = (watchers \ {w}) \cup {v}
                   /\ v.run = w.run /\ v.pc = "record" /\ v.ok = ok
      BY <3>1, WatchSame
    <3>3. QED  BY <2>6, <3>1, <3>2 DEF WaitReturns, OutcomeInv, OutcomeIsTheJobs, SawRight
  <2>7. CASE Record(w)
    <3> DEFINE status == IF w.ok THEN "succeeded" ELSE "failed"
    <3>1. /\ DOMAIN runs' = DOMAIN runs /\ runs'[w.run].status = status
          /\ \A n \in DOMAIN runs : n # w.run => runs'[n] = runs[n]
      BY <2>2, <2>7, FinishRow DEF Record, Ended
    <3>2. SawRight(w) /\ w.pc \in {"record", "gangRecord"} /\ w.ok \in BOOLEAN
      BY <2>7 DEF Record, OutcomeInv, RunTypeOK, WatcherType
    <3>3. QED  BY <2>7, <3>1, <3>2 DEF Record, OutcomeInv, OutcomeIsTheJobs, SawRight
  <2>8. QED  BY <2>1, <2>4, <2>5, <2>6, <2>7 DEF WatcherStep
<1>6. CASE Restart \/ Resumed \/ ListRunning
  BY <1>6 DEF Restart, Resumed, ListRunning, OutcomeInv, OutcomeIsTheJobs, SawRight
<1>7. CASE ResumeRun
  <2> DEFINE r == Oldest(todo)
  <2>1. r \in DOMAIN runs /\ UNCHANGED <<jobs, starters>>
    BY <1>7, ResumeEffect
  <2>2. CASE UNCHANGED watchers /\ \E status \in Ended :
               /\ FinishJobRun(r, status)
               /\ status = "succeeded" => jobs[r].state = "succeeded"
               /\ status = "failed" => jobs[r].state \in {"failed", "none", "gone"}
    <3>1. PICK status \in Ended :
               /\ FinishJobRun(r, status)
               /\ status = "succeeded" => jobs[r].state = "succeeded"
               /\ status = "failed" => jobs[r].state \in {"failed", "none", "gone"}
      BY <2>2
    <3>2. /\ DOMAIN runs' = DOMAIN runs /\ runs'[r].status = status
          /\ \A n \in DOMAIN runs : n # r => runs'[n] = runs[n]
      BY <2>1, <3>1, FinishRow
    <3> HIDE DEF r
    <3>3. QED  BY <2>1, <2>2, <3>1, <3>2 DEF OutcomeInv, OutcomeIsTheJobs, SawRight
  <2>3. CASE Attach(r, "resume") /\ UNCHANGED runs
    <3>1. PICK v : watchers' = watchers \cup {v} /\ v.pc \in {"gang", "wait"}
      BY <2>1, <2>3, WatcherFits DEF Attach
    <3>2. QED  BY <2>1, <2>3, <3>1 DEF OutcomeInv, OutcomeIsTheJobs, SawRight
  <2>4. CASE UNCHANGED <<runs, watchers>>
    BY <2>1, <2>4 DEF OutcomeInv, OutcomeIsTheJobs, SawRight
  <2>5. QED  BY <1>7, <2>2, <2>3, <2>4 DEF ResumeRun, Ended
<1>8. CASE Cluster
  <2>1. \A w \in watchers : w.run \in DOMAIN runs
    BY DEF RunTypeOK
  <2>2. starters \subseteq DOMAIN runs
    BY DEF RunTypeOK
  <2>3. QED
    BY <1>8, <2>1, <2>2, ClusterMoves DEF OutcomeInv, OutcomeIsTheJobs, SawRight, Ended
<1>9. CASE Crash
  BY <1>9 DEF Crash, OutcomeInv, OutcomeIsTheJobs
<1>10. QED
  BY <1>1, <1>2, <1>3, <1>4, <1>5, <1>6, <1>7, <1>8, <1>9 DEF RunNext, Requests, Startup

\* A row's outcome is its Job's, although it is written some calls after the
\* Job was read: when no deletion and no poll fails, no apply is done
\* and not answered, no Job outlives its watcher, and no request is served before startup has its list.
THEOREM OutcomeIsTheJobsAlways ==
    ASSUME ~ ServeEarly, Faults \cap {"answer", "delete", "read", "timeout"} = {}
    PROVE  RunSpec => []OutcomeIsTheJobs
<1>1. RunInit => OutcomeInv
  BY DEF RunInit, OutcomeInv, OutcomeIsTheJobs
<1>2. RunTypeOK /\ KeeperInv /\ OutcomeInv /\ [RunNext \/ Crash]_runVars => OutcomeInv'
  <2>1. ASSUME OutcomeInv, UNCHANGED runVars  PROVE OutcomeInv'
    BY <2>1 DEF runVars, OutcomeInv, OutcomeIsTheJobs, SawRight
  <2>2. QED  BY <2>1, OutcomeStep
<1>3. OutcomeInv => OutcomeIsTheJobs
  BY DEF OutcomeInv
<1>4. QED  BY <1>1, <1>2, <1>3, KeptAlways, PTL DEF RunSpec

================================
