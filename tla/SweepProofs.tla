------------------------------- MODULE SweepProofs ------------------------------
(***************************************************************************)
(* Proofs about module Sweep, for every value of its constants: its type   *)
(* invariant, that the rows of a sweep implement SweepPromise, that early  *)
(* stopping never stops the best, and that trials end as their runs.  All  *)
(* rest on one inductive invariant, about what the holder of the mutex may *)
(* rely on from step to step; the last on another, about the watchers too. *)
(***************************************************************************)
EXTENDS SweepProperties, RunProofs, FiniteSetTheorems

--------------------------------
\* Sets of trials.

LEMMA TrialSets ==
    ASSUME NEW S \in SUBSET TrialIds
    PROVE  S \in SUBSET Nat /\ IsFiniteSet(S) /\ Cardinality(S) \in Nat
<1>1. TrialIds \in SUBSET Nat /\ IsFiniteSet(TrialIds)
  BY SweepAssumption, FS_Interval DEF TrialIds
<1>2. IsFiniteSet(S)
  BY <1>1, FS_Subset
<1>3. QED  BY <1>1, <1>2, FS_CardinalityType

LEMMA OldestTrial ==
    ASSUME NEW S \in SUBSET TrialIds, S # {}
    PROVE  Oldest(S) \in S
  BY TrialSets, OldestExists DEF Oldest

\* The first n of a set are at most n: each has a rank below n of its own.
LEMMA FirstBound ==
    ASSUME NEW S \in SUBSET TrialIds, NEW n \in Nat
    PROVE  First(S, n) \in SUBSET S /\ Cardinality(First(S, n)) <= n
<1> DEFINE Below(k) == {j \in S : j < k}
           F == First(S, n)
           rank == [k \in F |-> Cardinality(Below(k))]
<1>1. F \in SUBSET S /\ F \in SUBSET TrialIds /\ S \in SUBSET Nat
  BY TrialSets DEF First
<1>2. IsFiniteSet(F) /\ Cardinality(F) \in Nat
  BY <1>1, TrialSets
<1>3. ASSUME NEW k \in S
      PROVE  IsFiniteSet(Below(k)) /\ Cardinality(Below(k)) \in Nat
  BY TrialSets
<1>4. \A k \in F : Cardinality(Below(k)) < n
  BY DEF First
<1>5. rank \in [F -> 0 .. (n - 1)]
  <2>1. ASSUME NEW k \in F  PROVE Cardinality(Below(k)) \in 0 .. (n - 1)
    <3>1. Cardinality(Below(k)) \in Nat /\ Cardinality(Below(k)) < n
      BY <1>1, <1>3, <1>4
    <3> HIDE DEF Below
    <3>2. QED  BY <3>1
  <2> HIDE DEF Below, F
  <2>2. QED  BY <2>1
<1>6. ASSUME NEW x \in S, NEW y \in S, x < y
      PROVE  Cardinality(Below(x)) # Cardinality(Below(y))
  <2>1. x \in Nat /\ y \in Nat /\ \A j \in S : j \in Nat
    BY <1>1
  <2>2. x \in Below(y) /\ x \notin Below(x)
    BY <1>6, <2>1
  <2>3. ASSUME NEW j \in Below(x)  PROVE j \in Below(y)
    <3>1. j \in S /\ j \in Nat /\ j < x
      BY <2>1
    <3>2. j < y
      BY <1>6, <2>1, <3>1
    <3>3. QED  BY <3>1, <3>2
  <2>4. IsFiniteSet(Below(y))
    BY <1>3
  <2> HIDE DEF Below
  <2>5. QED  BY <2>2, <2>3, <2>4, FS_Subset
<1>7. IsFiniteSet(0 .. (n - 1)) /\ Cardinality(0 .. (n - 1)) = n
  BY FS_Interval
<1>8. ASSUME Cardinality(F) > n  PROVE FALSE
  <2> HIDE DEF F, Below
  <2>1. PICK x, y \in F : x # y /\ rank[x] = rank[y]
    <3> HIDE DEF rank
    <3>1. QED  BY <1>2, <1>5, <1>7, <1>8, FS_PigeonHole
  <2>2. Cardinality(Below(x)) = Cardinality(Below(y))
    BY <2>1
  <2>3. x \in S /\ y \in S /\ (x < y \/ y < x)
    BY <1>1, <2>1
  <2>4. QED  BY <1>6, <2>2, <2>3
<1>9. QED  BY <1>1, <1>2, <1>8

LEMMA InTrials == \A s : In(s) \in SUBSET TrialIds
  BY DEF In

--------------------------------
\* What the statements of the store do to the trials.

TrialsOK == /\ trials \in [TrialIds -> TrialType]
            /\ \A k \in TrialIds : RunOf(k) \in DOMAIN runs \cup {0}

ReportOK == Reports \cup {NoReport}

LEMMA FinishTrialRows ==
    ASSUME TypeOK, NEW k \in TrialIds, NEW s \in TrialEnds, NEW o \in ReportOK,
           k \in In("running") \/ (k \in In("pending") /\ s = "failed"),
           FinishTrial(k, s, o)
    PROVE  /\ trials' \in [TrialIds -> TrialType]
           /\ trials'[k].state = s
           /\ \A j \in TrialIds : trials'[j].run = trials[j].run
           /\ \A j \in TrialIds : j # k => trials'[j].state = trials[j].state
           /\ In("running")' = In("running") \ {k}
           /\ In("pending")' = In("pending") \ {k}
<1>1. trials \in [TrialIds -> TrialType]
  BY DEF TypeOK
<1> DEFINE e == [trials[k] EXCEPT !.state = s, !.report = o]
<1>2. e \in TrialType /\ e.state = s /\ e.run = trials[k].run
  BY <1>1 DEF TrialType, ReportOK
<1>3. trials' = [trials EXCEPT ![k] = e]
  BY <1>1 DEF FinishTrial, In, TrialType
<1> HIDE DEF e
<1>4. /\ trials' \in [TrialIds -> TrialType]
      /\ trials'[k].state = s
      /\ \A j \in TrialIds : trials'[j].run = trials[j].run
      /\ \A j \in TrialIds : j # k => trials'[j].state = trials[j].state
  BY <1>1, <1>2, <1>3
<1>5. s \notin {"running", "pending"}
  BY DEF TrialEnds
<1>6. QED  BY <1>4, <1>5 DEF In

LEMMA MarkTrialRows ==
    ASSUME TypeOK, NEW k \in In("pending"), NEW r \in DOMAIN runs, MarkTrialLaunched(k, r)
    PROVE  /\ trials' \in [TrialIds -> TrialType]
           /\ trials'[k].state = "running" /\ trials'[k].run = r
           /\ \A j \in TrialIds : j # k => trials'[j] = trials[j]
           /\ In("running")' = In("running") \cup {k}
           /\ In("pending")' = In("pending") \ {k}
<1>1. trials \in [TrialIds -> TrialType] /\ k \in TrialIds /\ r \in Nat
  BY Rows DEF TypeOK, In
<1> DEFINE e == [trials[k] EXCEPT !.state = "running", !.run = r]
<1>2. e \in TrialType /\ e.state = "running" /\ e.run = r
  BY <1>1 DEF TrialType
<1>3. trials' = [trials EXCEPT ![k] = e]
  BY <1>1 DEF MarkTrialLaunched, In, TrialType
<1> HIDE DEF e
<1>4. /\ trials' \in [TrialIds -> TrialType]
      /\ trials'[k].state = "running" /\ trials'[k].run = r
      /\ \A j \in TrialIds : j # k => trials'[j] = trials[j]
  BY <1>1, <1>2, <1>3
<1>5. QED  BY <1>1, <1>4 DEF In

LEMMA ObservedOK ==
    ASSUME RunTypeOK, NEW r \in DOMAIN runs
    PROVE  Observed(r) \subseteq ReportOK
  BY Rows DEF Observed, JobType, ReportOK

--------------------------------
\* What the holder of the mutex may rely on: nobody else touches the sweep
\* or its trials, so what it read of them is still so.

HolderShape ==
    /\ holder.op = "none" => holder = Free
    /\ holder.op # "none" => sweep = "running" /\ holder.pc # "idle"
    /\ holder.pc \in {"scan", "orphan"} =>
          holder.launch = {} /\ holder.prune = {} /\ ~ holder.finish
    /\ holder.pc \notin {"scan", "orphan"} => holder.scan = {}
    /\ holder.pc \in {"apply", "mark", "markFailed"} =>
          holder.op = "tick" /\ holder.launch # {}
    /\ holder.pc \in {"pruneRun", "pruneTrial"} => holder.prune # {} /\ holder.launch = {}
    /\ holder.pc = "orphan" => holder.scan # {}

HolderSets ==
    /\ holder.scan \subseteq In("running") /\ holder.prune \subseteq In("running")
    /\ holder.launch \subseteq In("pending")
    /\ Cardinality(In("running")) + Cardinality(holder.launch) <= Parallel
    /\ holder.op = "stop" => /\ In("running") \subseteq holder.prune
                             /\ holder.launch = {} /\ ~ holder.finish
    /\ holder.finish => In("running") = {} /\ In("pending") = {}

RunningHaveRuns == \A k \in In("running") : RunOf(k) \in DOMAIN runs

HolderInv == HolderShape /\ HolderSets /\ RunningHaveRuns

SweepInv == TypeOK /\ HolderInv

HolderOK == /\ holder \in HolderType
            /\ holder.pc \in {"apply", "mark"} => holder.run \in DOMAIN runs

LEMMA InvFromGroups ==
    ASSUME RunTypeOK', sweep' \in SweepStates, TrialsOK', HolderOK',
           HolderShape', HolderSets', RunningHaveRuns'
    PROVE  SweepInv'
  BY DEF SweepInv, TypeOK, TrialsOK, HolderOK, HolderInv

\* A step that leaves the trials alone.
LEMMA SameTrials ==
    ASSUME SweepInv, UNCHANGED trials, DOMAIN runs \subseteq DOMAIN runs'
    PROVE  /\ TrialsOK' /\ RunningHaveRuns'
           /\ In("running")' = In("running") /\ In("pending")' = In("pending")
<1>1. In("running")' = In("running") /\ In("pending")' = In("pending")
  BY DEF In
<1>2. QED  BY <1>1 DEF SweepInv, TypeOK, TrialsOK, HolderInv, RunningHaveRuns, RunOf

\* A step that leaves the trials and the holder alone.
LEMMA SameHolder ==
    ASSUME SweepInv, UNCHANGED <<trials, holder, sweep>>, DOMAIN runs \subseteq DOMAIN runs',
           RunTypeOK'
    PROVE  SweepInv'
<1>1. /\ TrialsOK' /\ RunningHaveRuns'
      /\ In("running")' = In("running") /\ In("pending")' = In("pending")
  BY SameTrials
<1>2. HolderShape' /\ HolderSets'
  BY <1>1 DEF SweepInv, HolderInv, HolderShape, HolderSets
<1>3. HolderOK' /\ sweep' \in SweepStates
  BY DEF SweepInv, TypeOK, HolderOK
<1>4. QED  BY <1>1, <1>2, <1>3, InvFromGroups

\* A trial ends.
LEMMA OneTrialEnds ==
    ASSUME SweepInv, NEW k \in TrialIds, NEW s \in TrialEnds, NEW o \in ReportOK,
           k \in In("running") \/ (k \in In("pending") /\ s = "failed"),
           FinishTrial(k, s, o), UNCHANGED runs
    PROVE  /\ TrialsOK' /\ RunningHaveRuns'
           /\ In("running")' = In("running") \ {k}
           /\ In("pending")' = In("pending") \ {k}
           /\ Cardinality(In("running")') \in Nat
           /\ Cardinality(In("running")') <= Cardinality(In("running"))
<1>1. /\ trials' \in [TrialIds -> TrialType]
      /\ \A j \in TrialIds : trials'[j].run = trials[j].run
      /\ In("running")' = In("running") \ {k}
      /\ In("pending")' = In("pending") \ {k}
  BY FinishTrialRows DEF SweepInv
<1>2. /\ IsFiniteSet(In("running")) /\ In("running") \ {k} \in SUBSET In("running")
      /\ In("running") \ {k} \in SUBSET TrialIds
  BY InTrials, TrialSets
<1>3. /\ Cardinality(In("running") \ {k}) \in Nat
      /\ Cardinality(In("running") \ {k}) <= Cardinality(In("running"))
  BY <1>2, FS_Subset, TrialSets
<1>4. QED
  BY <1>1, <1>3 DEF SweepInv, TypeOK, TrialsOK, HolderInv, RunningHaveRuns, RunOf, In

\* The sets of the holder while it goes through the running trials.
LEMMA Scanning ==
    ASSUME SweepInv, holder.pc \in {"scan", "orphan"}, holder.scan # {}
    PROVE  /\ Oldest(holder.scan) \in holder.scan
           /\ Oldest(holder.scan) \in TrialIds /\ Oldest(holder.scan) \in In("running")
           /\ RunOf(Oldest(holder.scan)) \in DOMAIN runs
           /\ holder.launch = {} /\ holder.prune = {} /\ ~ holder.finish
<1>1. holder.scan \in SUBSET TrialIds /\ holder.scan \subseteq In("running")
  BY DEF SweepInv, TypeOK, HolderInv, HolderSets, HolderType
<1>2. Oldest(holder.scan) \in holder.scan
  BY <1>1, OldestTrial
<1>3. QED
  BY <1>1, <1>2 DEF SweepInv, HolderInv, HolderShape, RunningHaveRuns

LEMMA HarvestIsFinish ==
    ASSUME RunTypeOK, NEW k \in TrialIds, RunOf(k) \in DOMAIN runs, Harvest(k)
    PROVE  \E s \in {"done", "failed"}, o \in ReportOK : FinishTrial(k, s, o)
  BY ObservedOK DEF Harvest

--------------------------------
\* The invariant is inductive.

LEMMA NoneCard == Cardinality({}) = 0
  BY FS_EmptySet

LEMMA FreeOK == Free \in HolderType /\ Free.op = "none" /\ Free.pc = "idle"
                /\ Free.scan = {} /\ Free.launch = {} /\ Free.prune = {} /\ ~ Free.finish
  BY DEF Free, HolderType, NoViews

\* Whoever held the mutex has let it go.
LEMMA HolderEnds ==
    ASSUME SweepInv, RunTypeOK', UNCHANGED trials, DOMAIN runs \subseteq DOMAIN runs',
           sweep' \in SweepStates, holder' = Free
    PROVE  SweepInv'
<1>1. /\ TrialsOK' /\ RunningHaveRuns'
      /\ In("running")' = In("running") /\ In("pending")' = In("pending")
  BY SameTrials
<1>2. HolderOK' /\ HolderShape'
  BY FreeOK DEF HolderOK, HolderShape
<1>3. Cardinality(In("running")) <= Parallel
  <2>1. /\ Cardinality(In("running")) \in Nat /\ Cardinality(holder.launch) \in Nat
        /\ Cardinality(In("running")) + Cardinality(holder.launch) <= Parallel
    BY InTrials, TrialSets DEF SweepInv, TypeOK, HolderInv, HolderSets, HolderType
  <2>2. QED  BY <2>1, SweepAssumption
<1>4. HolderSets'
  BY <1>1, <1>3, FreeOK, NoneCard, InTrials, TrialSets DEF HolderSets
<1>5. QED  BY <1>1, <1>2, <1>4, InvFromGroups

\* The mutex is taken.
LEMMA TakeOK ==
    ASSUME SweepInv, NEW op \in {"tick", "stop", "reconcile"}, NEW pc \in {"scan", "act"},
           NEW scan \in SUBSET TrialIds, NEW prune \in SUBSET TrialIds,
           scan \subseteq In("running"), prune \subseteq In("running"),
           pc = "scan" => prune = {}, pc = "act" => scan = {},
           op = "stop" => prune = In("running"),
           Take(op, pc, scan, prune)
    PROVE  SweepInv'
<1>1. /\ TrialsOK' /\ RunningHaveRuns' /\ RunTypeOK' /\ sweep' \in SweepStates
      /\ In("running")' = In("running") /\ In("pending")' = In("pending")
  BY SameTrials DEF Take, SweepInv, TypeOK, RunTypeOK, runVars
<1>2. /\ holder' \in HolderType /\ holder'.op = op /\ holder'.pc = pc
      /\ holder'.scan = scan /\ holder'.prune = prune /\ holder'.launch = {}
      /\ ~ holder'.finish
  BY FreeOK DEF Take, HolderType, Free
<1>3. holder = Free /\ UNCHANGED sweep /\ sweep = "running"
  BY DEF Take
<1>4. HolderOK' /\ HolderShape'
  BY <1>2, <1>3 DEF HolderOK, HolderShape
<1>5. HolderSets'
  BY <1>1, <1>2, <1>3, FreeOK DEF HolderSets, SweepInv, HolderInv
<1>6. QED  BY <1>1, <1>4, <1>5, InvFromGroups

LEMMA BeginsOK ==
    ASSUME SweepInv, TickBegins \/ StopBegins \/ ReconcileBegins
    PROVE  SweepInv'
<1>1. In("running") \in SUBSET TrialIds
  BY InTrials
<1>2. CASE TickBegins
  BY <1>1, <1>2, TakeOK DEF TickBegins
<1>3. CASE StopBegins
  BY <1>1, <1>3, TakeOK DEF StopBegins
<1>4. CASE ReconcileBegins
  BY <1>1, <1>4, TakeOK DEF ReconcileBegins
<1>5. QED  BY <1>2, <1>3, <1>4

\* The holder has looked at one more of the running trials.
LEMMA ScanMoves ==
    ASSUME SweepInv, holder.pc \in {"scan", "orphan"}, UNCHANGED sweep, NEW k,
           holder' \in HolderType, holder'.op = holder.op, holder'.pc = "scan",
           holder'.scan = holder.scan \ {k}, holder'.launch = holder.launch,
           holder'.prune = holder.prune, holder'.finish = holder.finish,
           RunTypeOK', TrialsOK', RunningHaveRuns',
           In("running") \ {k} \subseteq In("running")', In("running")' \subseteq In("running"),
           Cardinality(In("running")') \in Nat,
           Cardinality(In("running")') <= Cardinality(In("running"))
    PROVE  SweepInv'
<1>1. holder.op # "none" /\ sweep = "running"
  BY FreeOK DEF SweepInv, HolderInv, HolderShape
<1>2. holder.launch = {} /\ holder.prune = {} /\ ~ holder.finish
  BY DEF SweepInv, HolderInv, HolderShape
<1>3. HolderOK' /\ HolderShape' /\ sweep' \in SweepStates
  BY <1>1, <1>2 DEF HolderOK, HolderShape, SweepStates
<1>4. HolderSets'
  <2>1. Cardinality(In("running")) \in Nat
    BY InTrials, TrialSets
  <2>2. Cardinality(In("running")') + Cardinality(holder'.launch) <= Parallel
    BY <1>2, <2>1, NoneCard, SweepAssumption DEF SweepInv, HolderInv, HolderSets
  <2>3. QED  BY <1>2, <2>2 DEF HolderSets, SweepInv, HolderInv
<1>5. QED  BY <1>3, <1>4, InvFromGroups

LEMMA ScanTrialOK ==
    ASSUME SweepInv, ScanTrial
    PROVE  SweepInv'
<1> DEFINE k == Oldest(holder.scan)
<1>1. /\ k \in TrialIds /\ k \in In("running") /\ RunOf(k) \in DOMAIN runs
      /\ holder.pc = "scan" /\ holder.scan # {} /\ holder \in HolderType
      /\ RunTypeOK
  BY Scanning DEF ScanTrial, Doing, SweepInv, TypeOK
<1>2. UNCHANGED <<sweep, runs>> /\ RunTypeOK'
  BY <1>1 DEF ScanTrial, runVars, RunTypeOK
<1>3. CASE /\ UNCHANGED trials
           /\ \E o \in ReportOK :
                 holder' = [holder EXCEPT !.scan = @ \ {k}, !.view[k] = o]
  <2>1. /\ holder' \in HolderType /\ holder'.op = holder.op /\ holder'.pc = "scan"
        /\ holder'.scan = holder.scan \ {k} /\ holder'.launch = holder.launch
        /\ holder'.prune = holder.prune /\ holder'.finish = holder.finish
    <3>1. PICK o \in ReportOK : holder' = [holder EXCEPT !.scan = @ \ {k}, !.view[k] = o]
      BY <1>3
    <3> HIDE DEF k
    <3>2. QED  BY <1>1, <3>1 DEF HolderType, ReportOK
  <2>2. TrialsOK' /\ RunningHaveRuns' /\ In("running")' = In("running")
    BY <1>2, <1>3, SameTrials
  <2>3. Cardinality(In("running")) \in Nat
    BY InTrials, TrialSets
  <2> HIDE DEF k
  <2>4. QED  BY <1>1, <1>2, <2>1, <2>2, <2>3, ScanMoves
<1>4. CASE Harvest(k) /\ holder' = [holder EXCEPT !.scan = @ \ {k}]
  <2>1. /\ holder' \in HolderType /\ holder'.op = holder.op /\ holder'.pc = "scan"
        /\ holder'.scan = holder.scan \ {k} /\ holder'.launch = holder.launch
        /\ holder'.prune = holder.prune /\ holder'.finish = holder.finish
    <3> HIDE DEF k
    <3>1. QED  BY <1>1, <1>4 DEF HolderType
  <2> HIDE DEF k
  <2>2. PICK s \in {"done", "failed"}, o \in ReportOK : FinishTrial(k, s, o)
    BY <1>1, <1>4, HarvestIsFinish
  <2>3. /\ TrialsOK' /\ RunningHaveRuns' /\ In("running")' = In("running") \ {k}
        /\ Cardinality(In("running")') \in Nat
        /\ Cardinality(In("running")') <= Cardinality(In("running"))
    BY <1>1, <1>2, <2>2, OneTrialEnds DEF TrialEnds
  <2>4. QED  BY <1>1, <1>2, <2>1, <2>3, ScanMoves
<1>5. Observed(RunOf(k)) \subseteq ReportOK /\ NoReport \in ReportOK
  BY <1>1, ObservedOK DEF ReportOK
<1>6. \/ /\ UNCHANGED trials
         /\ \E o \in ReportOK :
               holder' = [holder EXCEPT !.scan = @ \ {k}, !.view[k] = o]
      \/ Harvest(k) /\ holder' = [holder EXCEPT !.scan = @ \ {k}]
  <2>1. \/ /\ \E o \in IF EarlyStop THEN Observed(RunOf(k)) ELSE {NoReport} :
                 holder' = [holder EXCEPT !.scan = @ \ {k}, !.view[k] = o]
           /\ UNCHANGED trials
        \/ Harvest(k) /\ holder' = [holder EXCEPT !.scan = @ \ {k}]
    BY DEF ScanTrial
  <2>2. (IF EarlyStop THEN Observed(RunOf(k)) ELSE {NoReport}) \subseteq ReportOK
    BY <1>5
  <2> HIDE DEF k
  <2>3. QED  BY <2>1, <2>2
<1>7. QED  BY <1>3, <1>4, <1>6

LEMMA DecideOK ==
    ASSUME SweepInv, Decide
    PROVE  SweepInv'
<1>1. /\ holder \in HolderType /\ holder.op = "tick" /\ holder.scan = {}
      /\ sweep = "running" /\ UNCHANGED <<sweep, trials, runs>>
      /\ RunTypeOK' /\ sweep' \in SweepStates
  BY DEF Decide, Doing, SweepInv, TypeOK, HolderInv, HolderShape, runVars, RunTypeOK
<1>2. /\ TrialsOK' /\ RunningHaveRuns'
      /\ In("running")' = In("running") /\ In("pending")' = In("pending")
  BY <1>1, SameTrials
<1>3. In("pending") \in SUBSET TrialIds /\ In("running") \in SUBSET TrialIds
  BY InTrials
<1>4. Cardinality(In("running")) \in Nat /\ Parallel \in Nat
  BY <1>3, TrialSets, SweepAssumption
<1>5. /\ ToLaunch \subseteq In("pending")
      /\ Cardinality(In("running")) + Cardinality(ToLaunch) <= Parallel
  <2>1. CASE Cardinality(In("running")) < Parallel
    <3>1. Parallel - Cardinality(In("running")) \in Nat
      BY <1>4, <2>1
    <3>2. ToLaunch = First(In("pending"), Parallel - Cardinality(In("running")))
      BY <2>1 DEF ToLaunch
    <3>3. /\ ToLaunch \in SUBSET In("pending")
          /\ Cardinality(ToLaunch) <= Parallel - Cardinality(In("running"))
      BY <1>3, <3>1, <3>2, FirstBound
    <3>4. Cardinality(ToLaunch) \in Nat
      BY <1>3, <3>3, TrialSets
    <3>5. QED  BY <1>4, <3>3, <3>4
  <2>2. CASE ~ (Cardinality(In("running")) < Parallel)
    <3>1. ToLaunch = {}
      BY <2>2 DEF ToLaunch
    <3>2. Cardinality(In("running")) <= Parallel
      <4>1. Cardinality(holder.launch) \in Nat
        BY <1>1, TrialSets DEF HolderType
      <4>2. Cardinality(In("running")) + Cardinality(holder.launch) <= Parallel
        BY DEF SweepInv, HolderInv, HolderSets
      <4>3. QED  BY <1>4, <4>1, <4>2
    <3>3. QED  BY <1>4, <3>1, <3>2, NoneCard
  <2>3. QED  BY <2>1, <2>2
<1>6. ToPrune(holder.view) \subseteq In("running") /\ Drained \in BOOLEAN
  BY DEF ToPrune, Drained
<1>7. Drained => In("running") = {} /\ In("pending") = {}
  BY DEF Drained
<1>8. /\ holder' \in HolderType /\ holder'.op = "tick" /\ holder'.pc = "act"
      /\ holder'.scan = {} /\ holder'.launch = ToLaunch
      /\ holder'.prune = ToPrune(holder.view) /\ holder'.finish = Drained
  BY <1>1, <1>3, <1>5, <1>6 DEF Decide, HolderType
<1>9. HolderOK' /\ HolderShape'
  BY <1>1, <1>8 DEF HolderOK, HolderShape
<1>10. HolderSets'
  BY <1>2, <1>5, <1>6, <1>7, <1>8 DEF HolderSets
<1>11. QED  BY <1>1, <1>2, <1>9, <1>10, InvFromGroups

\* A statement that ends a run.
LEMMA FinishRunOK ==
    ASSUME RunTypeOK, NEW r \in DOMAIN runs, NEW status \in Ended, FinishJobRun(r, status),
           UNCHANGED jobs \/ ApplyFails(r),
           UNCHANGED <<watchers, starters, todo, mode, live, used>>
    PROVE  RunTypeOK' /\ DOMAIN runs' = DOMAIN runs
<1>1. runs' \in Seq(RowType) /\ Len(runs') = Len(runs) /\ DOMAIN runs' = DOMAIN runs
  BY FinishRow
<1>2. jobs' \in Seq(JobType) /\ Len(jobs') = Len(jobs)
  BY ApplyFailsRow DEF RunTypeOK
<1>3. QED  BY <1>1, <1>2 DEF RunTypeOK

LEMMA ReconcileOK ==
    ASSUME SweepInv, ReconcileTrial \/ ReconcileOrphan \/ ReconcileFails \/ ReconcileEnds
    PROVE  SweepInv'
<1>1. RunTypeOK /\ holder \in HolderType /\ sweep \in SweepStates /\ "failed" \in Ended
  BY DEF SweepInv, TypeOK, Ended
<1>2. CASE ReconcileEnds
  <2>1. RunTypeOK' /\ UNCHANGED <<runs, trials, sweep>> /\ holder' = Free
    BY <1>1, <1>2 DEF ReconcileEnds, RunTypeOK, Modes
  <2>2. QED  BY <1>1, <2>1, HolderEnds
<1> DEFINE k == Oldest(holder.scan)
<1>3. ASSUME ReconcileTrial \/ ReconcileFails
      PROVE  SweepInv'
  <2>1. holder.pc \in {"scan", "orphan"} /\ holder.scan # {}
    BY <1>3 DEF ReconcileTrial, ReconcileFails, Doing, SweepInv, HolderInv, HolderShape
  <2>2. k \in TrialIds /\ k \in In("running") /\ RunOf(k) \in DOMAIN runs
    BY <2>1, Scanning
  <2>3. UNCHANGED <<sweep, runs>> /\ RunTypeOK' /\ Reconciled(k)
    BY <1>1, <1>3 DEF ReconcileTrial, ReconcileFails, runVars, RunTypeOK
  <2>4. /\ holder' \in HolderType /\ holder'.op = holder.op /\ holder'.pc = "scan"
        /\ holder'.scan = holder.scan \ {k} /\ holder'.launch = holder.launch
        /\ holder'.prune = holder.prune /\ holder'.finish = holder.finish
    <3> HIDE DEF k
    <3>1. QED  BY <1>1, <2>3 DEF Reconciled, HolderType
  <2>5. Harvest(k) \/ UNCHANGED trials \/ FinishTrial(k, "failed", NoReport)
    BY <1>3 DEF ReconcileTrial, ReconcileFails
  <2> HIDE DEF k
  <2>6. CASE UNCHANGED trials
    <3>1. TrialsOK' /\ RunningHaveRuns' /\ In("running")' = In("running")
      BY <2>3, <2>6, SameTrials
    <3>2. Cardinality(In("running")) \in Nat
      BY InTrials, TrialSets
    <3>3. QED  BY <2>1, <2>3, <2>4, <3>1, <3>2, ScanMoves
  <2>7. CASE \E s \in {"done", "failed"}, o \in ReportOK : FinishTrial(k, s, o)
    <3>1. PICK s \in {"done", "failed"}, o \in ReportOK : FinishTrial(k, s, o)
      BY <2>7
    <3>2. /\ TrialsOK' /\ RunningHaveRuns' /\ In("running")' = In("running") \ {k}
          /\ Cardinality(In("running")') \in Nat
          /\ Cardinality(In("running")') <= Cardinality(In("running"))
      BY <2>2, <2>3, <3>1, OneTrialEnds DEF TrialEnds
    <3>3. QED  BY <2>1, <2>3, <2>4, <3>2, ScanMoves
  <2>8. NoReport \in ReportOK
    BY DEF ReportOK
  <2>9. QED  BY <1>1, <2>2, <2>5, <2>6, <2>7, <2>8, HarvestIsFinish
<1>4. CASE ReconcileOrphan
  <2>1. /\ RunOf(k) \in DOMAIN runs
        /\ holder.launch = {} /\ holder.prune = {} /\ ~ holder.finish
    BY <1>4, Scanning DEF ReconcileOrphan, Doing
  <2>2. FinishJobRun(RunOf(k), "failed") /\ UNCHANGED <<sweep, trials>>
    BY <1>4 DEF ReconcileOrphan
  <2>3. /\ holder.scan # {} /\ holder.op = "reconcile"
        /\ holder' = [holder EXCEPT !.pc = "orphan"]
        /\ UNCHANGED <<jobs, watchers, starters, todo, mode, live, used>>
    BY <1>4 DEF ReconcileOrphan, Doing
  <2> HIDE DEF k
  <2>4. RunTypeOK' /\ DOMAIN runs' = DOMAIN runs
    BY <1>1, <2>1, <2>2, <2>3, FinishRunOK
  <2>5. /\ holder' \in HolderType /\ holder'.op = "reconcile" /\ holder'.pc = "orphan"
        /\ holder'.scan = holder.scan /\ holder'.launch = {} /\ holder'.prune = {}
        /\ ~ holder'.finish
    BY <1>1, <2>1, <2>3 DEF HolderType
  <2>6. TrialsOK' /\ RunningHaveRuns' /\ In("running")' = In("running")
        /\ In("pending")' = In("pending")
    BY <2>2, <2>4, SameTrials
  <2>7. HolderOK' /\ HolderShape'
    BY <2>2, <2>3, <2>5 DEF HolderOK, HolderShape, SweepInv, HolderInv
  <2>8. HolderSets'
    BY <2>1, <2>3, <2>5, <2>6 DEF HolderSets, SweepInv, HolderInv
  <2>9. QED  BY <1>1, <2>2, <2>4, <2>6, <2>7, <2>8, InvFromGroups
<1>5. QED  BY <1>2, <1>3, <1>4

\* The trial the holder is launching, and what is left when it is through.
LEMMA LaunchFacts ==
    ASSUME SweepInv, holder.op = "tick", holder.launch # {}
    PROVE  /\ Launching \in holder.launch /\ Launching \in TrialIds
           /\ Launching \in In("pending") /\ Launching \notin In("running")
           /\ holder.scan = {} /\ ~ holder.finish
           /\ sweep = "running" /\ holder \in HolderType /\ RunTypeOK
           /\ Cardinality(holder.launch \ {Launching}) \in Nat
           /\ Cardinality(In("running")) \in Nat
           /\ Cardinality(In("running")) + Cardinality(holder.launch \ {Launching}) + 1 <= Parallel
<1>1. /\ holder \in HolderType /\ holder.launch \in SUBSET TrialIds
      /\ holder.launch \subseteq In("pending") /\ RunTypeOK
  BY DEF SweepInv, TypeOK, HolderType, HolderInv, HolderSets
<1>2. Launching \in holder.launch
  BY <1>1, OldestTrial DEF Launching
<1>3. Launching \in In("pending") /\ Launching \notin In("running") /\ Launching \in TrialIds
  BY <1>1, <1>2 DEF In
<1>4. sweep = "running" /\ holder.scan = {} /\ ~ holder.finish
  BY <1>2, <1>3 DEF SweepInv, HolderInv, HolderShape, HolderSets
<1>5. /\ IsFiniteSet(holder.launch) /\ Cardinality(holder.launch) \in Nat
      /\ Cardinality(In("running")) \in Nat
      /\ Cardinality(holder.launch \ {Launching}) \in Nat
  BY <1>1, TrialSets, InTrials
<1>6. Cardinality(holder.launch \ {Launching}) = Cardinality(holder.launch) - 1
  BY <1>2, <1>5, FS_RemoveElement
<1>7. Cardinality(In("running")) + Cardinality(holder.launch) <= Parallel
  BY DEF SweepInv, HolderInv, HolderSets
<1>8. QED
  BY <1>1, <1>2, <1>3, <1>4, <1>5, <1>6, <1>7, SweepAssumption

\* A step of a launch that leaves the trials alone.
LEMMA LaunchGoesOn ==
    ASSUME SweepInv, holder.op = "tick", holder.launch # {}, UNCHANGED <<trials, sweep>>,
           DOMAIN runs \subseteq DOMAIN runs', RunTypeOK',
           holder' \in HolderType, holder'.op = holder.op,
           holder'.pc \in {"apply", "mark", "markFailed"},
           holder'.scan = holder.scan, holder'.launch = holder.launch,
           holder'.prune = holder.prune, holder'.finish = holder.finish,
           holder'.run \in DOMAIN runs' \/ holder'.pc = "markFailed"
    PROVE  SweepInv'
<1>1. holder.scan = {} /\ ~ holder.finish /\ sweep = "running"
  BY LaunchFacts
<1>2. TrialsOK' /\ RunningHaveRuns' /\ In("running")' = In("running")
      /\ In("pending")' = In("pending")
  BY SameTrials
<1>3. HolderOK' /\ HolderShape' /\ sweep' \in SweepStates
  BY <1>1 DEF HolderOK, HolderShape, SweepStates
<1>4. HolderSets'
  BY <1>1, <1>2 DEF HolderSets, SweepInv, HolderInv
<1>5. QED  BY <1>2, <1>3, <1>4, InvFromGroups

\* A launch is through.
LEMMA LaunchThrough ==
    ASSUME SweepInv, holder.op = "tick", holder.launch # {}, UNCHANGED sweep,
           RunTypeOK', TrialsOK', RunningHaveRuns',
           holder' \in HolderType, holder'.op = holder.op, holder'.pc = "act",
           holder'.scan = holder.scan, holder'.launch = holder.launch \ {Launching},
           holder'.prune = holder.prune, holder'.finish = holder.finish,
           In("running") \subseteq In("running")',
           In("pending") \ {Launching} \subseteq In("pending")',
           Cardinality(In("running")') \in Nat,
           Cardinality(In("running")') <= Cardinality(In("running")) + 1
    PROVE  SweepInv'
<1>1. /\ holder.scan = {} /\ ~ holder.finish /\ sweep = "running"
      /\ Cardinality(holder.launch \ {Launching}) \in Nat
      /\ Cardinality(In("running")) \in Nat
      /\ Cardinality(In("running")) + Cardinality(holder.launch \ {Launching}) + 1 <= Parallel
  BY LaunchFacts
<1>2. HolderOK' /\ HolderShape' /\ sweep' \in SweepStates
  BY <1>1 DEF HolderOK, HolderShape, SweepStates
<1>3. Cardinality(In("running")') + Cardinality(holder'.launch) <= Parallel
  BY <1>1, SweepAssumption
<1>4. holder.prune \subseteq In("running") /\ holder.launch \subseteq In("pending")
  BY DEF SweepInv, HolderInv, HolderSets
<1>5. HolderSets'
  BY <1>1, <1>3, <1>4 DEF HolderSets
<1>6. QED  BY <1>2, <1>5, InvFromGroups

LEMMA LaunchStartsOK ==
    ASSUME SweepInv, LaunchCreates \/ LaunchApplies \/ LaunchFails
    PROVE  SweepInv'
<1>1. /\ holder.op = "tick" /\ holder.launch # {} /\ holder \in HolderType /\ RunTypeOK
      /\ holder.pc = "apply" => holder.run \in DOMAIN runs
      /\ DOMAIN runs \in SUBSET Nat /\ UNCHANGED <<trials, sweep>>
  BY Rows DEF LaunchCreates, LaunchApplies, LaunchFails, Doing, SweepInv, TypeOK,
              HolderInv, HolderShape
<1>2. CASE LaunchCreates
  <2>1. Launching \in Nat /\ SweepNodes \in Nat \ {0} /\ Len(runs) \in Nat
    BY <1>1, LaunchFacts, SweepAssumption, Rows DEF TrialIds
  <2>2. /\ CreateJobRun(Launching, SweepNodes)
        /\ UNCHANGED <<watchers, starters, todo, mode, live, used>>
        /\ holder' = [holder EXCEPT !.pc = "apply", !.run = Len(runs) + 1]
    BY <1>2 DEF LaunchCreates
  <2>3. RowsOK' /\ DOMAIN runs' = DOMAIN runs \cup {Len(runs) + 1}
    BY <1>1, <2>1, <2>2, CreateRows DEF RowsOK
  <2>4. RunTypeOK'
    BY <1>1, <2>2, <2>3 DEF RunTypeOK, RowsOK
  <2>5. /\ holder' \in HolderType /\ holder'.op = holder.op /\ holder'.pc = "apply"
        /\ holder'.scan = holder.scan /\ holder'.launch = holder.launch
        /\ holder'.prune = holder.prune /\ holder'.finish = holder.finish
        /\ holder'.run = Len(runs) + 1
    <3> DEFINE n == Len(runs) + 1
    <3>1. n \in Nat /\ holder' = [holder EXCEPT !.pc = "apply", !.run = n]
      BY <2>1, <2>2
    <3> HIDE DEF n
    <3>2. /\ holder' \in HolderType /\ holder'.op = holder.op /\ holder'.pc = "apply"
          /\ holder'.scan = holder.scan /\ holder'.launch = holder.launch
          /\ holder'.prune = holder.prune /\ holder'.finish = holder.finish
          /\ holder'.run = n
      BY <1>1, <3>1 DEF HolderType
    <3>3. QED  BY <3>2 DEF n
  <2>6. QED  BY <1>1, <2>3, <2>4, <2>5, LaunchGoesOn
<1>3. CASE LaunchApplies
  <2>1. /\ holder.run \in DOMAIN runs /\ ApplyRun(holder.run)
        /\ UNCHANGED <<runs, starters, todo, mode, live, used>>
        /\ holder' = [holder EXCEPT !.pc = "mark"]
    BY <1>1, <1>3 DEF LaunchApplies, Doing
  <2>2. RowsOK' /\ \A w \in watchers' : w \in WatcherType /\ w.run \in DOMAIN runs
    BY <1>1, <2>1, ApplyRunOK
  <2>3. RunTypeOK'
    BY <1>1, <2>1, <2>2 DEF RunTypeOK, RowsOK
  <2>4. /\ holder' \in HolderType /\ holder'.op = holder.op /\ holder'.pc = "mark"
        /\ holder'.scan = holder.scan /\ holder'.launch = holder.launch
        /\ holder'.prune = holder.prune /\ holder'.finish = holder.finish
        /\ holder'.run = holder.run
    BY <1>1, <2>1 DEF HolderType
  <2>5. QED  BY <1>1, <2>1, <2>3, <2>4, LaunchGoesOn
<1>4. CASE LaunchFails
  <2>1. /\ holder.run \in DOMAIN runs /\ FinishJobRun(holder.run, "failed")
        /\ ApplyFails(holder.run)
        /\ UNCHANGED <<watchers, starters, todo, mode, live, used>>
        /\ holder' = [holder EXCEPT !.pc = "markFailed"]
    BY <1>1, <1>4 DEF LaunchFails, Doing
  <2>2. RunTypeOK' /\ DOMAIN runs' = DOMAIN runs
    BY <1>1, <2>1, FinishRunOK DEF Ended
  <2>3. /\ holder' \in HolderType /\ holder'.op = holder.op /\ holder'.pc = "markFailed"
        /\ holder'.scan = holder.scan /\ holder'.launch = holder.launch
        /\ holder'.prune = holder.prune /\ holder'.finish = holder.finish
    BY <1>1, <2>1 DEF HolderType
  <2>4. QED  BY <1>1, <2>2, <2>3, LaunchGoesOn
<1>5. QED  BY <1>2, <1>3, <1>4

LEMMA LaunchEndsOK ==
    ASSUME SweepInv, LaunchRefused \/ LaunchMarks \/ LaunchMarksFailed
    PROVE  SweepInv'
<1>1. /\ holder.op = "tick" /\ holder.launch # {} /\ UNCHANGED <<runs, sweep>>
      /\ RunTypeOK' /\ NoReport \in ReportOK
  BY DEF LaunchRefused, LaunchMarks, LaunchMarksFailed, Doing, SweepInv, TypeOK, HolderInv,
         HolderShape, runVars, RunTypeOK, ReportOK
<1>2. /\ Launching \in TrialIds /\ Launching \in In("pending")
      /\ Launching \notin In("running") /\ holder \in HolderType
      /\ holder.launch \ {Launching} \in SUBSET TrialIds
  BY <1>1, LaunchFacts DEF HolderType
<1>3. /\ holder' \in HolderType /\ holder'.op = holder.op /\ holder'.pc = "act"
      /\ holder'.scan = holder.scan /\ holder'.launch = holder.launch \ {Launching}
      /\ holder'.prune = holder.prune /\ holder'.finish = holder.finish
  <2>1. \/ holder' = [holder EXCEPT !.pc = "act", !.launch = @ \ {Launching}, !.run = 0]
        \/ holder' = [holder EXCEPT !.launch = @ \ {Launching}] /\ holder.pc = "act"
    BY DEF LaunchRefused, LaunchMarks, LaunchMarksFailed, NextLaunch, Doing
  <2> DEFINE rest == holder.launch \ {Launching}
  <2>2. rest \in SUBSET TrialIds
    BY <1>2
  <2>3. CASE holder' = [holder EXCEPT !.pc = "act", !.launch = rest, !.run = 0]
    <3> HIDE DEF rest
    <3>1. /\ holder' \in HolderType /\ holder'.op = holder.op /\ holder'.pc = "act"
          /\ holder'.scan = holder.scan /\ holder'.launch = rest
          /\ holder'.prune = holder.prune /\ holder'.finish = holder.finish
      BY <1>2, <2>2, <2>3 DEF HolderType
    <3>2. QED  BY <3>1 DEF rest
  <2>4. CASE holder' = [holder EXCEPT !.launch = rest] /\ holder.pc = "act"
    <3> HIDE DEF rest
    <3>1. /\ holder' \in HolderType /\ holder'.op = holder.op /\ holder'.pc = "act"
          /\ holder'.scan = holder.scan /\ holder'.launch = rest
          /\ holder'.prune = holder.prune /\ holder'.finish = holder.finish
      BY <1>2, <2>2, <2>4 DEF HolderType
    <3>2. QED  BY <3>1 DEF rest
  <2>5. QED  BY <2>1, <2>3, <2>4
<1>4. Cardinality(In("running")) \in Nat
  BY InTrials, TrialSets
<1>5. CASE UNCHANGED trials
  <2>1. TrialsOK' /\ RunningHaveRuns' /\ In("running")' = In("running")
        /\ In("pending")' = In("pending")
    BY <1>1, <1>5, SameTrials
  <2>2. QED  BY <1>1, <1>3, <1>4, <2>1, LaunchThrough
<1>6. CASE FinishTrial(Launching, "failed", NoReport)
  <2>1. /\ TrialsOK' /\ RunningHaveRuns'
        /\ In("running")' = In("running") \ {Launching}
        /\ In("pending")' = In("pending") \ {Launching}
        /\ Cardinality(In("running")') \in Nat
        /\ Cardinality(In("running")') <= Cardinality(In("running"))
    BY <1>1, <1>2, <1>6, OneTrialEnds DEF TrialEnds
  <2>2. QED  BY <1>1, <1>2, <1>3, <1>4, <2>1, LaunchThrough
<1>7. CASE LaunchMarks
  <2>1. holder.run \in DOMAIN runs /\ MarkTrialLaunched(Launching, holder.run)
    BY <1>7 DEF LaunchMarks, Doing, SweepInv, TypeOK
  <2>2. /\ trials' \in [TrialIds -> TrialType]
        /\ trials'[Launching].state = "running" /\ trials'[Launching].run = holder.run
        /\ \A j \in TrialIds : j # Launching => trials'[j] = trials[j]
        /\ In("running")' = In("running") \cup {Launching}
        /\ In("pending")' = In("pending") \ {Launching}
    BY <1>2, <2>1, MarkTrialRows DEF SweepInv
  <2>3. TrialsOK' /\ RunningHaveRuns'
    BY <1>1, <2>1, <2>2
    DEF SweepInv, TypeOK, TrialsOK, HolderInv, RunningHaveRuns, RunOf, In
  <2>4. Cardinality(In("running")') = Cardinality(In("running")) + 1
    BY <1>2, <2>2, InTrials, TrialSets, FS_AddElement
  <2>5. QED  BY <1>1, <1>3, <1>4, <2>2, <2>3, <2>4, LaunchThrough
<1>8. QED  BY <1>5, <1>6, <1>7 DEF LaunchRefused, LaunchMarksFailed

LEMMA PruneFacts ==
    ASSUME SweepInv, holder.prune # {}
    PROVE  /\ Pruning \in holder.prune /\ Pruning \in TrialIds /\ Pruning \in In("running")
           /\ RunOf(Pruning) \in DOMAIN runs
           /\ holder.scan = {} /\ ~ holder.finish /\ holder.op # "none" /\ sweep = "running"
           /\ holder \in HolderType /\ RunTypeOK /\ holder.view[Pruning] \in ReportOK
<1>1. /\ holder \in HolderType /\ holder.prune \in SUBSET TrialIds /\ RunTypeOK
      /\ holder.prune \subseteq In("running") /\ holder.view \in [TrialIds -> ReportOK]
  BY DEF SweepInv, TypeOK, HolderType, HolderInv, HolderSets, ReportOK
<1>2. Pruning \in holder.prune
  BY <1>1, OldestTrial DEF Pruning
<1>3. Pruning \in In("running") /\ Pruning \in TrialIds /\ holder.view[Pruning] \in ReportOK
  BY <1>1, <1>2
<1>4. RunOf(Pruning) \in DOMAIN runs
  BY <1>3 DEF SweepInv, HolderInv, RunningHaveRuns
<1>5. holder.op # "none" /\ sweep = "running" /\ holder.scan = {} /\ ~ holder.finish
  BY <1>2, <1>3, FreeOK DEF SweepInv, HolderInv, HolderShape, HolderSets
<1>6. QED  BY <1>1, <1>2, <1>3, <1>4, <1>5

LEMMA PruneStartsOK ==
    ASSUME SweepInv, PruneDeletes \/ PruneFailsRun
    PROVE  SweepInv'
<1>1. holder.prune # {} /\ holder.launch = {}
  BY DEF PruneDeletes, PruneFailsRun, SweepInv, HolderInv, HolderShape
<1>2. /\ RunOf(Pruning) \in DOMAIN runs
      /\ holder.scan = {} /\ ~ holder.finish /\ holder.op # "none" /\ sweep = "running"
      /\ holder \in HolderType /\ RunTypeOK
  BY <1>1, PruneFacts
<1>3. /\ UNCHANGED <<trials, sweep>>
      /\ \E pc \in {"pruneRun", "pruneTrial"} : holder' = [holder EXCEPT !.pc = pc]
  BY DEF PruneDeletes, PruneFailsRun
<1>4. RunTypeOK' /\ DOMAIN runs' = DOMAIN runs
  <2>1. CASE PruneDeletes
    <3>1. DeleteJob(RunOf(Pruning)) /\ UNCHANGED <<runs, watchers, starters, todo, mode, live, used>>
      BY <2>1 DEF PruneDeletes
    <3>2. jobs' \in Seq(JobType) /\ Len(jobs') = Len(jobs)
      BY <1>2, <3>1, DeleteJobRow
    <3>3. QED  BY <1>2, <3>1, <3>2 DEF RunTypeOK
  <2>2. CASE PruneFailsRun
    BY <1>2, <2>2, FinishRunOK DEF PruneFailsRun, Ended
  <2>3. QED  BY <2>1, <2>2
<1>5. /\ holder' \in HolderType /\ holder'.op = holder.op
      /\ holder'.pc \in {"pruneRun", "pruneTrial"}
      /\ holder'.scan = {} /\ holder'.launch = {}
      /\ holder'.prune = holder.prune /\ ~ holder'.finish
  BY <1>1, <1>2, <1>3 DEF HolderType
<1>6. TrialsOK' /\ RunningHaveRuns' /\ In("running")' = In("running")
      /\ In("pending")' = In("pending")
  BY <1>3, <1>4, SameTrials
<1>7. HolderOK' /\ HolderShape' /\ sweep' \in SweepStates
  BY <1>1, <1>2, <1>3, <1>5 DEF HolderOK, HolderShape, SweepStates
<1>8. HolderSets'
  BY <1>1, <1>2, <1>5, <1>6 DEF HolderSets, SweepInv, HolderInv
<1>9. QED  BY <1>4, <1>6, <1>7, <1>8, InvFromGroups

LEMMA PruneEndsOK ==
    ASSUME SweepInv, PruneEnds
    PROVE  SweepInv'
<1>1. holder.prune # {} /\ holder.launch = {}
  BY DEF PruneEnds, SweepInv, HolderInv, HolderShape
<1>2. /\ Pruning \in holder.prune /\ Pruning \in TrialIds /\ Pruning \in In("running")
      /\ holder.scan = {} /\ ~ holder.finish /\ holder.op # "none" /\ sweep = "running"
      /\ holder \in HolderType /\ RunTypeOK /\ holder.view[Pruning] \in ReportOK
      /\ holder.prune \in SUBSET TrialIds
  BY <1>1, PruneFacts DEF HolderType
<1>3. UNCHANGED <<runs, sweep>> /\ RunTypeOK'
  BY <1>2 DEF PruneEnds, runVars, RunTypeOK
<1>4. /\ holder' \in HolderType /\ holder'.op = holder.op /\ holder'.pc = "act"
      /\ holder'.scan = {} /\ holder'.launch = {}
      /\ holder'.prune = holder.prune \ {Pruning} /\ ~ holder'.finish
  <2> DEFINE rest == holder.prune \ {Pruning}
  <2>1. rest \in SUBSET TrialIds /\ holder' = [holder EXCEPT !.pc = "act", !.prune = rest]
    BY <1>2 DEF PruneEnds
  <2> HIDE DEF rest
  <2>2. /\ holder' \in HolderType /\ holder'.op = holder.op /\ holder'.pc = "act"
        /\ holder'.scan = {} /\ holder'.launch = {} /\ holder'.prune = rest /\ ~ holder'.finish
    BY <1>1, <1>2, <2>1 DEF HolderType
  <2>3. QED  BY <2>2 DEF rest
<1>5. /\ TrialsOK' /\ RunningHaveRuns'
      /\ In("running")' = In("running") \ {Pruning}
      /\ Cardinality(In("running")') \in Nat
      /\ Cardinality(In("running")') <= Cardinality(In("running"))
  BY <1>2, <1>3, OneTrialEnds DEF PruneEnds, TrialEnds
<1>6. HolderOK' /\ HolderShape' /\ sweep' \in SweepStates
  BY <1>2, <1>3, <1>4 DEF HolderOK, HolderShape, SweepStates
<1>7. HolderSets'
  <2>1. Cardinality(In("running")) + Cardinality(holder.launch) <= Parallel
    BY DEF SweepInv, HolderInv, HolderSets
  <2>2. Cardinality(In("running")) \in Nat
    BY InTrials, TrialSets
  <2>3. Cardinality(In("running")') + Cardinality(holder'.launch) <= Parallel
    BY <1>1, <1>4, <1>5, <2>1, <2>2, NoneCard, SweepAssumption
  <2>4. QED  BY <1>2, <1>4, <1>5, <2>3 DEF HolderSets, SweepInv, HolderInv
<1>8. QED  BY <1>3, <1>5, <1>6, <1>7, InvFromGroups

\* The holder lets the mutex go, or never took it.
LEMMA EndsOK ==
    ASSUME SweepInv, TickEnds \/ StopEnds \/ SweepCrash \/ CreateSweep \/ NothingToReconcile
    PROVE  SweepInv'
<1>1. RunTypeOK /\ sweep \in SweepStates
  BY DEF SweepInv, TypeOK
<1>2. CASE TickEnds \/ StopEnds
  <2>1. /\ UNCHANGED <<runs, trials>> /\ holder' = Free /\ RunTypeOK'
        /\ sweep' \in SweepStates
    BY <1>1, <1>2 DEF TickEnds, StopEnds, FinishSweep, SweepStates, runVars, RunTypeOK
  <2>2. QED  BY <2>1, HolderEnds
<1>3. CASE SweepCrash
  <2>1. Crash /\ UNCHANGED <<sweep, trials>> /\ holder' = Free
    BY <1>3 DEF SweepCrash
  <2>2. RunTypeOK' /\ DOMAIN runs \subseteq DOMAIN runs'
    BY <1>1, <2>1, TypeRunStep, RunsGrow
  <2>3. QED  BY <1>1, <2>1, <2>2, HolderEnds
<1>4. CASE NothingToReconcile
  <2>1. RunTypeOK' /\ UNCHANGED <<runs, trials, holder, sweep>>
    BY <1>1, <1>4 DEF NothingToReconcile, sweepVars, RunTypeOK, Modes
  <2>2. QED  BY <2>1, SameHolder
<1>5. CASE CreateSweep
  <2>1. /\ UNCHANGED <<runs, trials, holder>> /\ RunTypeOK' /\ sweep' \in SweepStates
        /\ sweep # "running"
    BY <1>1, <1>5 DEF CreateSweep, runVars, RunTypeOK, SweepStates
  <2>2. holder' = Free
    BY <2>1 DEF SweepInv, HolderInv, HolderShape
  <2>3. QED  BY <2>1, <2>2, HolderEnds
<1>6. QED  BY <1>2, <1>3, <1>4, <1>5

LEMMA SweepStepOK ==
    ASSUME SweepInv, [Next]_vars
    PROVE  SweepInv'
<1>1. CASE UNCHANGED vars
  <2>1. UNCHANGED <<runs, trials, holder, sweep>> /\ RunTypeOK'
    BY <1>1 DEF vars, sweepVars, runVars, SweepInv, TypeOK, RunTypeOK
  <2>2. QED  BY <2>1, SameHolder
<1>2. CASE RunNext /\ UNCHANGED sweepVars
  <2>1. RunTypeOK' /\ DOMAIN runs \subseteq DOMAIN runs'
    BY <1>2, TypeRunStep, RunsGrow DEF SweepInv, TypeOK
  <2>2. QED  BY <1>2, <2>1, SameHolder DEF sweepVars
<1>3. CASE HolderStep
  BY <1>3, ScanTrialOK, DecideOK, LaunchStartsOK, LaunchEndsOK, PruneStartsOK, PruneEndsOK,
     EndsOK, ReconcileOK DEF HolderStep
<1>4. QED
  BY <1>1, <1>2, <1>3, BeginsOK, EndsOK DEF Next, Loop

LEMMA SweepInitOK == Init => SweepInv
<1> SUFFICES ASSUME Init  PROVE SweepInv
  OBVIOUS
<1>1. RunTypeOK
  BY RunInitType DEF Init
<1>2. /\ sweep = "none" /\ holder = Free
      /\ trials = [k \in TrialIds |-> NewTrial]
  BY DEF Init
<1>3. /\ trials \in [TrialIds -> TrialType]
      /\ \A k \in TrialIds : trials[k].run = 0 /\ trials[k].state = "pending"
  BY <1>2 DEF NewTrial, TrialType
<1>4. In("running") = {}
  BY <1>3 DEF In
<1>5. TypeOK
  BY <1>1, <1>2, <1>3, FreeOK DEF TypeOK, SweepStates, RunOf
<1>6. HolderShape /\ RunningHaveRuns
  BY <1>2, <1>4, FreeOK DEF HolderShape, RunningHaveRuns
<1>7. HolderSets
  BY <1>2, <1>4, FreeOK, NoneCard, SweepAssumption DEF HolderSets
<1>8. QED  BY <1>5, <1>6, <1>7 DEF SweepInv, HolderInv

LEMMA SweepInvAlways == Spec => []SweepInv
  BY SweepInitOK, SweepStepOK, PTL DEF Spec

\* Rows of runs, trials and Jobs keep their shape, and a trial's run is a
\* row, whatever the watchers, the loop, users and crashes do (sweeps.go).
THEOREM SweepTypeCorrect == Spec => []TypeOK
  BY SweepInvAlways, PTL DEF SweepInv

--------------------------------
\* The rows keep the promise of SweepPromise.

StateOf == [k \in TrialIds |-> trials[k].state]

LEMMA PromiseIn == \A s : Promise!In(s) = In(s)
  BY DEF Promise!In, In

\* SweepPromise counts with its own instance of FiniteSets.
LEMMA PromiseCounts == \A S : Promise!Cardinality(S) = Cardinality(S)
  BY DEF Promise!Cardinality, Cardinality

LEMMA EndKept ==
    ASSUME SweepInv, NEW k \in TrialIds, NEW s \in TrialEnds, NEW o \in ReportOK,
           k \in In("running") \/ (k \in In("pending") /\ s = "failed"),
           FinishTrial(k, s, o), sweep = "running", UNCHANGED sweep
    PROVE  Promise!Next
<1>1. trials'[k].state = s /\ \A j \in TrialIds : j # k => trials'[j].state = trials[j].state
  BY FinishTrialRows DEF SweepInv
<1>2. StateOf' = [StateOf EXCEPT ![k] = s]
  BY <1>1 DEF StateOf
<1>3. StateOf[k] = "running" \/ (StateOf[k] = "pending" /\ s = "failed")
  BY DEF In, StateOf
<1>4. Promise!End(k, s)
  BY <1>2, <1>3 DEF Promise!End, StateOf
<1>5. QED  BY <1>4 DEF Promise!Next, TrialEnds

\* A trial is launched only while fewer than Parallel run.
LEMMA LaunchKept ==
    ASSUME SweepInv, LaunchMarks
    PROVE  Promise!Next
<1>1. holder.op = "tick" /\ holder.launch # {} /\ holder.run \in DOMAIN runs
  BY DEF LaunchMarks, Doing, SweepInv, TypeOK, HolderInv, HolderShape
<1>2. /\ Launching \in In("pending") /\ Launching \in TrialIds /\ sweep = "running"
      /\ Cardinality(holder.launch \ {Launching}) \in Nat
      /\ Cardinality(In("running")) \in Nat
      /\ Cardinality(In("running")) + Cardinality(holder.launch \ {Launching}) + 1 <= Parallel
  BY <1>1, LaunchFacts
<1>3. Cardinality(In("running")) < Parallel
  BY <1>2, SweepAssumption
<1>4. MarkTrialLaunched(Launching, holder.run) /\ UNCHANGED sweep
  BY DEF LaunchMarks
<1>5. /\ trials'[Launching].state = "running"
      /\ \A j \in TrialIds : j # Launching => trials'[j] = trials[j]
  BY <1>1, <1>2, <1>4, MarkTrialRows DEF SweepInv
<1>6. StateOf' = [StateOf EXCEPT ![Launching] = "running"] /\ StateOf[Launching] = "pending"
  BY <1>2, <1>5 DEF StateOf, In
<1>7. Promise!Cardinality(Promise!In("running")) < Parallel
  BY <1>3, PromiseIn, PromiseCounts
<1>8. ASSUME NEW k \in TrialIds, k = Launching  PROVE Promise!Next
  <2>1. Promise!Launch(k)
    BY <1>2, <1>4, <1>6, <1>7, <1>8 DEF Promise!Launch, StateOf
  <2>2. QED  BY <2>1 DEF Promise!Next
<1>9. QED  BY <1>2, <1>8

\* What a step of the holder does to the rows of the sweep.
LEMMA HolderKeeps ==
    ASSUME SweepInv, HolderStep
    PROVE  Promise!Next \/ UNCHANGED <<sweep, trials>>
<1>0. NoReport \in ReportOK /\ "failed" \in TrialEnds
  BY DEF ReportOK, TrialEnds
<1>1. CASE ScanTrial \/ ReconcileTrial \/ ReconcileFails
  <2> DEFINE k == Oldest(holder.scan)
  <2>1. holder.pc \in {"scan", "orphan"} /\ holder.scan # {} /\ sweep = "running"
    BY <1>1 DEF ScanTrial, ReconcileTrial, ReconcileFails, Doing, SweepInv, HolderInv,
                HolderShape
  <2>2. k \in TrialIds /\ k \in In("running") /\ RunOf(k) \in DOMAIN runs
    BY <2>1, Scanning
  <2>3. /\ Harvest(k) \/ UNCHANGED trials \/ FinishTrial(k, "failed", NoReport)
        /\ UNCHANGED sweep
    BY <1>1 DEF ScanTrial, ReconcileTrial, ReconcileFails
  <2> HIDE DEF k
  <2>4. CASE Harvest(k)
    <3>1. PICK s \in {"done", "failed"}, o \in ReportOK : FinishTrial(k, s, o)
      BY <2>2, <2>4, HarvestIsFinish DEF SweepInv, TypeOK
    <3>2. QED  BY <2>1, <2>2, <2>3, <3>1, EndKept DEF TrialEnds
  <2>5. QED  BY <1>0, <2>1, <2>2, <2>3, <2>4, EndKept
<1>2. CASE LaunchRefused \/ LaunchMarksFailed
  <2>1. holder.op = "tick" /\ holder.launch # {}
    BY <1>2 DEF LaunchRefused, LaunchMarksFailed, Doing, SweepInv, HolderInv, HolderShape
  <2>2. Launching \in TrialIds /\ Launching \in In("pending") /\ sweep = "running"
    BY <2>1, LaunchFacts
  <2>3. FinishTrial(Launching, "failed", NoReport) \/ UNCHANGED trials
    BY <1>2 DEF LaunchRefused, LaunchMarksFailed
  <2>4. UNCHANGED sweep
    BY <1>2 DEF LaunchRefused, LaunchMarksFailed
  <2>5. QED  BY <1>0, <2>2, <2>3, <2>4, EndKept
<1>3. CASE LaunchMarks
  BY <1>3, LaunchKept
<1>4. CASE PruneEnds
  <2>1. holder.prune # {}
    BY <1>4 DEF PruneEnds, SweepInv, HolderInv, HolderShape
  <2>2. /\ Pruning \in TrialIds /\ Pruning \in In("running") /\ sweep = "running"
        /\ holder.view[Pruning] \in ReportOK
    BY <2>1, PruneFacts
  <2>3. FinishTrial(Pruning, "pruned", holder.view[Pruning]) /\ UNCHANGED sweep
    BY <1>4 DEF PruneEnds
  <2>4. QED  BY <2>2, <2>3, EndKept DEF TrialEnds
<1>5. CASE TickEnds \/ StopEnds
  <2>1. sweep = "running" /\ UNCHANGED trials /\ StateOf' = StateOf
    BY <1>5 DEF TickEnds, StopEnds, Doing, SweepInv, HolderInv, HolderShape, StateOf
  <2>2. CASE TickEnds
    <3>1. CASE holder.finish
      <4>1. In("running") = {} /\ In("pending") = {} /\ sweep' = "done"
        BY <2>1, <2>2, <3>1 DEF TickEnds, FinishSweep, SweepInv, HolderInv, HolderSets
      <4>2. Promise!Done
        BY <2>1, <4>1, PromiseIn DEF Promise!Done, StateOf
      <4>3. QED  BY <4>2 DEF Promise!Next
    <3>2. CASE ~ holder.finish
      BY <2>1, <2>2, <3>2 DEF TickEnds
    <3>3. QED  BY <3>1, <3>2
  <2>3. CASE StopEnds
    <3>1. In("running") = {} /\ sweep' = "stopped"
      BY <2>1, <2>3 DEF StopEnds, Doing, FinishSweep, SweepInv, HolderInv, HolderSets
    <3>2. Promise!Stopped
      BY <2>1, <3>1, PromiseIn DEF Promise!Stopped, StateOf
    <3>3. QED  BY <3>2 DEF Promise!Next
  <2>4. QED  BY <1>5, <2>2, <2>3
<1>6. CASE \/ Decide \/ LaunchCreates \/ LaunchApplies \/ LaunchFails
           \/ PruneDeletes \/ PruneFailsRun \/ ReconcileOrphan \/ ReconcileEnds
  BY <1>6 DEF Decide, LaunchCreates, LaunchApplies, LaunchFails, PruneDeletes,
              PruneFailsRun, ReconcileOrphan, ReconcileEnds
<1>7. QED  BY <1>1, <1>2, <1>3, <1>4, <1>5, <1>6 DEF HolderStep

LEMMA StepKept ==
    ASSUME SweepInv, [Next]_vars
    PROVE  [Promise!Next]_(Promise!vars)
<1>1. CASE UNCHANGED <<sweep, trials>>
  <2>1. UNCHANGED sweep /\ StateOf' = StateOf
    BY <1>1 DEF StateOf
  <2>2. QED  BY <2>1 DEF Promise!vars, StateOf
<1>2. CASE HolderStep
  BY <1>1, <1>2, HolderKeeps
<1>3. CASE CreateSweep
  <2>1. sweep = "none" /\ sweep' = "running" /\ StateOf' = StateOf
    BY <1>3 DEF CreateSweep, StateOf
  <2>2. Promise!Create
    BY <2>1 DEF Promise!Create, StateOf
  <2>3. QED  BY <2>2 DEF Promise!Next
<1>4. UNCHANGED <<sweep, trials>> \/ HolderStep \/ CreateSweep
  BY DEF Next, vars, sweepVars, SweepCrash, StopBegins, Loop, TickBegins, ReconcileBegins,
         NothingToReconcile, Take
<1>5. QED  BY <1>1, <1>2, <1>3, <1>4

\* The rows of a sweep keep the promise of SweepPromise for any number of
\* trials: at most Parallel run, each moves forward only, and none once the
\* sweep has ended (sweepTickOne, stopSweep, sweepReconcileOne).
THEOREM SweepKeepsPromise == Spec => PromiseSpec
<1>1. Init => Promise!Init
  <2> SUFFICES ASSUME Init  PROVE Promise!Init
    OBVIOUS
  <2>1. sweep = "none" /\ StateOf = [k \in TrialIds |-> "pending"]
    BY DEF Init, StateOf, NewTrial
  <2>2. QED  BY <2>1 DEF Promise!Init, StateOf
<1>2. SweepInv /\ [Next]_vars => [Promise!Next]_(Promise!vars)
  BY StepKept
<1>3. QED
  BY <1>1, <1>2, SweepInvAlways, PTL DEF Spec, PromiseSpec, Promise!Spec

--------------------------------
\* Early stopping.  The middle of a set of values is one of them, so a
\* trial on the wrong side of it is worse than one that ended, and what
\* ended stays as it is until the trial is stopped.

ValueOf(k) == trials[k].report.value

LEMMA ReportShape ==
    ASSUME NEW o \in ReportOK
    PROVE  o.value \in Nat /\ o.found \in BOOLEAN
<1>1. CASE o \in Reports
  <2>1. o \in [found : {TRUE}, value : Nat, step : Nat]
    BY <1>1, RunAssumption
  <2>2. o.value \in Nat
    BY <2>1
  <2>3. o.found = TRUE
    BY <2>1
  <2> QED
    BY <2>2, <2>3
<1>2. CASE o = NoReport
  <2>1. o.value = 0
    BY <1>2 DEF NoReport
  <2>2. o.found \in BOOLEAN
    BY <1>2 DEF NoReport
  <2> QED
    BY <2>1, <2>2
<1> QED
  BY <1>1, <1>2 DEF ReportOK

LEMMA ReportsOfTrials ==
    ASSUME trials \in [TrialIds -> TrialType], NEW k \in TrialIds
    PROVE  /\ ValueOf(k) \in Nat /\ trials[k].report \in ReportOK
           /\ trials[k].report.found \in BOOLEAN
<1>1. trials[k].report \in ReportOK
  BY DEF TrialType, ReportOK
<1>2. \A o \in ReportOK : o.value \in Nat /\ o.found \in BOOLEAN
  BY ReportShape
<1> QED
  BY <1>1, <1>2 DEF ValueOf

Below(D, v)  == {k \in D : ValueOf(k) < v}
UpTo(D, v)   == {k \in D : ValueOf(k) <= v}

LEMMA CountsOf ==
    ASSUME NEW D \in SUBSET TrialIds, NEW v
    PROVE  /\ IsFiniteSet(Below(D, v)) /\ Cardinality(Below(D, v)) \in Nat
           /\ Cardinality(Below(D, v)) <= Cardinality(D)
           /\ IsFiniteSet(UpTo(D, v)) /\ Cardinality(UpTo(D, v)) \in Nat
           /\ Cardinality(UpTo(D, v)) <= Cardinality(D)
           /\ Below(D, v) \in SUBSET TrialIds /\ Below(D, v) \in SUBSET D
           /\ UpTo(D, v) \in SUBSET D
<1>1. Below(D, v) \in SUBSET D /\ UpTo(D, v) \in SUBSET D
  BY DEF Below, UpTo
<1>2. IsFiniteSet(D)
  BY TrialSets
<1> QED
  BY <1>1, <1>2, FS_Subset, FS_CardinalityType

\* One of them has the greatest value.
LEMMA BestOf ==
    ASSUME trials \in [TrialIds -> TrialType], NEW D \in SUBSET TrialIds, D # {}
    PROVE  \E u \in D : \A k \in D : ValueOf(k) <= ValueOf(u)
<1> DEFINE g(u) == Cardinality(UpTo(D, ValueOf(u)))
           S == {g(u) : u \in D}
<1>1. Cardinality(D) \in Nat
  BY TrialSets
<1>2. \A u \in D : g(u) \in Nat /\ g(u) <= Cardinality(D)
  BY CountsOf
<1>3. S \in SUBSET Nat /\ S # {} /\ \A m \in S : m <= Cardinality(D)
  BY <1>2
<1>4. Max(S) \in S /\ \A m \in S : m <= Max(S)
  <2> HIDE DEF S
  <2> QED
    BY <1>1, <1>3, MaxPicks
<1>5. PICK u \in D : g(u) = Max(S)
  BY <1>4
<1>6. ASSUME NEW k \in D, ~ (ValueOf(k) <= ValueOf(u))  PROVE FALSE
  <2>1. /\ k \in TrialIds /\ u \in TrialIds /\ ValueOf(u) \in Nat /\ ValueOf(k) \in Nat
        /\ ValueOf(u) < ValueOf(k) /\ \A j \in D : ValueOf(j) \in Nat
    BY <1>6, ReportsOfTrials
  <2>2. UpTo(D, ValueOf(u)) \in SUBSET UpTo(D, ValueOf(k))
    BY <2>1 DEF UpTo
  <2>3. k \in UpTo(D, ValueOf(k)) /\ k \notin UpTo(D, ValueOf(u))
    BY <2>1 DEF UpTo
  <2>4. g(u) <= g(k) /\ g(k) # g(u)
    BY <2>2, <2>3, CountsOf, FS_Subset
  <2>5. g(k) <= g(u)
    BY <1>4, <1>5
  <2>6. g(k) \in Nat /\ g(u) \in Nat
    BY <1>2
  <2> HIDE DEF g
  <2> QED
    BY <2>4, <2>5, <2>6
<1> QED
  BY <1>6

\* The i-th smallest value is a value (medianOf).
LEMMA RankedIsOne ==
    ASSUME trials \in [TrialIds -> TrialType], NEW D \in SUBSET TrialIds,
           NEW i \in Nat \ {0}, i <= Cardinality(D)
    PROVE  \E j \in D : Ranked(D, i) = ValueOf(j)
<1>1. IsFiniteSet(D) /\ Cardinality(D) \in Nat /\ D # {}
  BY TrialSets, NoneCard
<1>2. \A j \in D : j \in TrialIds /\ ValueOf(j) \in Nat
  BY ReportsOfTrials
<1> DEFINE V == {ValueOf(k) : k \in D}
           W == {v \in V : i <= Cardinality(UpTo(D, v))}
<1>3. V \in SUBSET Nat /\ W \in SUBSET Nat
  BY <1>2
<1>4. W # {}
  <2>1. PICK u \in D : \A k \in D : ValueOf(k) <= ValueOf(u)
    BY <1>1, BestOf
  <2>2. UpTo(D, ValueOf(u)) = D
    BY <2>1 DEF UpTo
  <2>3. ValueOf(u) \in W
    BY <2>2
  <2> QED
    BY <2>3
<1>5. PICK v \in W : \A w \in W : v <= w
  <2> HIDE DEF W
  <2> QED
    BY <1>3, <1>4, OldestExists
<1>6. Cardinality(Below(D, v)) < i
  <2>1. ASSUME ~ (Cardinality(Below(D, v)) < i)  PROVE FALSE
    <3>1. /\ Cardinality(Below(D, v)) \in Nat /\ i <= Cardinality(Below(D, v))
          /\ Below(D, v) \in SUBSET TrialIds /\ Below(D, v) # {}
      BY <2>1, CountsOf, NoneCard
    <3>2. PICK u \in Below(D, v) : \A k \in Below(D, v) : ValueOf(k) <= ValueOf(u)
      BY <3>1, BestOf
    <3>3. u \in D /\ ValueOf(u) < v
      BY <3>2 DEF Below
    <3>4. Below(D, v) \in SUBSET UpTo(D, ValueOf(u))
      BY <3>2 DEF Below, UpTo
    <3>5. /\ Cardinality(Below(D, v)) <= Cardinality(UpTo(D, ValueOf(u)))
          /\ Cardinality(UpTo(D, ValueOf(u))) \in Nat
      BY <3>4, CountsOf, FS_Subset
    <3>6. i <= Cardinality(UpTo(D, ValueOf(u)))
      BY <3>1, <3>5
    <3>7. ValueOf(u) \in W
      BY <3>3, <3>6
    <3>8. v <= ValueOf(u)
      BY <1>5, <3>7
    <3>9. v \in Nat /\ ValueOf(u) \in Nat
      BY <1>2, <1>3, <3>3
    <3> HIDE DEF W, V
    <3> QED
      BY <3>3, <3>8, <3>9
  <2> QED
    BY <2>1
<1>7. v \in V /\ i <= Cardinality(UpTo(D, v))
  BY <1>5
<1>8. Ranked(D, i) \in V
  <2>1. /\ Cardinality({k \in D : trials[k].report.value < v}) < i
        /\ i <= Cardinality({k \in D : trials[k].report.value <= v})
    BY <1>6, <1>7 DEF Below, UpTo, ValueOf
  <2>2. \E x \in V : /\ Cardinality({k \in D : trials[k].report.value < x}) < i
                     /\ i <= Cardinality({k \in D : trials[k].report.value <= x})
    BY <1>7, <2>1
  <2>3. V = {trials[k].report.value : k \in D}
    BY DEF ValueOf
  <2> HIDE DEF V
  <2>4. Ranked(D, i) = CHOOSE x \in V :
            /\ Cardinality({k \in D : trials[k].report.value < x}) < i
            /\ i <= Cardinality({k \in D : trials[k].report.value <= x})
    BY <2>3 DEF Ranked
  <2> QED
    BY <2>2, <2>4
<1> QED
  BY <1>8

\* One that ended with a metric that is better than o's.
Beaten(o) ==
    o.found => \E j \in In("done") : /\ trials[j].report.found
                                     /\ Better(trials[j].report.value, o.value)

LEMMA WorseIsBeaten ==
    ASSUME trials \in [TrialIds -> TrialType], NEW o \in ReportOK,
           Cardinality(Measured) >= Enough, Worse(o, Measured)
    PROVE  Beaten(o)
<1>1. Measured \in SUBSET TrialIds /\ \A j \in Measured : j \in In("done") /\ trials[j].report.found
  BY DEF Measured, In
<1>2. PICK n : n = Cardinality(Measured)
  OBVIOUS
<1>3. n \in Nat /\ n >= 3
  BY <1>1, <1>2, TrialSets DEF Enough
<1>4. /\ (n + 1) \div 2 \in Nat \ {0} /\ (n + 1) \div 2 <= n
      /\ (n \div 2) + 1 \in Nat \ {0} /\ (n \div 2) + 1 <= n
  BY <1>3
<1>5. PICK a \in Measured : Ranked(Measured, (n + 1) \div 2) = ValueOf(a)
  BY <1>1, <1>2, <1>4, RankedIsOne
<1>6. PICK b \in Measured : Ranked(Measured, (n \div 2) + 1) = ValueOf(b)
  BY <1>1, <1>2, <1>4, RankedIsOne
<1>7. TwiceMedian(Measured) = ValueOf(a) + ValueOf(b)
  BY <1>2, <1>5, <1>6 DEF TwiceMedian
<1>8. ValueOf(a) \in Nat /\ ValueOf(b) \in Nat /\ o.value \in Nat
  <2>1. \A p \in ReportOK : p.value \in Nat
    BY ReportShape
  <2> QED
    BY <1>1, <2>1, ReportsOfTrials
<1>9. CASE Direction = "min"
  <2>1. 2 * o.value > ValueOf(a) + ValueOf(b)
    BY <1>7, <1>9 DEF Worse
  <2>2. ValueOf(a) < o.value \/ ValueOf(b) < o.value
    BY <1>8, <2>1
  <2> QED
    BY <1>1, <1>9, <2>2 DEF Beaten, Better, ValueOf
<1>10. CASE Direction = "max"
  <2>1. 2 * o.value < ValueOf(a) + ValueOf(b)
    BY <1>7, <1>10 DEF Worse
  <2>2. ValueOf(a) > o.value \/ ValueOf(b) > o.value
    BY <1>8, <2>1
  <2> QED
    BY <1>1, <1>10, <2>2 DEF Beaten, Better, ValueOf
<1> QED
  BY <1>9, <1>10, SweepAssumption

\* What is being stopped on its metric, and what was, is worse than one that ended.
BestInv ==
    /\ PrunedNotBest
    /\ \A k \in holder.prune : Beaten(holder.view[k])

LEMMA PrunedAreBeaten == PrunedNotBest <=> \A k \in In("pruned") : Beaten(trials[k].report)
  BY DEF PrunedNotBest, Beaten

\* A trial that ended stays as it is.
LEMMA EndedTrialsStay ==
    ASSUME TypeOK, NEW k \in TrialIds, NEW s, NEW o, NEW r,
           FinishTrial(k, s, o) \/ MarkTrialLaunched(k, r) \/ UNCHANGED trials
    PROVE  \A j \in In("done") \cup In("pruned") : trials'[j] = trials[j] /\ j \in TrialIds
  BY DEF TypeOK, In, FinishTrial, MarkTrialLaunched

\* A step that prunes nothing.
LEMMA BestStays ==
    ASSUME BestInv,
           \A j \in In("done") \cup In("pruned") : trials'[j] = trials[j],
           \A k \in In("pruned")' : k \in In("pruned") \/ Beaten(trials'[k].report),
           \A k \in holder'.prune : \/ Beaten(holder'.view[k])
                                    \/ k \in holder.prune /\ holder'.view = holder.view
    PROVE  BestInv'
<1>1. \A j \in In("done") : j \in In("done")'
  BY DEF In
<1>2. ASSUME NEW o, Beaten(o)  PROVE Beaten(o)'
  BY <1>1, <1>2 DEF Beaten, Better
<1>3. ASSUME NEW k \in In("pruned")'  PROVE Beaten(trials[k].report)'
  <2>1. CASE k \in In("pruned")
    <3>1. Beaten(trials[k].report) /\ trials'[k].report = trials[k].report
      BY <2>1, PrunedAreBeaten DEF BestInv
    <3> QED
      BY <1>1, <3>1 DEF Beaten, Better
  <2>2. CASE Beaten(trials'[k].report)
    BY <1>1, <2>2 DEF Beaten, Better
  <2> QED
    BY <2>1, <2>2
<1>4. PrunedNotBest'
  BY <1>3 DEF PrunedNotBest, Beaten
<1>5. ASSUME NEW k \in holder'.prune  PROVE Beaten(holder.view[k])'
  <2>1. Beaten(holder'.view[k])
    BY <1>5 DEF BestInv
  <2> QED
    BY <1>1, <2>1 DEF Beaten, Better
<1> QED
  BY <1>4, <1>5 DEF BestInv

\* A trial ends by itself, while its like are looked at or launched.
LEMMA BestEnds ==
    ASSUME TypeOK, BestInv, NEW k \in TrialIds,
           UNCHANGED trials \/ \E s \in {"done", "failed"}, o \in ReportOK : FinishTrial(k, s, o),
           holder'.prune = {} \/ (holder'.prune = holder.prune /\ holder'.view = holder.view)
    PROVE  BestInv'
<1>1. trials \in [TrialIds -> TrialType]
  BY DEF TypeOK
<1>2. \A j \in In("done") \cup In("pruned") : trials'[j] = trials[j]
  BY EndedTrialsStay
<1>3. In("pruned")' \subseteq In("pruned")
  <2>1. CASE UNCHANGED trials
    BY <2>1 DEF In
  <2>2. ASSUME NEW s \in {"done", "failed"}, NEW o \in ReportOK, FinishTrial(k, s, o)
        PROVE  In("pruned")' \subseteq In("pruned")
    <3>1. CASE trials' = [trials EXCEPT ![k].state = s, ![k].report = o]
      <4>1. trials'[k].state = s /\ \A j \in TrialIds : j # k => trials'[j] = trials[j]
        BY <1>1, <3>1 DEF TrialType
      <4> QED
        BY <2>2, <4>1 DEF In
    <3> QED
      BY <2>2, <3>1 DEF FinishTrial, In
  <2> QED
    BY <2>1, <2>2
<1> QED
  BY <1>2, <1>3, BestStays

LEMMA BestStep ==
    ASSUME SweepInv, BestInv, [Next]_vars
    PROVE  BestInv'
<1>1. /\ TypeOK /\ HolderShape /\ holder \in HolderType /\ trials \in [TrialIds -> TrialType]
  BY DEF SweepInv, TypeOK, HolderInv
<1>2. CASE UNCHANGED trials /\ \A k \in holder'.prune : k \in holder.prune /\ holder'.view = holder.view
  <2>1. In("pruned")' = In("pruned")
    BY <1>2 DEF In
  <2> QED
    BY <1>2, <2>1, BestStays
<1>3. CASE UNCHANGED trials /\ \A k \in holder'.prune : Beaten(holder'.view[k])
  <2>1. In("pruned")' = In("pruned")
    BY <1>3 DEF In
  <2> QED
    BY <1>3, <2>1, BestStays
<1>4. CASE UNCHANGED <<trials, holder>>
  BY <1>2, <1>4
<1>5. CASE holder' = Free /\ UNCHANGED trials
  BY <1>2, <1>5, FreeOK
<1>6. CASE TickBegins \/ StopBegins \/ ReconcileBegins
  <2>1. /\ UNCHANGED trials /\ holder'.view = NoViews /\ holder'.prune \subseteq In("running")
    BY <1>6 DEF TickBegins, StopBegins, ReconcileBegins, Take, Free
  <2>2. \A k \in In("running") : ~ NoViews[k].found
    BY DEF NoViews, NoReport, In
  <2> QED
    BY <1>3, <2>1, <2>2 DEF Beaten
<1>7. CASE Decide
  <2>1. UNCHANGED trials /\ holder'.prune = ToPrune(holder.view) /\ holder'.view = holder.view
    BY <1>1, <1>7 DEF Decide, HolderType
  <2>2. ASSUME NEW k \in ToPrune(holder.view)  PROVE Beaten(holder.view[k])
    <3>1. /\ k \in TrialIds /\ Cardinality(Measured) >= Enough /\ Worse(holder.view[k], Measured)
      BY <2>2 DEF ToPrune, In
    <3>2. holder.view[k] \in ReportOK
      BY <1>1, <3>1 DEF HolderType, ReportOK
    <3> QED
      BY <1>1, <3>1, <3>2, WorseIsBeaten
  <2> QED
    BY <1>3, <2>1, <2>2
<1>8. CASE PruneEnds
  <2>1. holder.prune # {}
    BY <1>1, <1>8 DEF PruneEnds, HolderShape
  <2>2. Pruning \in holder.prune /\ Pruning \in TrialIds /\ Pruning \in In("running")
    BY <2>1, PruneFacts
  <2>3. FinishTrial(Pruning, "pruned", holder.view[Pruning])
    BY <1>8 DEF PruneEnds
  <2>4. trials' = [trials EXCEPT ![Pruning].state = "pruned", ![Pruning].report = holder.view[Pruning]]
    BY <2>2, <2>3 DEF FinishTrial, In
  <2>5. \A k \in In("pruned")' : k \in In("pruned") \/ (k = Pruning /\ trials'[k].report = holder.view[k])
    BY <1>1, <2>2, <2>4 DEF In
  <2>6. Beaten(holder.view[Pruning])
    BY <2>2 DEF BestInv
  <2>7. /\ holder'.prune = holder.prune \ {Pruning} /\ holder'.view = holder.view
    BY <1>1, <1>8 DEF PruneEnds, HolderType
  <2>8. \A j \in In("done") \cup In("pruned") : trials'[j] = trials[j]
    BY <1>1, <2>2, <2>3, EndedTrialsStay
  <2> QED
    BY <2>5, <2>6, <2>7, <2>8, BestStays
<1>9. CASE ScanTrial \/ ReconcileTrial \/ ReconcileFails
  <2>1. holder.pc \in {"scan", "orphan"} /\ holder.scan # {}
    BY <1>1, <1>9 DEF ScanTrial, ReconcileTrial, ReconcileFails, Doing, HolderShape
  <2>2. PICK k : k = Oldest(holder.scan)
    OBVIOUS
  <2>3. k \in TrialIds /\ RunOf(k) \in DOMAIN runs /\ holder.prune = {}
    BY <2>1, <2>2, Scanning
  <2>4. holder'.prune = {}
    BY <1>1, <1>9, <2>3 DEF ScanTrial, ReconcileTrial, ReconcileFails, Reconciled, HolderType
  <2>5. Harvest(k) \/ UNCHANGED trials \/ FinishTrial(k, "failed", NoReport)
    BY <1>9, <2>2 DEF ScanTrial, ReconcileTrial, ReconcileFails
  <2>6. UNCHANGED trials \/ \E s \in {"done", "failed"}, o \in ReportOK : FinishTrial(k, s, o)
    <3>1. RunTypeOK /\ NoReport \in ReportOK
      BY <1>1 DEF TypeOK, ReportOK
    <3> QED
      BY <2>3, <2>5, <3>1, HarvestIsFinish
  <2> QED
    BY <1>1, <2>3, <2>4, <2>6, BestEnds
<1>10. CASE LaunchRefused \/ LaunchMarks \/ LaunchMarksFailed
  <2>1. /\ holder.launch # {} /\ holder.op = "tick"
    BY <1>1, <1>10 DEF LaunchRefused, LaunchMarks, LaunchMarksFailed, Doing, HolderShape
  <2>2. Launching \in TrialIds
    BY <2>1, LaunchFacts
  <2>3. holder'.prune = holder.prune /\ holder'.view = holder.view
    BY <1>1, <1>10 DEF LaunchRefused, LaunchMarks, LaunchMarksFailed, NextLaunch, HolderType
  <2>4. CASE UNCHANGED trials
    BY <1>2, <2>3, <2>4
  <2>5. CASE FinishTrial(Launching, "failed", NoReport)
    <3>1. NoReport \in ReportOK
      BY DEF ReportOK
    <3> QED
      BY <1>1, <2>2, <2>3, <2>5, <3>1, BestEnds
  <2>6. CASE MarkTrialLaunched(Launching, holder.run)
    <3>1. \A j \in In("done") \cup In("pruned") : trials'[j] = trials[j]
      BY <1>1, <2>2, <2>6, EndedTrialsStay
    <3>2. In("pruned")' \subseteq In("pruned")
      BY <1>1, <2>2, <2>6 DEF MarkTrialLaunched, In
    <3> QED
      BY <2>3, <3>1, <3>2, BestStays
  <2> QED
    BY <1>10, <2>4, <2>5, <2>6 DEF LaunchRefused, LaunchMarks, LaunchMarksFailed
<1>11. CASE LaunchCreates \/ LaunchApplies \/ LaunchFails \/ PruneDeletes \/ PruneFailsRun \/ ReconcileOrphan
  <2>1. UNCHANGED trials /\ holder'.prune = holder.prune /\ holder'.view = holder.view
    BY <1>1, <1>11 DEF LaunchCreates, LaunchApplies, LaunchFails, PruneDeletes, PruneFailsRun,
                       ReconcileOrphan, HolderType
  <2> QED
    BY <1>2, <2>1
<1>12. CASE TickEnds \/ StopEnds \/ ReconcileEnds \/ SweepCrash
  BY <1>5, <1>12 DEF TickEnds, StopEnds, ReconcileEnds, SweepCrash
<1>13. CASE NothingToReconcile \/ CreateSweep \/ (RunNext /\ UNCHANGED sweepVars) \/ UNCHANGED vars
  BY <1>4, <1>13 DEF NothingToReconcile, CreateSweep, sweepVars, vars
<1> QED
  BY <1>6, <1>7, <1>8, <1>9, <1>10, <1>11, <1>12, <1>13 DEF Next, HolderStep, Loop

LEMMA BestAtFirst == Init => BestInv
  BY FreeOK DEF Init, BestInv, PrunedNotBest, In, NewTrial

\* Early stopping never stops the best of a sweep, for any number of trials, whatever they
\* report and in which order, over failing calls, crashes and a stop (decideSweep, medianOf,
\* sweepPruneTrial).
THEOREM PrunedAreNotBest == Spec => []PrunedNotBest
<1>1. SweepInv /\ BestInv /\ [Next]_vars => BestInv'
  BY BestStep
<1>2. BestInv => PrunedNotBest
  BY DEF BestInv
<1> QED
  BY BestAtFirst, <1>1, <1>2, SweepInvAlways, PTL DEF Spec

--------------------------------
\* Trials end as their runs.  The runs of a sweep are followed by watchers
\* that know nothing of it, and its holder knows nothing of them: what
\* each of them may rely on, when no deletion and no poll fails, no Job
\* outlives its watcher, and no request is served before startup has its
\* list.

CallsReturn == ~ ServeEarly /\ Faults \cap {"answer", "delete", "read", "timeout"} = {}

Launched == {r \in DOMAIN runs : runs[r].owner # 0}

\* The run that is being launched.
Current == IF holder.pc \in {"apply", "mark", "markFailed"} THEN {holder.run} ELSE {}

Over(r) == jobs[r].state \in {"none", "gone"}

Unwatched(r) == \A w \in watchers : w.run # r

\* Runs of trials that are being stopped, or were.
GivenUp(r) ==
    \E k \in TrialIds :
        /\ RunOf(k) = r
        /\ \/ trials[k].state = "pruned"
           \/ holder.pc \in {"pruneRun", "pruneTrial"} /\ k = Pruning

OwnersOK ==
    /\ \A r \in DOMAIN runs : runs[r].owner \in TrialIds \cup {0}
    /\ \A k \in TrialIds : /\ trials[k].state = "pending" => RunOf(k) = 0
                           /\ trials[k].state \notin {"pending", "failed"} => RunOf(k) # 0
                           /\ RunOf(k) # 0 => runs[RunOf(k)].owner = k

LaunchOK ==
    LET r == holder.run IN
    /\ Current # {} => r \in DOMAIN runs /\ runs[r].owner = Launching
    /\ holder.pc = "apply" => runs[r].status = "running" /\ jobs[r].state = "none" /\ Unwatched(r)
    /\ holder.pc = "markFailed" => runs[r].status = "failed" /\ jobs[r].state = "none" /\ Unwatched(r)

KeptOK ==
    /\ \A r \in starters : /\ runs[r].owner = 0 /\ r \in Running /\ jobs[r].state = "none"
                           /\ Unwatched(r)
    /\ \A r \in todo : (r \in Running \/ GivenUp(r)) /\ Unwatched(r)
    /\ \A r \in DOMAIN runs : GivenUp(r) => Over(r)

WatcherOK(w) ==
    /\ jobs[w.run].state # "none"
    /\ w.ok => w.pc = "record" /\ (jobs[w.run].state = "succeeded" \/ GivenUp(w.run))
    /\ w.pc = "gangRecord" => Over(w.run)
    /\ w.pc = "record" /\ ~ w.ok => jobs[w.run].state = "failed" \/ Over(w.run)
    /\ w.run \notin Running /\ ~ GivenUp(w.run) =>
           ~ w.ok /\ Over(w.run) /\ runs[w.run].status = "failed"

WatchersOK ==
    /\ \A w \in watchers : WatcherOK(w)
    /\ \A v, w \in watchers : v.run = w.run => v = w

ModesOK ==
    /\ mode \in {"down", "starting"} => watchers = {}
    /\ mode \in {"down", "starting", "resuming"} => starters = {}
    /\ mode # "resuming" => todo = {}
    /\ holder.op = "tick" => mode = "up"
    /\ holder.op = "reconcile" => mode = "resumed"
    /\ mode = "down" => holder = Free

OrphanOK == holder.pc = "orphan" => runs[RunOf(Oldest(holder.scan))].status = "failed"

QuietEnd == sweep \in {"done", "stopped"} => In("running") = {}

\* What depends on Jobs and goroutines, and what depends on rows only.
TasksOK == LaunchOK /\ KeptOK /\ WatchersOK /\ ModesOK /\ OutcomeIsTheJobs
ClosedOK == OwnersOK /\ OrphanOK /\ HarvestMatchesRun /\ QuietEnd

EndRows == TasksOK /\ ClosedOK

LEMMA SameSweep ==
    ASSUME UNCHANGED sweepVars
    PROVE  /\ Current' = Current /\ \A r : GivenUp(r)' = GivenUp(r)
           /\ Launching' = Launching /\ UNCHANGED <<sweep, trials, holder>>
  BY DEF sweepVars, Current, GivenUp, Launching, Pruning, RunOf

\* A run that was given up was launched.
LEMMA GivenUpOwned ==
    ASSUME SweepInv, OwnersOK, NEW r \in DOMAIN runs, GivenUp(r)
    PROVE  runs[r].owner # 0 /\ RunOf(runs[r].owner) = r
<1>1. r \in Nat /\ r # 0
  BY Rows DEF SweepInv, TypeOK, RunTypeOK
<1>2. QED  BY <1>1, SweepAssumption DEF GivenUp, OwnersOK, TrialIds

\* Only one trial has a run.
LEMMA GivenUpTrial ==
    ASSUME SweepInv, OwnersOK, NEW k \in TrialIds, RunOf(k) \in DOMAIN runs, GivenUp(RunOf(k))
    PROVE  \/ trials[k].state = "pruned"
           \/ holder.pc \in {"pruneRun", "pruneTrial"} /\ k = Pruning
<1>1. RunOf(k) \in Nat /\ RunOf(k) # 0
  BY Rows DEF SweepInv, TypeOK, RunTypeOK
<1>2. QED  BY <1>1 DEF GivenUp, OwnersOK

\* The row of an ended run is overwritten only when its trial was given up,
\* or with what is there.
LEMMA EndedKept ==
    ASSUME CallsReturn, RunTypeOK, TasksOK, RunNext
    PROVE  \A r \in DOMAIN runs :
               r \notin Running /\ ~ GivenUp(r) => runs'[r].status = runs[r].status
<1>1. CASE \E nodes \in UserNodes : CreateRun(nodes)
  BY <1>1, RunAssumption, CreateRows DEF CreateRun
<1>2. CASE \E r \in starters : StartRunFails(r)
  BY <1>2, FinishRow DEF StartRunFails, RunTypeOK, TasksOK, KeptOK, Ended
<1>3. CASE \E w \in watchers : WatcherStep(w)
  <2>1. PICK w \in watchers : WatcherStep(w)
    BY <1>3
  <2>2. CASE UNCHANGED runs
    BY <2>2
  <2>3. CASE Record(w)
    <3>1. PICK status \in Ended :
            FinishJobRun(w.run, status) /\ status = (IF w.ok THEN "succeeded" ELSE "failed")
      BY <2>3 DEF Record, Ended
    <3>2. /\ runs'[w.run].status = status
          /\ \A r \in DOMAIN runs : r # w.run => runs'[r] = runs[r]
      BY <3>1, FinishRow DEF RunTypeOK
    <3>3. w.run \notin Running /\ ~ GivenUp(w.run) =>
             ~ w.ok /\ runs[w.run].status = "failed"
      BY DEF TasksOK, WatchersOK, WatcherOK
    <3>4. QED  BY <3>1, <3>2, <3>3
  <2>4. QED
    BY <2>1, <2>2, <2>3 DEF WatcherStep, GangStarts, GangTimesOut, GangDelete, WaitReturns
<1>4. CASE ResumeRun
  <2> DEFINE r == Oldest(todo)
  <2>1. r \in DOMAIN runs /\ (r \in Running \/ GivenUp(r))
    BY <1>4, ResumeEffect DEF TasksOK, KeptOK
  <2>2. UNCHANGED runs \/ \E status \in Ended : FinishJobRun(r, status)
    BY <1>4, ResumeEffect
  <2> HIDE DEF r
  <2>3. QED  BY <2>1, <2>2, FinishRow
<1>5. CASE UNCHANGED runs
  BY <1>5
<1>6. QED
  BY <1>1, <1>2, <1>3, <1>4, <1>5
  DEF RunNext, Requests, Startup, StartRun, DeployBegins, DeployEnds, Restart, Resumed,
      ListRunning, Cluster, JobStarts, JobEnds, JobSucceeds, JobFails, JobExpires,
      JobReports, SetJob

\* So what the trials say of their runs stays right.
LEMMA RunStepCloses ==
    ASSUME CallsReturn, SweepInv, EndRows, RunNext, UNCHANGED sweepVars
    PROVE  ClosedOK'
<1>1. /\ RunTypeOK /\ trials \in [TrialIds -> TrialType]
      /\ \A k \in TrialIds : RunOf(k) \in DOMAIN runs \cup {0}
      /\ RunTypeOK' /\ 0 \notin DOMAIN runs
  BY TypeRunStep, Rows DEF SweepInv, TypeOK
<1>2. /\ DOMAIN runs \subseteq DOMAIN runs'
      /\ \A r \in DOMAIN runs : runs'[r].owner = runs[r].owner
      /\ \A r \in DOMAIN runs' \ DOMAIN runs : runs'[r].owner = 0
  BY <1>1, RunsGrow
<1>3. /\ UNCHANGED <<sweep, trials, holder>> /\ \A k \in TrialIds : RunOf(k)' = RunOf(k)
  BY SameSweep DEF RunOf
<1>4. OwnersOK'
  BY <1>1, <1>2, <1>3 DEF EndRows, ClosedOK, OwnersOK
<1>5. \A r \in DOMAIN runs :
          r \notin Running /\ ~ GivenUp(r) => runs'[r].status = runs[r].status
  BY <1>1, EndedKept DEF EndRows
<1>6. \A r \in DOMAIN runs : runs[r].status # "running" => r \notin Running
  BY DEF Running
<1>7. HarvestMatchesRun'
  <2>1. ASSUME NEW k \in TrialIds, trials[k].state \in {"done", "failed"}, RunOf(k) # 0
        PROVE  runs'[RunOf(k)].status = runs[RunOf(k)].status
    <3>1. RunOf(k) \in DOMAIN runs
      BY <1>1, <2>1
    <3>2. k \notin In("running") /\ trials[k].state # "pruned"
      BY <2>1 DEF In
    <3>3. holder.pc \in {"pruneRun", "pruneTrial"} => k # Pruning
      BY <3>2, PruneFacts DEF SweepInv, HolderInv, HolderShape
    <3>4. ~ GivenUp(RunOf(k))
      BY <3>1, <3>2, <3>3, GivenUpTrial DEF EndRows, ClosedOK
    <3>5. runs[RunOf(k)].status # "running"
      BY <2>1 DEF EndRows, ClosedOK, HarvestMatchesRun
    <3>6. QED  BY <1>5, <1>6, <3>1, <3>4, <3>5
  <2>2. \A k \in TrialIds : trials[k].state = "done" => RunOf(k) # 0
    BY DEF EndRows, ClosedOK, OwnersOK
  <2>3. QED  BY <1>3, <2>1, <2>2 DEF EndRows, ClosedOK, HarvestMatchesRun, RunOf
<1>8. OrphanOK'
  <2>1. CASE holder.pc = "orphan"
    <3> DEFINE k == Oldest(holder.scan)
    <3>1. /\ k \in TrialIds /\ k \in In("running") /\ RunOf(k) \in DOMAIN runs
      BY <2>1, Scanning DEF SweepInv, HolderInv, HolderShape
    <3>2. runs[RunOf(k)].status = "failed"
      BY <2>1 DEF EndRows, ClosedOK, OrphanOK
    <3> HIDE DEF k
    <3>3. ~ GivenUp(RunOf(k))
      BY <2>1, <3>1, GivenUpTrial DEF EndRows, ClosedOK, In
    <3>4. runs'[RunOf(k)].status = "failed"
      BY <1>5, <1>6, <3>1, <3>2, <3>3
    <3>5. runs'[RunOf(Oldest(holder.scan))].status = "failed"
      BY <3>4 DEF k
    <3>6. QED  BY <1>3, <3>5 DEF OrphanOK, RunOf
  <2>2. QED  BY <1>3, <2>1 DEF OrphanOK
<1>9. QuietEnd'
  BY <1>3 DEF EndRows, ClosedOK, QuietEnd, In
<1>10. QED  BY <1>4, <1>7, <1>8, <1>9 DEF ClosedOK

\* Requests: their runs are nobody's trial's.
LEMMA RequestKeepsTasks ==
    ASSUME CallsReturn, SweepInv, EndRows, Requests, UNCHANGED sweepVars
    PROVE  TasksOK'
<1>1. RunTypeOK /\ Current' = Current /\ Launching' = Launching /\ UNCHANGED holder
      /\ (\A r : GivenUp(r)' = GivenUp(r)) /\ OwnersOK
  BY SameSweep DEF SweepInv, TypeOK, EndRows, ClosedOK
<1>2. \A r \in DOMAIN runs : GivenUp(r) => runs[r].owner # 0
  BY GivenUpOwned DEF EndRows, ClosedOK
<1>3. Current # {} => runs[holder.run].owner # 0
  <2>1. Current # {} => Launching \in TrialIds
    BY LaunchFacts DEF Current, SweepInv, HolderInv, HolderShape
  <2>2. QED  BY <2>1, SweepAssumption DEF EndRows, TasksOK, LaunchOK, TrialIds
<1>4. /\ \A w \in watchers : w.run \in DOMAIN runs
      /\ starters \subseteq DOMAIN runs /\ todo \subseteq DOMAIN runs
      /\ holder.pc \in {"apply", "markFailed"} => Current # {}
  BY <1>1 DEF RunTypeOK, Current
<1>5. CASE \E nodes \in UserNodes : CreateRun(nodes)
  <2>1. PICK nodes \in UserNodes : CreateRun(nodes)
    BY <1>5
  <2> DEFINE n == Len(runs) + 1
  <2>2. /\ DOMAIN runs' = DOMAIN runs \cup {n}
        /\ runs'[n].status = "running" /\ runs'[n].owner = 0
        /\ jobs'[n].state = "none"
        /\ \A r \in DOMAIN runs : runs'[r] = runs[r] /\ jobs'[r] = jobs[r]
        /\ n \notin DOMAIN runs
    BY <1>1, <2>1, RunAssumption, CreateRows, RunningCreate DEF CreateRun
  <2>3. /\ starters' = starters \cup {n} /\ UNCHANGED <<watchers, todo, mode>>
        /\ mode \in {"resumed", "up"}
    BY <2>1 DEF CreateRun, CallsReturn
  <2> HIDE DEF n
  <2>4. ~ GivenUp(n)
    <3>1. ASSUME NEW k \in TrialIds  PROVE RunOf(k) # n
      <4>1. RunOf(k) \in DOMAIN runs \cup {0} /\ n # 0
        BY <1>1, Rows DEF SweepInv, TypeOK, n
      <4>2. QED  BY <2>2, <4>1
    <3>2. QED  BY <3>1 DEF GivenUp
  <2>5. LaunchOK'
    BY <1>1, <1>4, <2>2, <2>3 DEF EndRows, TasksOK, LaunchOK, Unwatched
  <2>6. KeptOK'
    BY <1>1, <1>4, <2>2, <2>3, <2>4 DEF EndRows, TasksOK, KeptOK, Unwatched, Running, Over
  <2>7. WatchersOK'
    BY <1>1, <1>4, <2>2, <2>3 DEF EndRows, TasksOK, WatchersOK, WatcherOK, Running, Over
  <2>8. ModesOK' /\ OutcomeIsTheJobs'
    BY <1>1, <2>2, <2>3 DEF EndRows, TasksOK, ModesOK, OutcomeIsTheJobs
  <2>9. QED  BY <2>5, <2>6, <2>7, <2>8 DEF TasksOK
<1>6. CASE \E r \in starters : StartRun(r)
  <2>1. PICK r \in starters : StartRun(r)
    BY <1>6
  <2>2. /\ r \in DOMAIN runs /\ runs[r].owner = 0 /\ r \in Running /\ jobs[r].state = "none"
        /\ Unwatched(r) /\ todo = {} /\ mode \in Modes /\ ~ GivenUp(r)
    BY <1>1, <1>2, <1>4 DEF EndRows, TasksOK, KeptOK, ModesOK, RunTypeOK, Modes
  <2>3. /\ jobs'[r].state = "pending"
        /\ \A m \in DOMAIN runs : m # r => jobs'[m] = jobs[m]
    BY <1>1, <2>1, <2>2, PutJobState DEF StartRun, ApplyRun, JobStates
  <2>4. PICK v : /\ watchers' = watchers \cup {v} /\ v.run = r /\ v.ok = FALSE
                 /\ v.pc \in {"gang", "wait"}
    BY <1>1, <2>1, <2>2, WatcherFits DEF StartRun, ApplyRun, Attach, Watcher
  <2>5. UNCHANGED <<runs, todo, mode>> /\ starters' = starters \ {r} /\ Running' = Running
    BY <2>1 DEF StartRun, Running
  <2>6. LaunchOK'
    BY <1>1, <1>3, <1>4, <2>2, <2>3, <2>4, <2>5 DEF EndRows, TasksOK, LaunchOK, Unwatched
  <2>7. KeptOK'
    BY <1>1, <1>4, <2>2, <2>3, <2>4, <2>5 DEF EndRows, TasksOK, KeptOK, Unwatched, Over
  <2>8. WatchersOK'
    BY <1>1, <1>4, <2>2, <2>3, <2>4, <2>5
    DEF EndRows, TasksOK, WatchersOK, WatcherOK, Over, Unwatched
  <2>9. ModesOK'
    BY <1>1, <2>1, <2>2, <2>5 DEF EndRows, TasksOK, ModesOK
  <2>10. OutcomeIsTheJobs'
    BY <2>2, <2>3, <2>5 DEF EndRows, TasksOK, OutcomeIsTheJobs, Running
  <2>11. QED  BY <2>6, <2>7, <2>8, <2>9, <2>10 DEF TasksOK
<1>7. CASE \E r \in starters : StartRunFails(r)
  <2>1. PICK r \in starters : StartRunFails(r)
    BY <1>7
  <2>2. /\ r \in DOMAIN runs /\ runs[r].owner = 0 /\ jobs[r].state = "none"
        /\ Unwatched(r) /\ todo = {} /\ mode \in Modes
    BY <1>1, <1>4 DEF EndRows, TasksOK, KeptOK, ModesOK, RunTypeOK, Modes
  <2>3. /\ DOMAIN runs' = DOMAIN runs /\ runs'[r].status = "failed" /\ runs'[r].owner = 0
        /\ \A m \in DOMAIN runs : m # r => runs'[m] = runs[m]
    BY <1>1, <2>1, <2>2, FinishRow DEF StartRunFails, Ended
  <2>4. UNCHANGED <<jobs, watchers, todo, mode>> /\ starters' = starters \ {r}
    BY <1>1, <2>1, <2>2, ApplyFailsRow DEF StartRunFails, CallsReturn
  <2>5. LaunchOK'
    BY <1>1, <1>3, <1>4, <2>2, <2>3, <2>4 DEF EndRows, TasksOK, LaunchOK, Unwatched
  <2>6. KeptOK'
    BY <1>1, <1>4, <2>2, <2>3, <2>4 DEF EndRows, TasksOK, KeptOK, Unwatched, Over, Running
  <2>7. WatchersOK'
    BY <1>1, <1>4, <2>2, <2>3, <2>4
    DEF EndRows, TasksOK, WatchersOK, WatcherOK, Over, Unwatched, Running
  <2>8. ModesOK' /\ OutcomeIsTheJobs'
    BY <1>1, <2>2, <2>3, <2>4 DEF EndRows, TasksOK, ModesOK, OutcomeIsTheJobs
  <2>9. QED  BY <2>5, <2>6, <2>7, <2>8 DEF TasksOK
<1>8. CASE DeployBegins \/ DeployEnds
  <2>1. UNCHANGED <<runs, jobs, watchers, starters, todo, mode>>
    BY <1>8 DEF DeployBegins, DeployEnds
  <2>2. QED
    BY <1>1, <2>1 DEF EndRows, TasksOK, LaunchOK, KeptOK, WatchersOK, WatcherOK, ModesOK,
       OutcomeIsTheJobs, Running, Over, Unwatched
<1>9. QED  BY <1>5, <1>6, <1>7, <1>8 DEF Requests

\* Deleting a Job that was there ends it.
LEMMA DeleteEnds ==
    ASSUME RunTypeOK, NEW r \in DOMAIN runs, DeleteJob(r), "delete" \notin Faults
    PROVE  /\ jobs'[r].state = IF jobs[r].state = "none" THEN "none" ELSE "gone"
           /\ \A n \in DOMAIN runs : n # r => jobs'[n] = jobs[n]
<1>1. CASE UNCHANGED jobs /\ jobs[r].state = "none"
  BY <1>1
<1>2. CASE jobs' = [jobs EXCEPT ![r].state = "gone"] /\ jobs[r].state # "none"
  BY <1>2, PutJobState DEF JobStates
<1>3. QED  BY <1>1, <1>2 DEF DeleteJob

\* Watchers: the run of each of them is its own.
LEMMA WatcherKeepsTasks ==
    ASSUME CallsReturn, SweepInv, EndRows, NEW w \in watchers, WatcherStep(w),
           UNCHANGED sweepVars
    PROVE  TasksOK'
<1>1. RunTypeOK /\ Current' = Current /\ Launching' = Launching /\ UNCHANGED holder
      /\ (\A r : GivenUp(r)' = GivenUp(r))
  BY SameSweep DEF SweepInv, TypeOK
<1>2. /\ w.run \in DOMAIN runs /\ w \in WatcherType /\ WatcherOK(w)
      /\ \A v \in watchers \ {w} : v.run # w.run
      /\ \A v \in watchers : v.run \in DOMAIN runs
      /\ starters \subseteq DOMAIN runs /\ todo \subseteq DOMAIN runs
      /\ w.run \notin starters /\ w.run \notin todo
      /\ holder.pc \in {"apply", "markFailed"} => holder.run # w.run
      /\ holder.pc \in {"apply", "markFailed"} => holder.run \in DOMAIN runs
  BY <1>1 DEF RunTypeOK, EndRows, TasksOK, WatchersOK, KeptOK, LaunchOK, Unwatched, Current
<1>3. UNCHANGED <<starters, todo, mode>> /\ watchers # {}
  BY <1>1, WatcherEffect
<1>4. ModesOK'
  <2>1. mode \notin {"down", "starting"}
    BY <1>3 DEF EndRows, TasksOK, ModesOK
  <2>2. QED  BY <1>1, <1>3, <2>1 DEF EndRows, TasksOK, ModesOK
<1>5. CASE GangStarts(w) \/ GangTimesOut(w) \/ WaitReturns(w)
  <2>1. UNCHANGED <<runs, jobs>> /\ Running' = Running
    BY <1>5 DEF GangStarts, GangTimesOut, WaitReturns, Running
  <2>2. PICK pc \in {"wait", "gangDelete", "record"}, ok \in BOOLEAN :
          /\ Watch(w, pc, ok)
          /\ ok => pc = "record" /\ jobs[w.run].state = "succeeded"
          /\ pc = "record" /\ ~ ok => jobs[w.run].state \in {"failed", "none", "gone"}
    BY <1>5 DEF GangStarts, GangTimesOut, WaitReturns, CallsReturn, Ended
  <2>3. PICK v : /\ watchers' = (watchers \ {w}) \cup {v}
                 /\ v.run = w.run /\ v.pc = pc /\ v.ok = ok
    BY <1>1, <2>2, WatchSame
  <2>4. LaunchOK' /\ OutcomeIsTheJobs'
    BY <1>1, <1>2, <2>1, <2>3
    DEF EndRows, TasksOK, LaunchOK, Unwatched, OutcomeIsTheJobs
  <2>5. KeptOK'
    BY <1>1, <1>2, <1>3, <2>1, <2>3 DEF EndRows, TasksOK, KeptOK, Unwatched, Over
  <2>6. WatcherOK(v)'
    BY <1>1, <1>2, <2>1, <2>2, <2>3 DEF WatcherOK, Over
  <2>7. \A u \in watchers \ {w} : WatcherOK(u)'
    BY <1>1, <2>1 DEF EndRows, TasksOK, WatchersOK, WatcherOK, Over
  <2>8. WatchersOK'
    BY <1>2, <2>3, <2>6, <2>7 DEF EndRows, TasksOK, WatchersOK
  <2>9. QED  BY <1>4, <2>4, <2>5, <2>8 DEF TasksOK
<1>6. CASE GangDelete(w)
  <2>1. UNCHANGED runs /\ Running' = Running
    BY <1>6 DEF GangDelete, Running
  <2>2. PICK v : /\ watchers' = (watchers \ {w}) \cup {v}
                 /\ v.run = w.run /\ v.pc = "gangRecord" /\ v.ok = FALSE
    BY <1>1, <1>6, WatchSame DEF GangDelete
  <2>3. jobs'[w.run].state = "gone" /\ \A n \in DOMAIN runs : n # w.run => jobs'[n] = jobs[n]
    BY <1>1, <1>2, <1>6, DeleteEnds DEF GangDelete, CallsReturn, WatcherOK
  <2>4. LaunchOK' /\ OutcomeIsTheJobs'
    BY <1>1, <1>2, <2>1, <2>2, <2>3
    DEF EndRows, TasksOK, LaunchOK, Unwatched, OutcomeIsTheJobs
  <2>5. KeptOK'
    BY <1>1, <1>2, <1>3, <2>1, <2>2, <2>3 DEF EndRows, TasksOK, KeptOK, Unwatched, Over
  <2>6. WatcherOK(v)'
    BY <1>1, <1>2, <2>1, <2>2, <2>3 DEF WatcherOK, Over
  <2>7. \A u \in watchers \ {w} : WatcherOK(u)'
    BY <1>1, <1>2, <2>1, <2>3 DEF EndRows, TasksOK, WatchersOK, WatcherOK, Over
  <2>8. WatchersOK'
    BY <1>2, <2>2, <2>6, <2>7 DEF EndRows, TasksOK, WatchersOK
  <2>9. QED  BY <1>4, <2>4, <2>5, <2>8 DEF TasksOK
<1>7. CASE Record(w)
  <2>1. PICK status \in Ended :
          FinishJobRun(w.run, status) /\ status = (IF w.ok THEN "succeeded" ELSE "failed")
    BY <1>7 DEF Record, Ended
  <2>2. /\ runs'[w.run].status = status /\ DOMAIN runs' = DOMAIN runs
        /\ runs'[w.run].owner = runs[w.run].owner
        /\ \A r \in DOMAIN runs : r # w.run => runs'[r] = runs[r]
    BY <1>1, <1>2, <2>1, FinishRow
  <2>3. UNCHANGED jobs /\ watchers' = watchers \ {w} /\ w.ok \in BOOLEAN
        /\ w.pc \in {"record", "gangRecord"}
    BY <1>2, <1>7 DEF Record, WatcherType
  <2>4. LaunchOK'
    BY <1>1, <1>2, <2>2, <2>3 DEF EndRows, TasksOK, LaunchOK, Unwatched, Current
  <2>5. KeptOK'
    BY <1>1, <1>2, <1>3, <2>2, <2>3 DEF EndRows, TasksOK, KeptOK, Unwatched, Over, Running
  <2>6. WatchersOK'
    BY <1>1, <1>2, <2>2, <2>3 DEF EndRows, TasksOK, WatchersOK, WatcherOK, Over, Running
  <2>7. status = "succeeded" => jobs[w.run].state \in {"succeeded", "gone"}
    BY <1>2, <2>1, <2>3 DEF WatcherOK, EndRows, TasksOK, KeptOK, Over
  <2>8. status = "failed" => jobs[w.run].state \notin {"pending", "running"}
    BY <1>2, <2>1, <2>3 DEF WatcherOK, Over
  <2>9. OutcomeIsTheJobs'
    BY <2>1, <2>2, <2>3, <2>7, <2>8 DEF EndRows, TasksOK, OutcomeIsTheJobs
  <2>10. QED  BY <1>4, <2>4, <2>5, <2>6, <2>9 DEF TasksOK
<1>8. QED  BY <1>5, <1>6, <1>7 DEF WatcherStep

\* A Job expires only while the server is down.
LEMMA ClusterKeepsEnded ==
    ASSUME RunTypeOK, Cluster, mode # "down"
    PROVE  \A r \in DOMAIN runs : jobs[r].state \in Ended => jobs'[r].state = jobs[r].state
<1>1. PICK r \in DOMAIN jobs :
         JobStarts(r) \/ JobEnds(r) \/ JobExpires(r) \/ \E o \in Reports : JobReports(r, o)
  BY DEF Cluster
<1>2. jobs[r].state \in {"pending", "running"} /\ r \in DOMAIN runs
  BY <1>1, Rows DEF JobStarts, JobEnds, JobSucceeds, JobFails, JobExpires, JobReports, SetJob
<1>3. /\ DOMAIN jobs' = DOMAIN jobs /\ DOMAIN jobs = DOMAIN runs
      /\ \A n \in DOMAIN jobs : n # r => jobs'[n] = jobs[n]
  BY <1>1, Rows DEF JobStarts, JobEnds, JobSucceeds, JobFails, JobExpires, JobReports, SetJob
<1>4. QED  BY <1>2, <1>3 DEF Ended

LEMMA ClusterKeepsTasks ==
    ASSUME CallsReturn, SweepInv, EndRows, Cluster, UNCHANGED sweepVars
    PROVE  TasksOK'
<1>1. RunTypeOK /\ Current' = Current /\ Launching' = Launching /\ UNCHANGED holder
      /\ (\A r : GivenUp(r)' = GivenUp(r))
  BY SameSweep DEF SweepInv, TypeOK
<1>2. /\ UNCHANGED <<runs, watchers, starters, todo, mode>>
      /\ \A r \in DOMAIN runs :
            \/ jobs'[r].state = jobs[r].state
            \/ /\ jobs[r].state = "pending" /\ jobs'[r].state = "running"
            \/ /\ jobs[r].state \in {"pending", "running"} /\ jobs'[r].state \in Ended
            \/ /\ jobs[r].state \in Ended /\ jobs'[r].state = "gone"
  BY <1>1, ClusterMoves
<1>3. /\ \A v \in watchers : v.run \in DOMAIN runs
      /\ starters \subseteq DOMAIN runs
      /\ holder.pc \in {"apply", "markFailed"} => holder.run \in DOMAIN runs
      /\ Running' = Running
  BY <1>1, <1>2 DEF RunTypeOK, EndRows, TasksOK, LaunchOK, Current, Running
<1>4. LaunchOK'
  BY <1>1, <1>2, <1>3 DEF EndRows, TasksOK, LaunchOK, Unwatched, Ended
<1>5. KeptOK'
  BY <1>1, <1>2, <1>3 DEF EndRows, TasksOK, KeptOK, Unwatched, Over, Ended
<1>6. WatchersOK'
  <2>1. CASE mode = "down"
    BY <1>2, <2>1 DEF EndRows, TasksOK, ModesOK, WatchersOK
  <2>2. CASE mode # "down"
    <3>1. \A r \in DOMAIN runs : jobs[r].state \in Ended => jobs'[r].state = jobs[r].state
      BY <1>1, <2>2, ClusterKeepsEnded
    <3>2. QED
      BY <1>1, <1>2, <1>3, <3>1 DEF EndRows, TasksOK, WatchersOK, WatcherOK, Over, Ended
  <2>3. QED  BY <2>1, <2>2
<1>7. ModesOK' /\ OutcomeIsTheJobs'
  BY <1>1, <1>2 DEF EndRows, TasksOK, ModesOK, OutcomeIsTheJobs, Ended
<1>8. QED  BY <1>4, <1>5, <1>6, <1>7 DEF TasksOK

\* Startup: what it has still to look at, nobody watches.
LEMMA StartupKeepsTasks ==
    ASSUME CallsReturn, SweepInv, EndRows, Startup, UNCHANGED sweepVars
    PROVE  TasksOK'
<1>1. RunTypeOK /\ Current' = Current /\ Launching' = Launching /\ UNCHANGED holder
      /\ (\A r : GivenUp(r)' = GivenUp(r))
  BY SameSweep DEF SweepInv, TypeOK
<1>2. mode \notin {"up", "resumed"}
  BY DEF Startup, Restart, ListRunning, ResumeRun, Resumed
<1>3. Current = {} /\ holder.pc \notin {"apply", "mark", "markFailed"}
  BY <1>2 DEF Current, EndRows, TasksOK, ModesOK, SweepInv, HolderInv, HolderShape
<1>4. LaunchOK'
  BY <1>1, <1>3 DEF LaunchOK
<1>5. CASE Restart \/ Resumed \/ ListRunning
  <2>1. UNCHANGED <<runs, jobs, watchers, starters>> /\ Running' = Running
    BY <1>5 DEF Restart, Resumed, ListRunning, Running
  <2>2. \A r \in todo' : (r \in Running \/ GivenUp(r)) /\ Unwatched(r)
    BY <1>5 DEF Restart, Resumed, ListRunning, EndRows, TasksOK, KeptOK, ModesOK, Unwatched
  <2>3. KeptOK'
    BY <1>1, <2>1, <2>2 DEF EndRows, TasksOK, KeptOK, Unwatched, Over
  <2>4. WatchersOK' /\ OutcomeIsTheJobs'
    BY <1>1, <2>1 DEF EndRows, TasksOK, WatchersOK, WatcherOK, Over, OutcomeIsTheJobs
  <2>5. ModesOK'
    BY <1>1, <1>5, <2>1 DEF Restart, Resumed, ListRunning, EndRows, TasksOK, ModesOK
  <2>6. QED  BY <1>4, <2>3, <2>4, <2>5 DEF TasksOK
<1>6. CASE ResumeRun
  <2> DEFINE r == Oldest(todo)
  <2>1. /\ r \in todo /\ r \in DOMAIN runs /\ todo' = todo \ {r} /\ mode = "resuming"
        /\ UNCHANGED <<jobs, starters, mode>>
        /\ \A v \in watchers : v.run # r
        /\ (r \in Running \/ GivenUp(r)) /\ (GivenUp(r) => Over(r))
        /\ starters = {}
    BY <1>1, <1>6, ResumeEffect
    DEF ResumeRun, EndRows, TasksOK, KeptOK, ModesOK, Unwatched
  <2>2. \/ /\ UNCHANGED watchers
           /\ \E status \in Ended :
               /\ FinishJobRun(r, status)
               /\ status = "succeeded" => jobs[r].state = "succeeded"
               /\ status = "failed" => jobs[r].state \in {"failed", "none", "gone"}
        \/ /\ Attach(r, "resume") /\ UNCHANGED runs
           /\ jobs[r].state \in {"pending", "running"} \cup Ended
        \/ UNCHANGED <<runs, watchers>>
    BY <1>6 DEF ResumeRun, Ended
  <2> HIDE DEF r
  <2>3. ModesOK'
    BY <1>1, <1>2, <2>1 DEF EndRows, TasksOK, ModesOK
  <2>4. CASE /\ UNCHANGED watchers
             /\ \E status \in Ended :
                 /\ FinishJobRun(r, status)
                 /\ status = "succeeded" => jobs[r].state = "succeeded"
                 /\ status = "failed" => jobs[r].state \in {"failed", "none", "gone"}
    <3>1. PICK status \in Ended :
               /\ FinishJobRun(r, status)
               /\ status = "succeeded" => jobs[r].state = "succeeded"
               /\ status = "failed" => jobs[r].state \in {"failed", "none", "gone"}
      BY <2>4
    <3>2. /\ runs'[r].status = status /\ DOMAIN runs' = DOMAIN runs
          /\ \A m \in DOMAIN runs : m # r => runs'[m] = runs[m]
      BY <1>1, <2>1, <3>1, FinishRow
    <3>3. /\ \A v \in watchers : v.run \in DOMAIN runs
          /\ todo \subseteq DOMAIN runs
      BY <1>1 DEF RunTypeOK
    <3>4. KeptOK'
      BY <1>1, <2>1, <2>4, <3>2, <3>3 DEF EndRows, TasksOK, KeptOK, Unwatched, Over, Running
    <3>5. WatchersOK'
      BY <1>1, <2>1, <2>4, <3>2, <3>3
      DEF EndRows, TasksOK, WatchersOK, WatcherOK, Over, Running
    <3>6. OutcomeIsTheJobs'
      BY <2>1, <3>1, <3>2 DEF EndRows, TasksOK, OutcomeIsTheJobs
    <3>7. QED  BY <1>4, <2>3, <3>4, <3>5, <3>6 DEF TasksOK
  <2>5. CASE /\ Attach(r, "resume") /\ UNCHANGED runs
             /\ jobs[r].state \in {"pending", "running"} \cup Ended
    <3>1. PICK v : /\ watchers' = watchers \cup {v} /\ v.run = r /\ v.ok = FALSE
                   /\ v.pc \in {"gang", "wait"}
      BY <1>1, <2>1, <2>5, WatcherFits DEF Attach, Watcher
    <3>2. r \in Running /\ jobs[r].state # "none" /\ Running' = Running
      BY <2>1, <2>5 DEF Over, Ended, Running
    <3>3. KeptOK'
      BY <1>1, <2>1, <2>5, <3>1, <3>2 DEF EndRows, TasksOK, KeptOK, Unwatched, Over
    <3>4. WatchersOK'
      BY <1>1, <2>1, <2>5, <3>1, <3>2 DEF EndRows, TasksOK, WatchersOK, WatcherOK, Over
    <3>5. OutcomeIsTheJobs'
      BY <2>1, <2>5 DEF EndRows, TasksOK, OutcomeIsTheJobs
    <3>6. QED  BY <1>4, <2>3, <3>3, <3>4, <3>5 DEF TasksOK
  <2>6. CASE UNCHANGED <<runs, watchers>>
    <3>1. KeptOK' /\ WatchersOK' /\ OutcomeIsTheJobs'
      BY <1>1, <2>1, <2>6
      DEF EndRows, TasksOK, KeptOK, WatchersOK, WatcherOK, OutcomeIsTheJobs, Unwatched, Over,
          Running
    <3>2. QED  BY <1>4, <2>3, <3>1 DEF TasksOK
  <2>7. QED  BY <2>2, <2>4, <2>5, <2>6
<1>7. QED  BY <1>5, <1>6 DEF Startup

LEMMA RunStepKeeps ==
    ASSUME CallsReturn, SweepInv, EndRows, RunNext, UNCHANGED sweepVars
    PROVE  EndRows'
<1>1. TasksOK'
  BY RequestKeepsTasks, WatcherKeepsTasks, ClusterKeepsTasks, StartupKeepsTasks DEF RunNext
<1>2. QED  BY <1>1, RunStepCloses DEF EndRows

--------------------------------
\* The steps of the holder.

PrunePCs == {"pruneRun", "pruneTrial"}

\* Nothing is given up between two prunes.
LEMMA SameGivenUp ==
    ASSUME holder.pc \notin PrunePCs, holder'.pc \notin PrunePCs,
           \A k \in TrialIds : trials'[k].state = "pruned" <=> trials[k].state = "pruned",
           \A k \in TrialIds : trials[k].state = "pruned" => trials'[k].run = trials[k].run
    PROVE  \A r : GivenUp(r)' = GivenUp(r)
<1>1. ASSUME NEW r  PROVE GivenUp(r)' <=> GivenUp(r)
  BY DEF GivenUp, RunOf, PrunePCs
<1>2. \A r : GivenUp(r) \in BOOLEAN /\ GivenUp(r)' \in BOOLEAN
  BY DEF GivenUp
<1>3. QED  BY <1>1, <1>2

LEMMA SameTasks ==
    ASSUME EndRows, UNCHANGED <<runs, jobs, watchers, starters, todo>>,
           \A r : GivenUp(r)' = GivenUp(r), LaunchOK', ModesOK'
    PROVE  TasksOK'
  BY DEF EndRows, TasksOK, KeptOK, WatchersOK, WatcherOK, OutcomeIsTheJobs, Running, Over,
         Unwatched

LEMMA SameClosed ==
    ASSUME EndRows, UNCHANGED <<runs, trials>>, OrphanOK', QuietEnd'
    PROVE  ClosedOK'
  BY DEF EndRows, ClosedOK, OwnersOK, HarvestMatchesRun, RunOf

\* A trial is closed with what the row of its run says.
LEMMA TrialCloses ==
    ASSUME SweepInv, EndRows, UNCHANGED <<runs, sweep>>, sweep = "running",
           NEW k \in TrialIds, NEW s \in {"done", "failed"}, NEW o \in ReportOK,
           k \in In("running") \/ (k \in In("pending") /\ s = "failed"),
           FinishTrial(k, s, o),
           s = "done" => runs[RunOf(k)].status = "succeeded",
           s = "failed" /\ RunOf(k) # 0 => runs[RunOf(k)].status = "failed"
    PROVE  /\ OwnersOK' /\ HarvestMatchesRun' /\ QuietEnd'
           /\ \A j \in TrialIds : trials'[j].run = trials[j].run
           /\ \A j \in TrialIds : trials'[j].state = "pruned" <=> trials[j].state = "pruned"
<1>1. /\ trials' \in [TrialIds -> TrialType]
      /\ trials'[k].state = s
      /\ \A j \in TrialIds : trials'[j].run = trials[j].run
      /\ \A j \in TrialIds : j # k => trials'[j].state = trials[j].state
  BY FinishTrialRows DEF SweepInv, TrialEnds
<1>2. s = "done" => k \in In("running") /\ RunOf(k) # 0
  <2>1. k \in In("running") => RunOf(k) # 0
    BY Rows DEF SweepInv, TypeOK, HolderInv, RunningHaveRuns
  <2>2. QED  BY <2>1
<1>3. OwnersOK'
  BY <1>1, <1>2 DEF EndRows, ClosedOK, OwnersOK, RunOf
<1>4. HarvestMatchesRun'
  BY <1>1 DEF EndRows, ClosedOK, HarvestMatchesRun, RunOf
<1>5. QuietEnd'
  BY DEF QuietEnd
<1>6. \A j \in TrialIds : trials'[j].state = "pruned" <=> trials[j].state = "pruned"
  BY <1>1 DEF In
<1>7. QED  BY <1>1, <1>3, <1>4, <1>5, <1>6

\* The holder where it launches nothing.
LEMMA NoLaunch ==
    ASSUME holder'.pc \notin {"apply", "mark", "markFailed"}
    PROVE  LaunchOK' /\ Current' = {}
  BY DEF LaunchOK, Current

LEMMA TakeKeeps ==
    ASSUME SweepInv, EndRows, TickBegins \/ StopBegins \/ ReconcileBegins
    PROVE  EndRows'
<1>1. PICK op \in {"tick", "stop", "reconcile"}, pc \in {"scan", "act"} :
         /\ holder'.op = op /\ holder'.pc = pc
         /\ op = "tick" => mode = "up"
         /\ op = "stop" => mode # "down"
         /\ op = "reconcile" => mode = "resumed"
  BY DEF TickBegins, StopBegins, ReconcileBegins, Take, Alive, Free
<1>2. /\ UNCHANGED <<runVars, sweep, trials>> /\ holder.pc = "idle" /\ sweep = "running"
  BY FreeOK DEF TickBegins, StopBegins, ReconcileBegins, Take
<1>3. \A r : GivenUp(r)' = GivenUp(r)
  BY <1>1, <1>2, SameGivenUp DEF PrunePCs
<1>4. LaunchOK'
  BY <1>1, NoLaunch
<1>5. ModesOK'
  BY <1>1, <1>2 DEF EndRows, TasksOK, ModesOK, runVars
<1>6. TasksOK'
  BY <1>2, <1>3, <1>4, <1>5, SameTasks DEF runVars
<1>7. ClosedOK'
  BY <1>1, <1>2, SameClosed DEF runVars, OrphanOK, QuietEnd
<1>8. QED  BY <1>6, <1>7 DEF EndRows

\* A harvest closes a trial as its run ended.
LEMMA HarvestCloses ==
    ASSUME RunTypeOK, NEW k \in TrialIds, RunOf(k) \in DOMAIN runs, Harvest(k),
           runs[RunOf(k)].status # "running"
    PROVE  \E s \in {"done", "failed"}, o \in ReportOK :
              /\ FinishTrial(k, s, o)
              /\ s = "done" => runs[RunOf(k)].status = "succeeded"
              /\ s = "failed" => runs[RunOf(k)].status = "failed"
<1>1. runs[RunOf(k)] \in RowType
  BY Rows
<1>2. runs[RunOf(k)].status \in Ended
  BY <1>1 DEF RowType
<1>3. PICK o \in ReportOK :
        FinishTrial(k, IF runs[RunOf(k)].status = "failed" THEN "failed" ELSE "done", o)
  BY ObservedOK DEF Harvest
<1>4. QED  BY <1>2, <1>3 DEF Ended

\* Looking at the next of the running trials, in a tick or after a restart.
LEMMA ScanKeeps ==
    ASSUME SweepInv, EndRows, ScanTrial \/ ReconcileTrial \/ ReconcileFails
    PROVE  EndRows'
<1> DEFINE k == Oldest(holder.scan)
<1>1. /\ holder.pc \in {"scan", "orphan"} /\ holder.scan # {} /\ holder \in HolderType
      /\ holder.op # "none"
  BY FreeOK DEF ScanTrial, ReconcileTrial, ReconcileFails, Doing, SweepInv, TypeOK, HolderInv,
         HolderShape
<1>2. /\ k \in TrialIds /\ k \in In("running") /\ RunOf(k) \in DOMAIN runs
      /\ sweep = "running" /\ RunTypeOK /\ RunOf(k) # 0
  BY <1>1, Scanning, Rows DEF SweepInv, TypeOK, HolderInv, HolderShape
<1>3. UNCHANGED <<runVars, sweep>>
  BY DEF ScanTrial, ReconcileTrial, ReconcileFails
<1>4. holder'.op = holder.op /\ holder'.pc = "scan"
  <2>1. \/ \E o : holder' = [holder EXCEPT !.scan = @ \ {k}, !.view[k] = o] /\ holder.pc = "scan"
        \/ holder' = [holder EXCEPT !.scan = @ \ {k}] /\ holder.pc = "scan"
        \/ holder' = [holder EXCEPT !.pc = "scan", !.scan = @ \ {k}]
    BY DEF ScanTrial, ReconcileTrial, ReconcileFails, Reconciled, Doing
  <2> HIDE DEF k
  <2>2. QED  BY <1>1, <2>1 DEF HolderType
<1>5. \/ UNCHANGED trials
      \/ \E s \in {"done", "failed"}, o \in ReportOK :
            /\ FinishTrial(k, s, o)
            /\ s = "done" => runs[RunOf(k)].status = "succeeded"
            /\ s = "failed" => runs[RunOf(k)].status = "failed"
  <2>1. \/ UNCHANGED trials
        \/ Harvest(k) /\ runs[RunOf(k)].status # "running"
        \/ FinishTrial(k, "failed", NoReport) /\ holder.pc = "orphan"
    BY DEF ScanTrial, ReconcileTrial, ReconcileFails, Doing
  <2>2. CASE FinishTrial(k, "failed", NoReport) /\ holder.pc = "orphan"
    <3>1. runs[RunOf(k)].status = "failed"
      BY <2>2 DEF EndRows, ClosedOK, OrphanOK
    <3> HIDE DEF k
    <3>2. NoReport \in ReportOK
      BY DEF ReportOK
    <3>3. QED  BY <2>2, <3>1, <3>2
  <2> HIDE DEF k
  <2>3. QED  BY <1>2, <2>1, <2>2, HarvestCloses
<1> HIDE DEF k
<1>6. /\ OwnersOK' /\ HarvestMatchesRun' /\ QuietEnd'
      /\ \A j \in TrialIds : trials'[j].run = trials[j].run
      /\ \A j \in TrialIds : trials'[j].state = "pruned" <=> trials[j].state = "pruned"
  <2>1. CASE UNCHANGED trials
    BY <1>2, <1>3, <2>1
    DEF EndRows, ClosedOK, OwnersOK, HarvestMatchesRun, RunOf, QuietEnd, runVars
  <2>2. CASE \E s \in {"done", "failed"}, o \in ReportOK :
            /\ FinishTrial(k, s, o)
            /\ s = "done" => runs[RunOf(k)].status = "succeeded"
            /\ s = "failed" => runs[RunOf(k)].status = "failed"
    <3>1. PICK s \in {"done", "failed"}, o \in ReportOK :
            /\ FinishTrial(k, s, o)
            /\ s = "done" => runs[RunOf(k)].status = "succeeded"
            /\ s = "failed" => runs[RunOf(k)].status = "failed"
      BY <2>2
    <3>2. UNCHANGED <<runs, sweep>>
      BY <1>3 DEF runVars
    <3>3. QED  BY <1>2, <3>1, <3>2, TrialCloses
  <2>3. QED  BY <1>5, <2>1, <2>2
<1>7. \A r : GivenUp(r)' = GivenUp(r)
  BY <1>1, <1>4, <1>6, SameGivenUp DEF PrunePCs
<1>8. LaunchOK' /\ OrphanOK'
  BY <1>4, NoLaunch DEF OrphanOK
<1>9. ModesOK'
  BY <1>1, <1>3, <1>4, FreeOK DEF EndRows, TasksOK, ModesOK, runVars
<1>10. TasksOK'
  BY <1>3, <1>7, <1>8, <1>9, SameTasks DEF runVars
<1>11. QED  BY <1>6, <1>8, <1>10 DEF EndRows, ClosedOK

\* A step of the holder that leaves every row as it is.
LEMMA HolderMoves ==
    ASSUME SweepInv, EndRows, UNCHANGED <<runs, jobs, watchers, starters, todo, trials>>,
           holder.pc \notin PrunePCs, holder'.pc \in {"idle", "scan", "act"},
           ModesOK', QuietEnd'
    PROVE  EndRows'
<1>1. \A r : GivenUp(r)' = GivenUp(r)
  BY SameGivenUp DEF PrunePCs
<1>2. LaunchOK' /\ OrphanOK'
  BY NoLaunch DEF OrphanOK
<1>3. TasksOK' /\ ClosedOK'
  BY <1>1, <1>2, SameTasks, SameClosed
<1>4. QED  BY <1>3 DEF EndRows

LEMMA TurnsKeep ==
    ASSUME SweepInv, EndRows,
           Decide \/ TickEnds \/ StopEnds \/ ReconcileEnds \/ NothingToReconcile \/ CreateSweep
    PROVE  EndRows'
<1>1. UNCHANGED <<runs, jobs, watchers, starters, todo, trials>>
  BY DEF Decide, TickEnds, StopEnds, ReconcileEnds, NothingToReconcile, CreateSweep, runVars,
         sweepVars
<1>2. holder.pc \notin PrunePCs /\ holder'.pc \in {"idle", "scan", "act"}
  <2>1. CASE Decide
    BY <2>1 DEF Decide, Doing, PrunePCs, SweepInv, TypeOK, HolderType
  <2>2. CASE TickEnds \/ StopEnds \/ ReconcileEnds
    BY <2>2, FreeOK DEF TickEnds, StopEnds, ReconcileEnds, Doing, PrunePCs
  <2>3. CASE NothingToReconcile
    BY <2>3, FreeOK DEF NothingToReconcile, sweepVars, PrunePCs
  <2>4. CASE CreateSweep
    <3>1. sweep # "running" /\ UNCHANGED holder
      BY <2>4 DEF CreateSweep
    <3>2. holder = Free
      BY <3>1 DEF SweepInv, HolderInv, HolderShape
    <3>3. QED  BY <3>1, <3>2, FreeOK DEF PrunePCs
  <2>5. QED  BY <2>1, <2>2, <2>3, <2>4
<1>3. ModesOK'
  <2>1. CASE Decide
    <3>1. holder'.op = holder.op /\ mode' = mode /\ mode # "down"
      BY <2>1, FreeOK DEF Decide, Doing, SweepInv, TypeOK, HolderType, runVars, EndRows, TasksOK,
                  ModesOK
    <3>2. QED  BY <1>1, <3>1 DEF EndRows, TasksOK, ModesOK
  <2>2. CASE TickEnds \/ StopEnds
    BY <1>1, <2>2, FreeOK DEF TickEnds, StopEnds, runVars, EndRows, TasksOK, ModesOK
  <2>3. CASE ReconcileEnds \/ NothingToReconcile
    <3>1. holder' = Free /\ mode' = "up" /\ mode = "resumed"
      BY <2>3 DEF ReconcileEnds, NothingToReconcile, sweepVars, Doing, EndRows, TasksOK, ModesOK
    <3>2. QED  BY <1>1, <3>1, FreeOK DEF EndRows, TasksOK, ModesOK
  <2>4. CASE CreateSweep
    BY <1>1, <2>4 DEF CreateSweep, runVars, EndRows, TasksOK, ModesOK
  <2>5. QED  BY <2>1, <2>2, <2>3, <2>4
<1>4. QuietEnd'
  <2>1. CASE UNCHANGED sweep
    BY <1>1, <2>1 DEF EndRows, ClosedOK, QuietEnd, In
  <2>2. CASE CreateSweep
    BY <2>2 DEF CreateSweep, QuietEnd
  <2>3. CASE TickEnds /\ holder.finish
    <3>1. In("running") = {}
      BY <2>3 DEF SweepInv, HolderInv, HolderSets
    <3>2. QED  BY <1>1, <3>1 DEF QuietEnd, In
  <2>4. CASE StopEnds
    <3>1. In("running") = {}
      BY <2>4 DEF StopEnds, Doing, SweepInv, HolderInv, HolderSets
    <3>2. QED  BY <1>1, <3>1 DEF QuietEnd, In
  <2>5. QED
    BY <2>1, <2>2, <2>3, <2>4 DEF Decide, TickEnds, ReconcileEnds, NothingToReconcile, sweepVars
<1>5. QED  BY <1>1, <1>2, <1>3, <1>4, HolderMoves

\* Launching: a trial is launched by a run of its own, that nobody knows of yet.
LEMMA LaunchRefusedKeeps ==
    ASSUME SweepInv, EndRows, LaunchRefused \/ LaunchMarksFailed
    PROVE  EndRows'
<1>1. /\ holder.op = "tick" /\ holder.launch # {} /\ holder \in HolderType
      /\ holder.pc \in {"act", "markFailed"}
  BY DEF LaunchRefused, LaunchMarksFailed, Doing, SweepInv, TypeOK, HolderInv, HolderShape
<1>2. /\ Launching \in TrialIds /\ Launching \in In("pending") /\ sweep = "running"
      /\ UNCHANGED <<runVars, sweep>> /\ NoReport \in ReportOK
  BY <1>1, LaunchFacts DEF LaunchRefused, LaunchMarksFailed, ReportOK
<1>3. holder'.op = "tick" /\ holder'.pc = "act"
  <2>1. \E rest : \/ holder' = [holder EXCEPT !.launch = rest] /\ holder.pc = "act"
                  \/ holder' = [holder EXCEPT !.pc = "act", !.launch = rest, !.run = 0]
    BY DEF LaunchRefused, LaunchMarksFailed, NextLaunch, Doing
  <2>2. QED  BY <1>1, <2>1 DEF HolderType
<1>4. FinishTrial(Launching, "failed", NoReport) \/ UNCHANGED trials
  BY DEF LaunchRefused, LaunchMarksFailed
<1>5. RunOf(Launching) = 0
  BY <1>2 DEF EndRows, ClosedOK, OwnersOK, In
<1>6. /\ OwnersOK' /\ HarvestMatchesRun' /\ QuietEnd'
      /\ \A j \in TrialIds : trials'[j].run = trials[j].run
      /\ \A j \in TrialIds : trials'[j].state = "pruned" <=> trials[j].state = "pruned"
  <2>1. CASE UNCHANGED trials
    BY <1>2, <2>1
    DEF EndRows, ClosedOK, OwnersOK, HarvestMatchesRun, RunOf, QuietEnd, runVars
  <2>2. CASE FinishTrial(Launching, "failed", NoReport)
    BY <1>2, <1>5, <2>2, TrialCloses DEF runVars
  <2>3. QED  BY <1>4, <2>1, <2>2
<1>7. \A r : GivenUp(r)' = GivenUp(r)
  BY <1>1, <1>3, <1>6, SameGivenUp DEF PrunePCs
<1>8. LaunchOK' /\ OrphanOK'
  BY <1>3, NoLaunch DEF OrphanOK
<1>9. ModesOK'
  BY <1>1, <1>2, <1>3 DEF EndRows, TasksOK, ModesOK, runVars
<1>10. TasksOK'
  BY <1>2, <1>7, <1>8, <1>9, SameTasks DEF runVars
<1>11. QED  BY <1>6, <1>8, <1>10 DEF EndRows, ClosedOK

LEMMA LaunchCreatesKeeps ==
    ASSUME SweepInv, EndRows, LaunchCreates
    PROVE  EndRows'
<1>1. /\ holder.op = "tick" /\ holder.launch # {} /\ holder \in HolderType /\ RunTypeOK
      /\ holder.pc = "act"
  BY DEF LaunchCreates, Doing, SweepInv, TypeOK
<1>2. Launching \in TrialIds /\ Launching \in Nat /\ sweep = "running"
  BY <1>1, LaunchFacts DEF TrialIds
<1> DEFINE n == Len(runs) + 1
<1>3. /\ DOMAIN runs' = DOMAIN runs \cup {n}
      /\ runs'[n].status = "running" /\ runs'[n].owner = Launching
      /\ jobs'[n].state = "none"
      /\ \A r \in DOMAIN runs : runs'[r] = runs[r] /\ jobs'[r] = jobs[r]
      /\ n \notin DOMAIN runs /\ n \in Nat /\ n # 0
  <2>1. CreateJobRun(Launching, SweepNodes) /\ SweepNodes \in Nat \ {0}
    BY SweepAssumption DEF LaunchCreates
  <2>2. Len(runs) \in Nat /\ n \notin DOMAIN runs
    BY <1>1, Rows
  <2>3. PICK owner \in Nat, nodes \in Nat \ {0} : CreateJobRun(owner, nodes) /\ owner = Launching
    BY <1>2, <2>1
  <2>4. /\ DOMAIN runs' = DOMAIN runs \cup {n}
        /\ runs'[n].status = "running" /\ runs'[n].owner = owner
        /\ jobs'[n].state = "none"
        /\ \A r \in DOMAIN runs : runs'[r] = runs[r] /\ jobs'[r] = jobs[r]
    BY <1>1, <2>3, CreateRows
  <2>5. n \in Nat /\ n # 0
    BY <2>2
  <2> HIDE DEF n
  <2>6. QED  BY <2>2, <2>3, <2>4, <2>5
<1>4. UNCHANGED <<watchers, starters, todo, mode, sweep, trials>>
  BY DEF LaunchCreates
<1>5. /\ holder'.op = "tick" /\ holder'.pc = "apply" /\ holder'.run = n
      /\ Launching' = Launching
  <2>1. holder' = [holder EXCEPT !.pc = "apply", !.run = n]
    BY DEF LaunchCreates
  <2> HIDE DEF n
  <2>2. QED  BY <1>1, <2>1 DEF HolderType, Launching
<1> HIDE DEF n
<1>6. \A r : GivenUp(r)' = GivenUp(r)
  BY <1>1, <1>4, <1>5, SameGivenUp DEF PrunePCs
<1>7. /\ \A w \in watchers : w.run \in DOMAIN runs
      /\ starters \subseteq DOMAIN runs /\ todo \subseteq DOMAIN runs
      /\ \A k \in TrialIds : RunOf(k) \in DOMAIN runs \cup {0} /\ RunOf(k)' = RunOf(k)
  BY <1>1, <1>4 DEF RunTypeOK, SweepInv, TypeOK, RunOf
<1>8. ~ GivenUp(n)
  BY <1>3, <1>7 DEF GivenUp
<1>9. LaunchOK'
  BY <1>3, <1>4, <1>5, <1>7 DEF LaunchOK, Unwatched
<1>10. KeptOK'
  BY <1>3, <1>4, <1>6, <1>7, <1>8 DEF EndRows, TasksOK, KeptOK, Unwatched, Running, Over
<1>11. WatchersOK'
  BY <1>3, <1>4, <1>6, <1>7 DEF EndRows, TasksOK, WatchersOK, WatcherOK, Running, Over
<1>12. ModesOK' /\ OutcomeIsTheJobs'
  BY <1>1, <1>3, <1>4, <1>5 DEF EndRows, TasksOK, ModesOK, OutcomeIsTheJobs
<1>13. OwnersOK'
  BY <1>2, <1>3, <1>4, <1>7 DEF EndRows, ClosedOK, OwnersOK
<1>14. HarvestMatchesRun'
  <2>1. \A k \in TrialIds : trials[k].state = "done" => RunOf(k) # 0
    BY DEF EndRows, ClosedOK, OwnersOK
  <2>2. QED  BY <1>3, <1>4, <1>7, <2>1 DEF EndRows, ClosedOK, HarvestMatchesRun
<1>15. OrphanOK' /\ QuietEnd'
  BY <1>2, <1>4, <1>5 DEF OrphanOK, QuietEnd
<1>16. QED
  BY <1>9, <1>10, <1>11, <1>12, <1>13, <1>14, <1>15 DEF EndRows, TasksOK, ClosedOK

\* The run under launch is nobody else's.
LEMMA CurrentIsNew ==
    ASSUME SweepInv, EndRows, holder.pc \in {"apply", "mark", "markFailed"}
    PROVE  /\ holder.run \in DOMAIN runs /\ runs[holder.run].owner = Launching
           /\ Launching \in TrialIds /\ Launching \in In("pending") /\ Launching # 0
           /\ holder.op = "tick" /\ holder \in HolderType /\ RunTypeOK
           /\ RunOf(Launching) = 0 /\ sweep = "running" /\ mode = "up" /\ todo = {}
           /\ holder.run \notin starters /\ ~ GivenUp(holder.run)
           /\ \A k \in TrialIds : RunOf(k) # holder.run
<1>1. /\ holder.op = "tick" /\ holder.launch # {} /\ holder \in HolderType /\ RunTypeOK
      /\ holder.run \in DOMAIN runs /\ runs[holder.run].owner = Launching
  BY DEF SweepInv, TypeOK, HolderInv, HolderShape, EndRows, TasksOK, LaunchOK, Current
<1>2. Launching \in TrialIds /\ Launching \in In("pending") /\ sweep = "running" /\ Launching # 0
  BY <1>1, LaunchFacts DEF TrialIds
<1>3. RunOf(Launching) = 0 /\ mode = "up" /\ todo = {} /\ holder.run \notin starters
  BY <1>1, <1>2 DEF EndRows, TasksOK, ClosedOK, OwnersOK, In, ModesOK, KeptOK
<1>4. holder.run # 0
  BY <1>1, Rows
<1>5. \A k \in TrialIds : RunOf(k) # holder.run
  BY <1>1, <1>2, <1>3, <1>4 DEF EndRows, ClosedOK, OwnersOK
<1>6. ~ GivenUp(holder.run)
  BY <1>5 DEF GivenUp
<1>7. QED  BY <1>1, <1>2, <1>3, <1>5, <1>6

LEMMA LaunchAppliesKeeps ==
    ASSUME SweepInv, EndRows, LaunchApplies
    PROVE  EndRows'
<1>1. PICK r : r = holder.run
  OBVIOUS
<1>2. /\ r \in DOMAIN runs /\ runs[r].owner = Launching /\ holder.op = "tick"
      /\ holder \in HolderType /\ RunTypeOK /\ sweep = "running" /\ mode = "up" /\ todo = {}
      /\ r \notin starters /\ ~ GivenUp(r) /\ holder.pc = "apply" /\ r \in Nat
  BY <1>1, CurrentIsNew, Rows DEF LaunchApplies, Doing
<1>3. /\ runs[r].status = "running" /\ jobs[r].state = "none" /\ Unwatched(r)
  BY <1>1, <1>2 DEF EndRows, TasksOK, LaunchOK
<1>4. /\ jobs'[r].state = "pending"
      /\ \A m \in DOMAIN runs : m # r => jobs'[m] = jobs[m]
  BY <1>1, <1>2, PutJobState DEF LaunchApplies, ApplyRun, JobStates
<1>5. PICK v : /\ watchers' = watchers \cup {v} /\ v.run = r /\ v.ok = FALSE
               /\ v.pc \in {"gang", "wait"}
  BY <1>1, <1>2, WatcherFits DEF LaunchApplies, ApplyRun, Attach, Watcher
<1>6. UNCHANGED <<runs, starters, todo, mode, sweep, trials>> /\ Running' = Running
  BY DEF LaunchApplies, Running
<1>7. /\ holder'.op = "tick" /\ holder'.pc = "mark" /\ holder'.run = r
      /\ Launching' = Launching
  <2>1. holder' = [holder EXCEPT !.pc = "mark"]
    BY DEF LaunchApplies
  <2>2. QED  BY <1>1, <1>2, <2>1 DEF HolderType, Launching
<1>8. \A q : GivenUp(q)' = GivenUp(q)
  BY <1>2, <1>6, <1>7, SameGivenUp DEF PrunePCs
<1>9. starters \subseteq DOMAIN runs /\ \A w \in watchers : w.run \in DOMAIN runs
  BY <1>2 DEF RunTypeOK
<1>10. LaunchOK'
  BY <1>2, <1>6, <1>7 DEF LaunchOK, Current
<1>11. KeptOK'
  BY <1>2, <1>3, <1>4, <1>5, <1>6, <1>8, <1>9 DEF EndRows, TasksOK, KeptOK, Unwatched, Over
<1>12. WatchersOK'
  BY <1>2, <1>3, <1>4, <1>5, <1>6, <1>8, <1>9
  DEF EndRows, TasksOK, WatchersOK, WatcherOK, Over, Unwatched, Running
<1>13. ModesOK' /\ OutcomeIsTheJobs'
  BY <1>2, <1>3, <1>4, <1>6, <1>7 DEF EndRows, TasksOK, ModesOK, OutcomeIsTheJobs
<1>14. ClosedOK'
  BY <1>2, <1>6, <1>7, SameClosed DEF OrphanOK, QuietEnd
<1>15. QED  BY <1>10, <1>11, <1>12, <1>13, <1>14 DEF EndRows, TasksOK

LEMMA LaunchFailsKeeps ==
    ASSUME CallsReturn, SweepInv, EndRows, LaunchFails
    PROVE  EndRows'
<1>1. PICK r : r = holder.run
  OBVIOUS
<1>2. /\ r \in DOMAIN runs /\ runs[r].owner = Launching /\ holder.op = "tick"
      /\ holder \in HolderType /\ RunTypeOK /\ sweep = "running" /\ mode = "up" /\ todo = {}
      /\ r \notin starters /\ ~ GivenUp(r) /\ holder.pc = "apply" /\ r \in Nat
      /\ \A k \in TrialIds : RunOf(k) # r
  BY <1>1, CurrentIsNew, Rows DEF LaunchFails, Doing
<1>3. /\ jobs[r].state = "none" /\ Unwatched(r)
  BY <1>1, <1>2 DEF EndRows, TasksOK, LaunchOK
<1>4. /\ DOMAIN runs' = DOMAIN runs /\ runs'[r].status = "failed"
      /\ runs'[r].owner = runs[r].owner
      /\ \A m \in DOMAIN runs : m # r => runs'[m] = runs[m]
  BY <1>1, <1>2, FinishRow DEF LaunchFails, Ended
<1>5. UNCHANGED <<jobs, watchers, starters, todo, mode, sweep, trials>>
  BY <1>1, <1>2, ApplyFailsRow DEF LaunchFails, CallsReturn
<1>6. /\ holder'.op = "tick" /\ holder'.pc = "markFailed" /\ holder'.run = r
      /\ Launching' = Launching
  <2>1. holder' = [holder EXCEPT !.pc = "markFailed"]
    BY DEF LaunchFails
  <2>2. QED  BY <1>1, <1>2, <2>1 DEF HolderType, Launching
<1>7. \A q : GivenUp(q)' = GivenUp(q)
  BY <1>2, <1>5, <1>6, SameGivenUp DEF PrunePCs
<1>8. /\ starters \subseteq DOMAIN runs /\ \A w \in watchers : w.run \in DOMAIN runs
      /\ \A k \in TrialIds : RunOf(k) \in DOMAIN runs \cup {0} /\ RunOf(k)' = RunOf(k)
  BY <1>2, <1>5 DEF RunTypeOK, SweepInv, TypeOK, RunOf
<1>9. LaunchOK'
  BY <1>2, <1>3, <1>4, <1>5, <1>6 DEF LaunchOK, Current, Unwatched
<1>10. KeptOK'
  BY <1>2, <1>4, <1>5, <1>7, <1>8 DEF EndRows, TasksOK, KeptOK, Unwatched, Over, Running
<1>11. WatchersOK'
  BY <1>3, <1>4, <1>5, <1>7, <1>8
  DEF EndRows, TasksOK, WatchersOK, WatcherOK, Over, Unwatched, Running
<1>12. ModesOK' /\ OutcomeIsTheJobs'
  BY <1>2, <1>3, <1>4, <1>5, <1>6 DEF EndRows, TasksOK, ModesOK, OutcomeIsTheJobs
<1>13. OwnersOK'
  BY <1>4, <1>5, <1>8 DEF EndRows, ClosedOK, OwnersOK
<1>14. HarvestMatchesRun'
  <2>1. \A k \in TrialIds : trials[k].state = "done" => RunOf(k) # 0
    BY DEF EndRows, ClosedOK, OwnersOK
  <2>2. QED  BY <1>2, <1>4, <1>5, <1>8, <2>1 DEF EndRows, ClosedOK, HarvestMatchesRun
<1>15. OrphanOK' /\ QuietEnd'
  BY <1>2, <1>5, <1>6 DEF OrphanOK, QuietEnd
<1>16. QED
  BY <1>9, <1>10, <1>11, <1>12, <1>13, <1>14, <1>15 DEF EndRows, TasksOK, ClosedOK

LEMMA LaunchMarksKeeps ==
    ASSUME SweepInv, EndRows, LaunchMarks
    PROVE  EndRows'
<1>1. PICK r : r = holder.run
  OBVIOUS
<1>2. /\ r \in DOMAIN runs /\ runs[r].owner = Launching /\ holder.op = "tick"
      /\ holder \in HolderType /\ sweep = "running" /\ mode = "up"
      /\ Launching \in TrialIds /\ Launching \in In("pending")
      /\ holder.pc = "mark" /\ r # 0
  BY <1>1, CurrentIsNew, Rows DEF LaunchMarks, Doing
<1>3. /\ trials' \in [TrialIds -> TrialType]
      /\ trials'[Launching].state = "running" /\ trials'[Launching].run = r
      /\ \A j \in TrialIds : j # Launching => trials'[j] = trials[j]
  BY <1>1, <1>2, MarkTrialRows DEF LaunchMarks, SweepInv
<1>4. UNCHANGED <<runVars, sweep>> /\ holder'.op = "tick" /\ holder'.pc = "act"
  <2>1. \E rest : holder' = [holder EXCEPT !.pc = "act", !.launch = rest, !.run = 0]
    BY DEF LaunchMarks, NextLaunch
  <2>2. QED  BY <1>2, <2>1 DEF LaunchMarks, HolderType
<1>5. trials[Launching].state = "pending"
  BY <1>2 DEF In
<1>6. \A q : GivenUp(q)' = GivenUp(q)
  BY <1>2, <1>3, <1>4, <1>5, SameGivenUp DEF PrunePCs
<1>7. LaunchOK' /\ OrphanOK' /\ QuietEnd'
  BY <1>2, <1>4, NoLaunch DEF OrphanOK, QuietEnd
<1>8. ModesOK'
  BY <1>2, <1>4 DEF EndRows, TasksOK, ModesOK, runVars
<1>9. TasksOK'
  BY <1>4, <1>6, <1>7, <1>8, SameTasks DEF runVars
<1>10. OwnersOK' /\ HarvestMatchesRun'
  BY <1>2, <1>3, <1>4 DEF EndRows, ClosedOK, OwnersOK, HarvestMatchesRun, RunOf, runVars
<1>11. QED  BY <1>7, <1>9, <1>10 DEF EndRows, ClosedOK

\* Stopping a trial: its Job goes first, then its run and the trial itself.
LEMMA PruneDeletesKeeps ==
    ASSUME CallsReturn, SweepInv, EndRows, PruneDeletes
    PROVE  EndRows'
<1>1. PICK r : r = RunOf(Pruning)
  OBVIOUS
<1>2. /\ r \in DOMAIN runs /\ Pruning \in TrialIds /\ holder \in HolderType /\ RunTypeOK
      /\ holder.pc = "act" /\ sweep = "running" /\ Pruning \in In("running")
      /\ holder.op # "none"
  BY <1>1, PruneFacts DEF PruneDeletes
<1>3. /\ jobs'[r].state = IF jobs[r].state = "none" THEN "none" ELSE "gone"
      /\ \A n \in DOMAIN runs : n # r => jobs'[n] = jobs[n]
  BY <1>1, <1>2, DeleteEnds DEF PruneDeletes, CallsReturn
<1>4. UNCHANGED <<runs, watchers, starters, todo, mode, sweep, trials>> /\ Running' = Running
  BY DEF PruneDeletes, Running
<1>5. /\ holder'.op = holder.op /\ holder'.pc = "pruneRun" /\ Pruning' = Pruning
  <2>1. holder' = [holder EXCEPT !.pc = "pruneRun"]
    BY DEF PruneDeletes
  <2>2. QED  BY <1>2, <2>1 DEF HolderType, Pruning
<1>6. \A q : GivenUp(q)' <=> GivenUp(q) \/ q = r
  BY <1>1, <1>2, <1>4, <1>5 DEF GivenUp, RunOf
<1>7. /\ starters \subseteq DOMAIN runs /\ todo \subseteq DOMAIN runs
      /\ \A w \in watchers : w.run \in DOMAIN runs
  BY <1>2 DEF RunTypeOK
<1>8. LaunchOK' /\ OrphanOK' /\ QuietEnd'
  BY <1>2, <1>4, <1>5, NoLaunch DEF OrphanOK, QuietEnd
<1>9. KeptOK'
  <2>1. r \notin starters
    <3>1. r # 0
      BY <1>2, Rows
    <3>2. runs[r].owner = Pruning /\ Pruning # 0
      BY <1>1, <1>2, <3>1 DEF EndRows, ClosedOK, OwnersOK, TrialIds
    <3>3. QED  BY <3>2 DEF EndRows, TasksOK, KeptOK
  <2>2. QED
    BY <1>3, <1>4, <1>6, <1>7, <2>1 DEF EndRows, TasksOK, KeptOK, Unwatched, Over
<1>10. WatchersOK'
  <2>1. ASSUME NEW w \in watchers  PROVE WatcherOK(w)'
    <3>1. WatcherOK(w) /\ w.run \in DOMAIN runs
      BY <1>7 DEF EndRows, TasksOK, WatchersOK
    <3>2. QED  BY <1>3, <1>4, <1>6, <3>1 DEF WatcherOK, Over
  <2>2. QED  BY <1>4, <2>1 DEF EndRows, TasksOK, WatchersOK
<1>11. ModesOK' /\ OutcomeIsTheJobs'
  <2>1. mode # "down"
    BY <1>2, FreeOK DEF EndRows, TasksOK, ModesOK
  <2>2. QED
    BY <1>3, <1>4, <1>5, <2>1 DEF EndRows, TasksOK, ModesOK, OutcomeIsTheJobs
<1>12. ClosedOK'
  BY <1>4, <1>8, SameClosed
<1>13. QED  BY <1>8, <1>9, <1>10, <1>11, <1>12 DEF EndRows, TasksOK

LEMMA PruneFailsRunKeeps ==
    ASSUME SweepInv, EndRows, PruneFailsRun
    PROVE  EndRows'
<1>1. PICK r : r = RunOf(Pruning)
  OBVIOUS
<1>2. holder.pc = "pruneRun" /\ holder.prune # {}
  BY DEF PruneFailsRun, SweepInv, HolderInv, HolderShape
<1>3. /\ r \in DOMAIN runs /\ Pruning \in TrialIds /\ holder \in HolderType /\ RunTypeOK
      /\ sweep = "running" /\ Pruning \in In("running") /\ holder.op # "none" /\ r # 0
  BY <1>1, <1>2, PruneFacts, Rows
<1>4. GivenUp(r) /\ Over(r)
  BY <1>1, <1>2, <1>3 DEF GivenUp, EndRows, TasksOK, KeptOK
<1>5. /\ DOMAIN runs' = DOMAIN runs /\ runs'[r].status = "failed"
      /\ runs'[r].owner = runs[r].owner
      /\ \A m \in DOMAIN runs : m # r => runs'[m] = runs[m]
  BY <1>1, <1>3, FinishRow DEF PruneFailsRun, Ended
<1>6. UNCHANGED <<jobs, watchers, starters, todo, mode, sweep, trials>>
  BY DEF PruneFailsRun
<1>7. /\ holder'.op = holder.op /\ holder'.pc = "pruneTrial" /\ Pruning' = Pruning
  <2>1. holder' = [holder EXCEPT !.pc = "pruneTrial"]
    BY DEF PruneFailsRun
  <2>2. QED  BY <1>3, <2>1 DEF HolderType, Pruning
<1>8. \A q : GivenUp(q)' <=> GivenUp(q)
  BY <1>2, <1>6, <1>7 DEF GivenUp, RunOf
<1>9. /\ starters \subseteq DOMAIN runs /\ todo \subseteq DOMAIN runs
      /\ \A w \in watchers : w.run \in DOMAIN runs
      /\ \A k \in TrialIds : RunOf(k) \in DOMAIN runs \cup {0} /\ RunOf(k)' = RunOf(k)
  BY <1>3, <1>6 DEF RunTypeOK, SweepInv, TypeOK, RunOf
<1>10. runs[r].owner = Pruning /\ Pruning # 0 /\ r \notin starters
  <2>1. runs[r].owner = Pruning /\ Pruning # 0
    BY <1>1, <1>3 DEF EndRows, ClosedOK, OwnersOK, TrialIds
  <2>2. QED  BY <2>1 DEF EndRows, TasksOK, KeptOK
<1>11. LaunchOK' /\ OrphanOK' /\ QuietEnd'
  BY <1>3, <1>6, <1>7, NoLaunch DEF OrphanOK, QuietEnd
<1>12. KeptOK'
  BY <1>4, <1>5, <1>6, <1>8, <1>9, <1>10
  DEF EndRows, TasksOK, KeptOK, Unwatched, Over, Running
<1>13. WatchersOK'
  <2>1. ASSUME NEW w \in watchers  PROVE WatcherOK(w)'
    <3>1. WatcherOK(w) /\ w.run \in DOMAIN runs
      BY <1>9 DEF EndRows, TasksOK, WatchersOK
    <3>2. CASE w.run = r
      BY <1>4, <1>6, <1>8, <3>1, <3>2 DEF WatcherOK, Over
    <3>3. CASE w.run # r
      BY <1>5, <1>6, <1>8, <3>1, <3>3 DEF WatcherOK, Over, Running
    <3>4. QED  BY <3>2, <3>3
  <2>2. QED  BY <1>6, <2>1 DEF EndRows, TasksOK, WatchersOK
<1>14. ModesOK'
  <2>1. mode # "down"
    BY <1>3, FreeOK DEF EndRows, TasksOK, ModesOK
  <2>2. QED  BY <1>6, <1>7, <2>1 DEF EndRows, TasksOK, ModesOK
<1>15. OutcomeIsTheJobs'
  BY <1>4, <1>5, <1>6 DEF EndRows, TasksOK, OutcomeIsTheJobs, Over
<1>16. OwnersOK'
  BY <1>5, <1>6, <1>9 DEF EndRows, ClosedOK, OwnersOK
<1>17. HarvestMatchesRun'
  <2>1. \A k \in TrialIds : trials[k].state = "done" => RunOf(k) # 0
    BY DEF EndRows, ClosedOK, OwnersOK
  <2>2. \A k \in TrialIds : trials[k].state \in {"done", "failed"} => RunOf(k) # r
    BY <1>1, <1>3, <1>10 DEF EndRows, ClosedOK, OwnersOK, In
  <2>3. QED  BY <1>5, <1>6, <1>9, <2>1, <2>2 DEF EndRows, ClosedOK, HarvestMatchesRun
<1>18. QED
  BY <1>11, <1>12, <1>13, <1>14, <1>15, <1>16, <1>17 DEF EndRows, TasksOK, ClosedOK

LEMMA PruneEndsKeeps ==
    ASSUME SweepInv, EndRows, PruneEnds
    PROVE  EndRows'
<1>1. PICK k : k = Pruning
  OBVIOUS
<1>2. holder.pc = "pruneTrial" /\ holder.prune # {}
  BY DEF PruneEnds, SweepInv, HolderInv, HolderShape
<1>3. /\ k \in TrialIds /\ holder \in HolderType /\ sweep = "running" /\ k \in In("running")
      /\ holder.op # "none" /\ holder.view[k] \in ReportOK
  BY <1>1, <1>2, PruneFacts
<1>4. UNCHANGED <<runVars, sweep>> /\ FinishTrial(k, "pruned", holder.view[k])
  BY <1>1 DEF PruneEnds
<1>5. /\ trials'[k].state = "pruned"
      /\ \A j \in TrialIds : trials'[j].run = trials[j].run
      /\ \A j \in TrialIds : j # k => trials'[j].state = trials[j].state
  BY <1>3, <1>4, FinishTrialRows DEF SweepInv, TrialEnds
<1>6. holder'.op = holder.op /\ holder'.pc = "act"
  <2>1. \E rest : holder' = [holder EXCEPT !.pc = "act", !.prune = rest]
    BY DEF PruneEnds
  <2>2. QED  BY <1>3, <2>1 DEF HolderType
<1>7. \A q : GivenUp(q)' <=> GivenUp(q)
  BY <1>1, <1>2, <1>3, <1>5, <1>6 DEF GivenUp, RunOf, In
<1>8. \A q : GivenUp(q)' = GivenUp(q)
  <2>1. \A q : GivenUp(q) \in BOOLEAN /\ GivenUp(q)' \in BOOLEAN
    BY DEF GivenUp
  <2>2. QED  BY <1>7, <2>1
<1>9. LaunchOK' /\ OrphanOK' /\ QuietEnd'
  BY <1>3, <1>4, <1>6, NoLaunch DEF OrphanOK, QuietEnd
<1>10. ModesOK'
  <2>1. mode # "down"
    BY <1>3, FreeOK DEF EndRows, TasksOK, ModesOK
  <2>2. QED  BY <1>4, <1>6, <2>1 DEF EndRows, TasksOK, ModesOK, runVars
<1>11. TasksOK'
  BY <1>4, <1>8, <1>9, <1>10, SameTasks DEF runVars
<1>12. RunOf(k) # 0
  BY <1>3, Rows DEF SweepInv, TypeOK, HolderInv, RunningHaveRuns
<1>13. OwnersOK' /\ HarvestMatchesRun'
  BY <1>3, <1>4, <1>5, <1>12
  DEF EndRows, ClosedOK, OwnersOK, HarvestMatchesRun, RunOf, runVars
<1>14. QED  BY <1>9, <1>11, <1>13 DEF EndRows, ClosedOK

\* After a restart: nobody watches a run whose Job is gone with success.
LEMMA OrphanKeeps ==
    ASSUME SweepInv, EndRows, ReconcileOrphan
    PROVE  EndRows'
<1>1. PICK k : k = Oldest(holder.scan)
  OBVIOUS
<1>2. /\ k \in TrialIds /\ k \in In("running") /\ RunOf(k) \in DOMAIN runs
      /\ holder \in HolderType /\ holder.op = "reconcile" /\ holder.pc = "scan"
      /\ sweep = "running" /\ RunTypeOK
  BY <1>1, Scanning DEF ReconcileOrphan, Doing, SweepInv, TypeOK, HolderInv, HolderShape
<1>3. PICK r : r = RunOf(k)
  OBVIOUS
<1>4. /\ r \in DOMAIN runs /\ r # 0 /\ r \in Running /\ Over(r)
  BY <1>1, <1>2, <1>3, Rows DEF ReconcileOrphan, Running, Over
<1>5. /\ DOMAIN runs' = DOMAIN runs /\ runs'[r].status = "failed"
      /\ runs'[r].owner = runs[r].owner
      /\ \A m \in DOMAIN runs : m # r => runs'[m] = runs[m]
  BY <1>1, <1>2, <1>3, FinishRow DEF ReconcileOrphan, Ended
<1>6. UNCHANGED <<jobs, watchers, starters, todo, mode, sweep, trials>>
  BY DEF ReconcileOrphan
<1>7. /\ holder'.op = "reconcile" /\ holder'.pc = "orphan" /\ holder'.scan = holder.scan
  <2>1. holder' = [holder EXCEPT !.pc = "orphan"]
    BY DEF ReconcileOrphan
  <2>2. QED  BY <1>2, <2>1 DEF HolderType
<1>8. \A q : GivenUp(q)' = GivenUp(q)
  BY <1>2, <1>6, <1>7, SameGivenUp DEF PrunePCs
<1>9. /\ starters \subseteq DOMAIN runs /\ todo = {}
      /\ \A w \in watchers : w.run \in DOMAIN runs
      /\ \A j \in TrialIds : RunOf(j) \in DOMAIN runs \cup {0} /\ RunOf(j)' = RunOf(j)
  BY <1>2, <1>6 DEF RunTypeOK, SweepInv, TypeOK, RunOf, EndRows, TasksOK, ModesOK
<1>10. runs[r].owner = k /\ k # 0 /\ r \notin starters /\ ~ GivenUp(r)
  <2>1. runs[r].owner = k /\ k # 0
    BY <1>2, <1>3, <1>4 DEF EndRows, ClosedOK, OwnersOK, TrialIds
  <2>2. ~ GivenUp(r)
    BY <1>2, <1>3, <1>4, GivenUpTrial DEF EndRows, ClosedOK, In
  <2>3. QED  BY <2>1, <2>2 DEF EndRows, TasksOK, KeptOK
<1>11. LaunchOK'
  BY <1>7, NoLaunch
<1>12. OrphanOK' /\ QuietEnd'
  <2>1. RunOf(Oldest(holder.scan))' = r
    BY <1>1, <1>2, <1>3, <1>7, <1>9
  <2>2. QED  BY <1>2, <1>5, <1>6, <2>1 DEF OrphanOK, QuietEnd
<1>13. KeptOK'
  BY <1>4, <1>5, <1>6, <1>8, <1>9, <1>10
  DEF EndRows, TasksOK, KeptOK, Unwatched, Over, Running
<1>14. WatchersOK'
  <2>1. ASSUME NEW w \in watchers  PROVE WatcherOK(w)'
    <3>1. WatcherOK(w) /\ w.run \in DOMAIN runs
      BY <1>9 DEF EndRows, TasksOK, WatchersOK
    <3>2. CASE w.run = r
      <4>1. ~ w.ok
        BY <1>4, <1>10, <3>1, <3>2 DEF WatcherOK, Over
      <4>2. QED  BY <1>4, <1>5, <1>6, <1>8, <3>1, <3>2, <4>1 DEF WatcherOK, Over
    <3>3. CASE w.run # r
      BY <1>5, <1>6, <1>8, <3>1, <3>3 DEF WatcherOK, Over, Running
    <3>4. QED  BY <3>2, <3>3
  <2>2. QED  BY <1>6, <2>1 DEF EndRows, TasksOK, WatchersOK
<1>15. ModesOK'
  BY <1>2, <1>6, <1>7 DEF EndRows, TasksOK, ModesOK
<1>16. OutcomeIsTheJobs'
  BY <1>4, <1>5, <1>6 DEF EndRows, TasksOK, OutcomeIsTheJobs, Over
<1>17. OwnersOK'
  BY <1>5, <1>6, <1>9 DEF EndRows, ClosedOK, OwnersOK
<1>18. HarvestMatchesRun'
  <2>1. \A j \in TrialIds : trials[j].state = "done" => RunOf(j) # 0
    BY DEF EndRows, ClosedOK, OwnersOK
  <2>2. \A j \in TrialIds : trials[j].state \in {"done", "failed"} => RunOf(j) # r
    BY <1>2, <1>4, <1>10 DEF EndRows, ClosedOK, OwnersOK, In
  <2>3. QED  BY <1>5, <1>6, <1>9, <2>1, <2>2 DEF EndRows, ClosedOK, HarvestMatchesRun
<1>19. QED
  BY <1>11, <1>12, <1>13, <1>14, <1>15, <1>16, <1>17, <1>18 DEF EndRows, TasksOK, ClosedOK

LEMMA CrashKeeps ==
    ASSUME SweepInv, EndRows, SweepCrash
    PROVE  EndRows'
<1>1. /\ UNCHANGED <<runs, jobs, sweep, trials>> /\ holder' = Free /\ mode' = "down"
      /\ watchers' = {} /\ starters' = {} /\ todo' = {}
  BY DEF SweepCrash, Crash
<1>2. LaunchOK' /\ OrphanOK' /\ QuietEnd'
  BY <1>1, FreeOK, NoLaunch DEF OrphanOK, EndRows, ClosedOK, QuietEnd, In
<1>3. ModesOK' /\ WatchersOK' /\ OutcomeIsTheJobs'
  BY <1>1, FreeOK DEF ModesOK, WatchersOK, EndRows, TasksOK, OutcomeIsTheJobs
<1>4. \A r : GivenUp(r)' => GivenUp(r)
  BY <1>1, FreeOK DEF GivenUp, RunOf
<1>5. KeptOK'
  BY <1>1, <1>4 DEF KeptOK, EndRows, TasksOK, Over
<1>6. ClosedOK'
  BY <1>1, <1>2, SameClosed
<1>7. QED  BY <1>2, <1>3, <1>5, <1>6 DEF EndRows, TasksOK

LEMMA HolderStepKeeps ==
    ASSUME CallsReturn, SweepInv, EndRows, HolderStep
    PROVE  EndRows'
<1>1. CASE ScanTrial \/ ReconcileTrial \/ ReconcileFails
  BY <1>1, ScanKeeps
<1>2. CASE Decide \/ TickEnds \/ StopEnds \/ ReconcileEnds
  BY <1>2, TurnsKeep
<1>3. CASE LaunchRefused \/ LaunchMarksFailed
  BY <1>3, LaunchRefusedKeeps
<1>4. CASE LaunchCreates \/ LaunchApplies \/ LaunchMarks \/ LaunchFails
  BY <1>4, LaunchCreatesKeeps, LaunchAppliesKeeps, LaunchMarksKeeps, LaunchFailsKeeps
<1>5. CASE PruneDeletes \/ PruneFailsRun \/ PruneEnds \/ ReconcileOrphan
  BY <1>5, PruneDeletesKeeps, PruneFailsRunKeeps, PruneEndsKeeps, OrphanKeeps
<1>6. QED  BY <1>1, <1>2, <1>3, <1>4, <1>5 DEF HolderStep

LEMMA EndRowsStep ==
    ASSUME CallsReturn, SweepInv, EndRows, [Next]_vars
    PROVE  EndRows'
<1>1. CASE UNCHANGED vars
  <2>1. \A r : GivenUp(r)' = GivenUp(r)
    BY <1>1, SameSweep DEF vars, sweepVars
  <2>2. LaunchOK' /\ ModesOK' /\ OrphanOK' /\ QuietEnd'
    BY <1>1 DEF vars, sweepVars, runVars, EndRows, TasksOK, ClosedOK, LaunchOK, ModesOK,
       OrphanOK, QuietEnd, Current, Launching, Unwatched, RunOf, In
  <2>3. QED  BY <1>1, <2>1, <2>2, SameTasks, SameClosed DEF vars, sweepVars, runVars, EndRows
<1>2. QED
  BY <1>1, RunStepKeeps, HolderStepKeeps, CrashKeeps, TakeKeeps, TurnsKeep DEF Next, Loop

LEMMA EndRowsAtFirst == Init => EndRows
<1> SUFFICES ASSUME Init  PROVE EndRows
  OBVIOUS
<1>1. /\ runs = <<>> /\ jobs = <<>> /\ watchers = {} /\ starters = {} /\ todo = {}
      /\ mode = "up" /\ sweep = "none" /\ holder = Free
      /\ trials = [k \in TrialIds |-> NewTrial]
  BY DEF Init, RunInit
<1>2. \A k \in TrialIds : trials[k].state = "pending" /\ RunOf(k) = 0
  BY <1>1 DEF NewTrial, RunOf
<1>3. DOMAIN runs = {}
  BY <1>1
<1>4. TasksOK
  BY <1>1, <1>3, FreeOK
  DEF TasksOK, LaunchOK, Current, KeptOK, WatchersOK, ModesOK, OutcomeIsTheJobs
<1>5. ClosedOK
  BY <1>1, <1>2, <1>3, FreeOK DEF ClosedOK, OwnersOK, OrphanOK, HarvestMatchesRun, QuietEnd
<1>6. QED  BY <1>4, <1>5 DEF EndRows

--------------------------------
\* Strays: runs of trials that no trial knows, at most one for each crash.

\* A later run of the same trial was started.
Superseded(r) == \E q \in DOMAIN runs : q > r /\ runs[q].owner = runs[r].owner

\* Its trial does not know of it, and it is at work, or the trial may be run again.
Unknown(r) ==
    /\ r # RunOf(runs[r].owner) /\ r \notin Current
    /\ jobs[r].state # "none" \/ trials[runs[r].owner].state = "pending"

Strays == {r \in Launched : Superseded(r) \/ Unknown(r)}

LaunchedKept ==
    /\ DOMAIN runs \subseteq DOMAIN runs'
    /\ \A r \in DOMAIN runs : runs'[r].owner = runs[r].owner
    /\ \A r \in DOMAIN runs' \ DOMAIN runs : runs'[r].owner = 0

LEMMA StraysShrink ==
    ASSUME LaunchedKept, NEW S, \A r \in Launched : Unknown(r)' => Unknown(r) \/ r \in S
    PROVE  Strays' \subseteq Strays \cup S
<1>1. Launched' = Launched
  BY DEF LaunchedKept, Launched
<1>2. \A r \in Launched : Superseded(r)' => Superseded(r)
  BY DEF LaunchedKept, Launched, Superseded
<1>3. QED  BY <1>1, <1>2 DEF Strays

\* Only a launch puts the Job of a trial's run to work.
LEMMA RunStepStrays ==
    ASSUME CallsReturn, SweepInv, EndRows, RunNext, UNCHANGED sweepVars
    PROVE  Strays' \subseteq Strays
<1>1. RunTypeOK /\ Current' = Current /\ UNCHANGED trials
  BY SameSweep DEF SweepInv, TypeOK
<1>2. LaunchedKept
  BY <1>1, RunsGrow DEF LaunchedKept
<1>3. \A r \in Launched : jobs[r].state = "none" => jobs'[r].state = "none"
  <2>0. Launched \subseteq DOMAIN runs /\ DOMAIN jobs = DOMAIN runs
    BY <1>1, Rows DEF Launched
  <2>1. CASE \E nodes \in UserNodes : CreateRun(nodes)
    <3>1. \A r \in DOMAIN runs : jobs'[r] = jobs[r]
      BY <1>1, <2>1, RunAssumption, CreateRows DEF CreateRun
    <3>2. QED  BY <2>0, <3>1
  <2>2. CASE \E r \in starters : StartRun(r)
    <3>1. PICK r \in starters : StartRun(r)
      BY <2>2
    <3>2. r \in DOMAIN runs /\ r \notin Launched
      BY <1>1 DEF RunTypeOK, EndRows, TasksOK, KeptOK, Launched
    <3>3. \A m \in DOMAIN runs : m # r => jobs'[m] = jobs[m]
      BY <1>1, <3>1, <3>2, PutJobState DEF StartRun, ApplyRun, JobStates
    <3>4. QED  BY <2>0, <3>2, <3>3
  <2>3. CASE Cluster
    BY <1>1, <2>0, <2>3, ClusterMoves DEF Ended
  <2>4. CASE \E w \in watchers : WatcherStep(w)
    <3>1. PICK w \in watchers : WatcherStep(w)
      BY <2>4
    <3>2. CASE GangDelete(w)
      <4>1. w.run \in DOMAIN runs /\ jobs[w.run].state # "none"
        BY <1>1 DEF RunTypeOK, EndRows, TasksOK, WatchersOK, WatcherOK
      <4>2. \A m \in DOMAIN runs : m # w.run => jobs'[m] = jobs[m]
        BY <1>1, <3>2, <4>1, DeleteJobRow DEF GangDelete
      <4>3. QED  BY <2>0, <4>1, <4>2
    <3>3. QED
      BY <3>1, <3>2 DEF WatcherStep, GangStarts, GangTimesOut, WaitReturns, Record
  <2>5. CASE UNCHANGED jobs
    BY <2>5
  <2>6. CASE \E r \in starters : StartRunFails(r)
    <3>1. PICK r \in starters : StartRunFails(r)
      BY <2>6
    <3>2. UNCHANGED jobs
      BY <1>1, <3>1, ApplyFailsRow DEF StartRunFails, RunTypeOK, CallsReturn
    <3>3. QED  BY <3>2
  <2>7. QED
    BY <2>1, <2>2, <2>3, <2>4, <2>5, <2>6
    DEF RunNext, Requests, Startup, DeployBegins, DeployEnds, Restart, Resumed,
        ListRunning, ResumeRun
<1>4. \A r \in Launched : Unknown(r)' => Unknown(r)
  <2>1. \A r \in Launched : r \in DOMAIN runs
    BY DEF Launched
  <2>2. QED  BY <1>1, <1>2, <1>3, <2>1 DEF Unknown, RunOf, LaunchedKept
<1>5. Strays' \subseteq Strays \cup {}
  BY <1>2, <1>4, StraysShrink
<1>6. QED  BY <1>5

LEMMA FinishShrinks ==
    ASSUME TypeOK, NEW k \in TrialIds, NEW s \in TrialEnds, NEW o, FinishTrial(k, s, o)
    PROVE  \A j \in TrialIds : /\ trials'[j].run = trials[j].run
                               /\ trials'[j].state = "pending" => trials[j].state = "pending"
<1>1. CASE UNCHANGED trials
  BY <1>1
<1>2. CASE trials' = [trials EXCEPT ![k].state = s, ![k].report = o]
  <2>1. trials \in [TrialIds -> TrialType]
    BY DEF TypeOK
  <2> DEFINE e == [trials[k] EXCEPT !.state = s, !.report = o]
  <2>2. e.state = s /\ e.run = trials[k].run /\ s # "pending"
    BY <2>1 DEF TrialType, TrialEnds
  <2>3. trials' = [trials EXCEPT ![k] = e]
    BY <1>2
  <2> HIDE DEF e
  <2>4. QED  BY <2>1, <2>2, <2>3
<1>3. QED  BY <1>1, <1>2 DEF FinishTrial

\* A step of the holder that has no run under launch.
LEMMA QuietStrays ==
    ASSUME SweepInv, EndRows, LaunchedKept, Current' = Current,
           \A r \in Launched : jobs'[r].state # "none" => jobs[r].state # "none" \/ r \in Current,
           \A k \in TrialIds : /\ trials'[k].run = trials[k].run
                               /\ trials'[k].state = "pending" => trials[k].state = "pending"
    PROVE  Strays' \subseteq Strays
<1>1. \A r \in Launched : r \in DOMAIN runs /\ runs[r].owner \in TrialIds
  BY DEF Launched, EndRows, ClosedOK, OwnersOK
<1>2. \A r \in Launched : Unknown(r)' => Unknown(r)
  BY <1>1 DEF Unknown, RunOf, LaunchedKept
<1>3. Strays' \subseteq Strays \cup {}
  BY <1>2, StraysShrink
<1>4. QED  BY <1>3

LEMMA RowsStay ==
    ASSUME UNCHANGED runs
    PROVE  LaunchedKept
  BY DEF LaunchedKept

LEMMA FinishedStays ==
    ASSUME RunTypeOK, NEW r \in DOMAIN runs, NEW status \in Ended, FinishJobRun(r, status)
    PROVE  LaunchedKept
  BY FinishRow DEF LaunchedKept

LEMMA HolderStrays ==
    ASSUME CallsReturn, SweepInv, EndRows,
           \/ ScanTrial \/ ReconcileTrial \/ ReconcileFails \/ ReconcileOrphan
           \/ LaunchRefused \/ LaunchApplies \/ LaunchFails
           \/ PruneDeletes \/ PruneFailsRun \/ PruneEnds
    PROVE  Strays' \subseteq Strays
<1>1. holder \in HolderType /\ TypeOK /\ RunTypeOK /\ "failed" \in TrialEnds
      /\ "pruned" \in TrialEnds /\ "done" \in TrialEnds
  BY DEF SweepInv, TypeOK, TrialEnds
<1>2. CASE ScanTrial \/ ReconcileTrial \/ ReconcileFails
  <2> DEFINE k == Oldest(holder.scan)
  <2>1. holder.pc \in {"scan", "orphan"} /\ holder.scan # {}
    BY <1>2 DEF ScanTrial, ReconcileTrial, ReconcileFails, Doing, SweepInv, HolderInv, HolderShape
  <2>2. k \in TrialIds
    BY <2>1, Scanning
  <2>3. UNCHANGED <<runs, jobs>>
    BY <1>2 DEF ScanTrial, ReconcileTrial, ReconcileFails, runVars
  <2>4. \/ UNCHANGED trials
        \/ Harvest(k) \/ FinishTrial(k, "failed", NoReport)
    BY <1>2 DEF ScanTrial, ReconcileTrial, ReconcileFails
  <2>5. Current = {} /\ Current' = {}
    <3>1. \/ \E o : holder' = [holder EXCEPT !.scan = @ \ {k}, !.view[k] = o] /\ holder.pc = "scan"
          \/ holder' = [holder EXCEPT !.scan = @ \ {k}] /\ holder.pc = "scan"
          \/ holder' = [holder EXCEPT !.pc = "scan", !.scan = @ \ {k}]
      BY <1>2 DEF ScanTrial, ReconcileTrial, ReconcileFails, Reconciled, Doing
    <3> HIDE DEF k
    <3>2. holder'.pc = "scan"
      BY <1>1, <3>1 DEF HolderType
    <3>3. QED  BY <2>1, <3>2 DEF Current
  <2> HIDE DEF k
  <2>6. \A j \in TrialIds : /\ trials'[j].run = trials[j].run
                            /\ trials'[j].state = "pending" => trials[j].state = "pending"
    <3>1. CASE Harvest(k)
      <4>1. PICK s, o : s \in {"done", "failed"} /\ FinishTrial(k, s, o)
        BY <3>1 DEF Harvest
      <4>2. s \in TrialEnds
        BY <1>1, <4>1 DEF TrialEnds
      <4>3. QED  BY <1>1, <2>2, <4>1, <4>2, FinishShrinks
    <3>2. CASE FinishTrial(k, "failed", NoReport)
      BY <1>1, <2>2, <3>2, FinishShrinks
    <3>3. QED  BY <2>4, <3>1, <3>2
  <2>7. QED  BY <2>3, <2>5, <2>6, RowsStay, QuietStrays
<1>3. CASE LaunchRefused
  <2>1. UNCHANGED <<runs, jobs>> /\ holder.op = "tick" /\ holder.launch # {} /\ holder.pc = "act"
    BY <1>3 DEF LaunchRefused, runVars, Doing
  <2>2. Launching \in TrialIds
    BY <2>1, LaunchFacts
  <2>3. Current = {} /\ Current' = {}
    <3>1. \E rest : holder' = [holder EXCEPT !.launch = rest]
      BY <1>3 DEF LaunchRefused
    <3>2. QED  BY <1>1, <2>1, <3>1 DEF HolderType, Current
  <2>4. \A j \in TrialIds : /\ trials'[j].run = trials[j].run
                            /\ trials'[j].state = "pending" => trials[j].state = "pending"
    BY <1>1, <1>3, <2>2, FinishShrinks DEF LaunchRefused
  <2>5. QED  BY <2>1, <2>3, <2>4, RowsStay, QuietStrays
<1>4. CASE LaunchApplies \/ LaunchFails
  <2>1. /\ holder.run \in DOMAIN runs /\ UNCHANGED trials /\ Current = {holder.run}
        /\ Current' = Current
    <3>1. holder.pc = "apply" /\ UNCHANGED trials
      BY <1>4 DEF LaunchApplies, LaunchFails, Doing
    <3>2. \E pc \in {"mark", "markFailed"} : holder' = [holder EXCEPT !.pc = pc]
      BY <1>4 DEF LaunchApplies, LaunchFails
    <3>3. QED  BY <1>1, <3>1, <3>2, CurrentIsNew DEF Current, HolderType
  <2>2. LaunchedKept
    BY <1>1, <1>4, <2>1, RowsStay, FinishedStays DEF LaunchApplies, LaunchFails, Ended
  <2>3. \A r \in DOMAIN runs : r # holder.run => jobs'[r] = jobs[r]
    <3>1. CASE LaunchApplies
      BY <1>1, <2>1, <3>1, PutJobState DEF LaunchApplies, ApplyRun, JobStates
    <3>2. CASE LaunchFails
      BY <1>1, <2>1, <3>2, ApplyFailsRow DEF LaunchFails
    <3>3. QED  BY <1>4, <3>1, <3>2
  <2>4. \A r \in Launched : jobs'[r].state # "none" => jobs[r].state # "none" \/ r \in Current
    BY <2>1, <2>3 DEF Launched
  <2>5. QED  BY <2>1, <2>2, <2>4, QuietStrays
<1>5. CASE PruneDeletes \/ PruneFailsRun
  <2>1. holder.prune # {} /\ holder.pc \in {"act", "pruneRun"} /\ UNCHANGED trials
    BY <1>5 DEF PruneDeletes, PruneFailsRun, SweepInv, HolderInv, HolderShape
  <2>2. RunOf(Pruning) \in DOMAIN runs
    BY <2>1, PruneFacts
  <2>3. Current = {} /\ Current' = {}
    <3>1. \E pc \in {"pruneRun", "pruneTrial"} : holder' = [holder EXCEPT !.pc = pc]
      BY <1>5 DEF PruneDeletes, PruneFailsRun
    <3>2. QED  BY <1>1, <2>1, <3>1 DEF HolderType, Current
  <2>4. LaunchedKept
    BY <1>1, <1>5, <2>2, RowsStay, FinishedStays DEF PruneDeletes, PruneFailsRun, Ended
  <2>5. \A r \in DOMAIN runs : jobs'[r].state # "none" => jobs[r].state # "none"
    BY <1>1, <1>5, <2>2, DeleteEnds DEF PruneDeletes, PruneFailsRun, CallsReturn
  <2>6. QED  BY <2>1, <2>3, <2>4, <2>5, QuietStrays DEF Launched
<1>6. CASE PruneEnds
  <2>1. holder.prune # {} /\ holder.pc = "pruneTrial" /\ UNCHANGED <<runs, jobs>>
    BY <1>6 DEF PruneEnds, SweepInv, HolderInv, HolderShape, runVars
  <2>2. Pruning \in TrialIds
    BY <2>1, PruneFacts
  <2>3. Current = {} /\ Current' = {}
    <3>1. \E rest : holder' = [holder EXCEPT !.pc = "act", !.prune = rest]
      BY <1>6 DEF PruneEnds
    <3>2. QED  BY <1>1, <2>1, <3>1 DEF HolderType, Current
  <2>4. \A j \in TrialIds : /\ trials'[j].run = trials[j].run
                            /\ trials'[j].state = "pending" => trials[j].state = "pending"
    BY <1>1, <1>6, <2>2, FinishShrinks DEF PruneEnds
  <2>5. QED  BY <2>1, <2>3, <2>4, RowsStay, QuietStrays
<1>7. CASE ReconcileOrphan
  <2>1. holder.pc = "scan" /\ holder.scan # {} /\ UNCHANGED <<trials, jobs>>
    BY <1>7 DEF ReconcileOrphan, Doing
  <2>2. RunOf(Oldest(holder.scan)) \in DOMAIN runs
    BY <2>1, Scanning
  <2>3. Current = {} /\ Current' = {}
    <3>1. holder' = [holder EXCEPT !.pc = "orphan"]
      BY <1>7 DEF ReconcileOrphan
    <3>2. QED  BY <1>1, <2>1, <3>1 DEF HolderType, Current
  <2>4. LaunchedKept
    BY <1>1, <1>7, <2>2, FinishedStays DEF ReconcileOrphan, Ended
  <2>5. QED  BY <2>1, <2>3, <2>4, QuietStrays
<1>8. QED  BY <1>2, <1>3, <1>4, <1>5, <1>6, <1>7

\* The run that is launched supersedes only strays, and the trial then knows it.
LEMMA LaunchStrays ==
    ASSUME SweepInv, EndRows, LaunchCreates \/ LaunchMarks \/ LaunchMarksFailed
    PROVE  Strays' \subseteq Strays
<1>1. /\ holder \in HolderType /\ TypeOK /\ RunTypeOK /\ holder.op = "tick"
      /\ holder.launch # {}
  BY DEF SweepInv, TypeOK, HolderInv, HolderShape, LaunchCreates, LaunchMarks,
         LaunchMarksFailed, Doing
<1>2. /\ Launching \in TrialIds /\ Launching \in In("pending") /\ Launching # 0
      /\ RunOf(Launching) = 0 /\ trials[Launching].state = "pending"
  BY <1>1, LaunchFacts DEF In, EndRows, ClosedOK, OwnersOK, TrialIds
<1>3. \A r \in Launched : /\ r \in DOMAIN runs /\ r # 0 /\ r \in Nat
                          /\ runs[r].owner \in TrialIds
  BY <1>1, Rows DEF Launched, EndRows, ClosedOK, OwnersOK
<1>4. CASE LaunchCreates
  <2>0. PICK n : n = Len(runs) + 1
    OBVIOUS
  <2>1. Launching \in Nat
    BY <1>2 DEF TrialIds
  <2>2. PICK owner \in Nat, nodes \in Nat \ {0} : CreateJobRun(owner, nodes) /\ owner = Launching
    BY <1>4, <2>1, SweepAssumption DEF LaunchCreates
  <2>3. /\ DOMAIN runs' = DOMAIN runs \cup {n} /\ runs'[n].owner = owner
        /\ \A r \in DOMAIN runs : runs'[r] = runs[r] /\ jobs'[r] = jobs[r]
    BY <1>1, <2>0, <2>2, CreateRows
  <2>4. n \in Nat /\ \A r \in DOMAIN runs : r < n /\ r \in Nat
    BY <1>1, <2>0, Rows
  <2>5. Current = {} /\ Current' = {n} /\ UNCHANGED trials
    <3>1. holder.pc = "act" /\ UNCHANGED trials /\ holder' = [holder EXCEPT !.pc = "apply", !.run = n]
      BY <1>4, <2>0 DEF LaunchCreates, Doing
    <3>2. QED  BY <1>1, <3>1 DEF HolderType, Current
  <2>6. ~ Superseded(n)' /\ ~ Unknown(n)'
    <3>1. \A q \in DOMAIN runs' : ~ (q > n)
      BY <2>3, <2>4
    <3>2. n \in Current'
      BY <2>5
    <3>3. QED  BY <3>1, <3>2 DEF Superseded, Unknown
  <2>7. ASSUME NEW r \in Launched, Superseded(r)'  PROVE r \in Strays
    <3>1. CASE Superseded(r)
      BY <3>1 DEF Strays
    <3>2. CASE runs[r].owner = Launching
      BY <1>2, <1>3, <2>5, <3>2 DEF Strays, Unknown
    <3>3. QED  BY <1>3, <2>2, <2>3, <2>7, <3>1, <3>2 DEF Superseded
  <2>8. ASSUME NEW r \in Launched, Unknown(r)'  PROVE r \in Strays
    BY <1>3, <2>3, <2>5, <2>8 DEF Strays, Unknown, RunOf
  <2>9. \A r \in Launched' : r \in Launched \/ r = n
    BY <2>3 DEF Launched
  <2>10. ASSUME NEW r \in Strays'  PROVE r \in Strays
    <3>1. r \in Launched' /\ (Superseded(r)' \/ Unknown(r)')
      BY DEF Strays
    <3>2. QED  BY <2>6, <2>7, <2>8, <2>9, <3>1
  <2>11. QED  BY <2>10
<1>5. CASE LaunchMarks \/ LaunchMarksFailed
  <2>1. /\ holder.run \in DOMAIN runs /\ runs[holder.run].owner = Launching
        /\ Current = {holder.run} /\ holder.pc \in {"mark", "markFailed"}
    BY <1>5, CurrentIsNew DEF LaunchMarks, LaunchMarksFailed, Doing, Current
  <2>2. Current' = {} /\ UNCHANGED <<runs, jobs>>
    <3>1. \E rest : holder' = [holder EXCEPT !.pc = "act", !.launch = rest, !.run = 0]
      BY <1>5 DEF LaunchMarks, LaunchMarksFailed, NextLaunch
    <3>2. UNCHANGED <<runs, jobs>>
      BY <1>5 DEF LaunchMarks, LaunchMarksFailed, runVars
    <3>3. QED  BY <1>1, <3>1, <3>2 DEF HolderType, Current
  <2>3. CASE LaunchMarks
    <3>1. /\ trials'[Launching].state = "running" /\ trials'[Launching].run = holder.run
          /\ \A j \in TrialIds : j # Launching => trials'[j] = trials[j]
      BY <1>1, <1>2, <2>1, <2>3, MarkTrialRows DEF LaunchMarks
    <3>2. \A r \in Launched : Unknown(r)' => Unknown(r)
      BY <1>2, <1>3, <2>1, <2>2, <3>1 DEF Unknown, RunOf
    <3>3. Strays' \subseteq Strays \cup {}
      BY <2>2, <3>2, RowsStay, StraysShrink
    <3>4. QED  BY <3>3
  <2>4. CASE LaunchMarksFailed
    <3>1. FinishTrial(Launching, "failed", NoReport) /\ holder.pc = "markFailed"
      BY <2>4 DEF LaunchMarksFailed, Doing
    <3>2. /\ trials'[Launching].state = "failed"
          /\ \A j \in TrialIds : trials'[j].run = trials[j].run
          /\ \A j \in TrialIds : j # Launching => trials'[j].state = trials[j].state
      BY <1>1, <1>2, <3>1, FinishTrialRows DEF TrialEnds, ReportOK
    <3>3. jobs[holder.run].state = "none"
      BY <3>1 DEF EndRows, TasksOK, LaunchOK
    <3>4. \A r \in Launched : Unknown(r)' => Unknown(r)
      BY <1>2, <1>3, <2>1, <2>2, <3>2, <3>3 DEF Unknown, RunOf
    <3>5. Strays' \subseteq Strays \cup {}
      BY <2>2, <3>4, RowsStay, StraysShrink
    <3>6. QED  BY <3>5
  <2>5. QED  BY <1>5, <2>3, <2>4
<1>6. QED  BY <1>4, <1>5

\* The other steps, a crash apart.
LEMMA TurnStrays ==
    ASSUME SweepInv, EndRows,
           \/ UNCHANGED vars \/ TickBegins \/ StopBegins \/ ReconcileBegins
           \/ Decide \/ TickEnds \/ StopEnds \/ ReconcileEnds \/ NothingToReconcile
           \/ CreateSweep
    PROVE  Strays' \subseteq Strays
<1>1. holder \in HolderType
  BY DEF SweepInv, TypeOK
<1>2. UNCHANGED <<runs, jobs, trials>>
  BY DEF vars, runVars, sweepVars, TickBegins, StopBegins, ReconcileBegins, Take, Decide, TickEnds,
         StopEnds, ReconcileEnds, NothingToReconcile, CreateSweep
<1>3. Current' = Current
  <2>1. CASE UNCHANGED holder
    BY <2>1 DEF Current
  <2>2. CASE holder.pc \in {"idle", "scan", "act"} /\ holder'.pc \in {"idle", "scan", "act"}
    BY <2>2 DEF Current
  <2>3. CASE TickBegins \/ StopBegins \/ ReconcileBegins
    BY <2>2, <2>3, FreeOK DEF TickBegins, StopBegins, ReconcileBegins, Take, Free
  <2>4. CASE Decide
    BY <1>1, <2>2, <2>4 DEF Decide, Doing, HolderType
  <2>5. CASE TickEnds \/ StopEnds \/ ReconcileEnds
    BY <2>2, <2>5, FreeOK DEF TickEnds, StopEnds, ReconcileEnds, Doing
  <2>6. QED
    BY <2>1, <2>3, <2>4, <2>5 DEF NothingToReconcile, CreateSweep, vars, sweepVars
<1>4. QED  BY <1>2, <1>3, RowsStay, QuietStrays

LEMMA CrashStrays ==
    ASSUME SweepInv, EndRows, SweepCrash
    PROVE  Strays' \subseteq Strays \cup Current
<1>1. UNCHANGED <<runs, jobs, trials>> /\ Current' = {}
  BY FreeOK DEF SweepCrash, Crash, Current
<1>2. \A r \in Launched : Unknown(r)' => Unknown(r) \/ r \in Current
  BY <1>1 DEF Unknown, RunOf
<1>3. QED  BY <1>1, <1>2, RowsStay, StraysShrink

LEMMA RowSets ==
    ASSUME SweepInv, NEW S \in SUBSET (DOMAIN runs)
    PROVE  IsFiniteSet(S) /\ Cardinality(S) \in Nat
<1>1. DOMAIN runs = 1 .. Len(runs) /\ Len(runs) \in Nat
  BY Rows DEF SweepInv, TypeOK
<1>2. IsFiniteSet(DOMAIN runs)
  BY <1>1, FS_Interval
<1>3. IsFiniteSet(S)
  BY <1>2, FS_Subset
<1>4. QED  BY <1>3, FS_CardinalityType

StraysFew == Cardinality(Strays) <= used.crash

LEMMA CurrentCount ==
    ASSUME SweepInv, EndRows
    PROVE  /\ Current \in SUBSET (DOMAIN runs) /\ Cardinality(Current) <= 1
           /\ Cardinality(Current) \in Nat
           /\ Current # {} => holder.op = "tick" /\ holder.launch # {}
<1>1. Current \in SUBSET (DOMAIN runs)
  BY DEF EndRows, TasksOK, LaunchOK, Current
<1>2. Current # {} => holder.op = "tick" /\ holder.launch # {}
  BY DEF Current, SweepInv, HolderInv, HolderShape
<1>3. CASE Current = {}
  BY <1>1, <1>2, <1>3, NoneCard
<1>4. CASE Current = {holder.run}
  BY <1>1, <1>2, <1>4, FS_Singleton
<1>5. QED  BY <1>3, <1>4 DEF Current

LEMMA CrashesSpent ==
    ASSUME SweepInv, [Next]_vars
    PROVE  \/ used'.crash = used.crash
           \/ SweepCrash /\ used'.crash = used.crash + 1
<1>1. used \in [crash : Nat, user : Nat, deploy : Nat]
  BY DEF SweepInv, TypeOK, RunTypeOK
<1>2. CASE SweepCrash
  BY <1>1, <1>2 DEF SweepCrash, Crash, Spend
<1>3. CASE UNCHANGED used
  BY <1>3
<1>4. CASE RunNext
  <2>1. UNCHANGED used \/ Spend("user") \/ Spend("deploy")
    BY <1>4, WatcherEffect
    DEF RunNext, Requests, CreateRun, StartRun, StartRunFails, DeployBegins, DeployEnds, Startup,
        Restart, ListRunning, ResumeRun, Resumed, Cluster, JobStarts, JobEnds, JobSucceeds,
        JobFails, JobExpires, JobReports, SetJob, SweepInv, TypeOK
  <2>2. QED  BY <1>1, <2>1 DEF Spend
<1>5. QED
  BY <1>2, <1>3, <1>4
  DEF Next, Loop, HolderStep, ScanTrial, Decide, LaunchRefused, LaunchCreates, LaunchApplies,
      LaunchMarks, LaunchFails, LaunchMarksFailed, PruneDeletes, PruneFailsRun, PruneEnds,
      TickEnds, StopEnds, ReconcileTrial, ReconcileOrphan, ReconcileFails, ReconcileEnds,
      TickBegins, StopBegins, ReconcileBegins, Take, NothingToReconcile, CreateSweep, vars, runVars

LEMMA StraysStep ==
    ASSUME CallsReturn, SweepInv, EndRows, StraysFew, [Next]_vars, SweepInv'
    PROVE  StraysFew'
<1>1. /\ Strays \in SUBSET (DOMAIN runs) /\ IsFiniteSet(Strays) /\ Cardinality(Strays) \in Nat
  BY RowSets DEF Strays, Launched
<1>2. used.crash \in Nat /\ used'.crash \in Nat
  BY DEF SweepInv, TypeOK, RunTypeOK
<1>3. CASE SweepCrash
  <2>1. Strays' \subseteq Strays \cup Current /\ used'.crash = used.crash + 1
    <3>1. used \in [crash : Nat, user : Nat, deploy : Nat]
      BY DEF SweepInv, TypeOK, RunTypeOK
    <3>2. QED  BY <1>3, <3>1, CrashStrays DEF SweepCrash, Crash, Spend
  <2>2. /\ Current \in SUBSET (DOMAIN runs) /\ Cardinality(Current) <= 1
        /\ Cardinality(Current) \in Nat
    BY CurrentCount
  <2>3. IsFiniteSet(Current)
    BY <2>2, RowSets
  <2>4. /\ IsFiniteSet(Strays \cup Current)
        /\ Cardinality(Strays \cup Current)
             = Cardinality(Strays) + Cardinality(Current) - Cardinality(Strays \cap Current)
    BY <1>1, <2>3, FS_Union
  <2>5. Cardinality(Strays \cap Current) \in Nat
    BY <1>1, RowSets
  <2>6. Cardinality(Strays') <= Cardinality(Strays \cup Current) /\ IsFiniteSet(Strays')
    BY <2>1, <2>4, FS_Subset
  <2>7. Cardinality(Strays') \in Nat /\ Cardinality(Strays \cup Current) \in Nat
    BY <2>4, <2>6, FS_CardinalityType
  <2>8. QED  BY <1>1, <1>2, <2>1, <2>2, <2>4, <2>5, <2>6, <2>7 DEF StraysFew
<1>4. CASE ~ SweepCrash
  <2>1. Strays' \subseteq Strays
    BY <1>4, RunStepStrays, HolderStrays, LaunchStrays, TurnStrays DEF Next, Loop, HolderStep
  <2>2. Cardinality(Strays') <= Cardinality(Strays) /\ IsFiniteSet(Strays')
    BY <1>1, <2>1, FS_Subset
  <2>3. Cardinality(Strays') \in Nat
    BY <2>2, FS_CardinalityType
  <2>4. used'.crash = used.crash
    BY <1>4, CrashesSpent
  <2>5. QED  BY <1>1, <1>2, <2>2, <2>3, <2>4 DEF StraysFew
<1>5. QED  BY <1>3, <1>4

LEMMA StraysAtFirst == Init => StraysFew
<1> SUFFICES ASSUME Init  PROVE StraysFew
  OBVIOUS
<1>1. runs = <<>> /\ used.crash = 0
  BY DEF Init, RunInit
<1>2. Strays = {}
  BY <1>1 DEF Strays, Launched
<1>3. QED  BY <1>1, <1>2, NoneCard DEF StraysFew

\* The runs of a trial but for strays: it has one.
LEMMA OneRunEach ==
    ASSUME SweepInv, EndRows, StraysFew
    PROVE  Cardinality(Launched) <= Cardinality({runs[r].owner : r \in Launched}) + used.crash
<1> DEFINE owners == {runs[r].owner : r \in Launched}
           known == Launched \ Strays
           ownerOf == [r \in known |-> runs[r].owner]
<1>1. /\ Launched \in SUBSET (DOMAIN runs) /\ Strays \in SUBSET Launched
      /\ IsFiniteSet(Launched) /\ Cardinality(Launched) \in Nat
      /\ IsFiniteSet(Strays) /\ Cardinality(Strays) \in Nat
      /\ used.crash \in Nat
  BY RowSets DEF Launched, Strays, SweepInv, TypeOK, RunTypeOK
<1>2. owners \in SUBSET TrialIds
  BY DEF Launched, EndRows, ClosedOK, OwnersOK
<1>3. IsFiniteSet(owners) /\ Cardinality(owners) \in Nat
  BY <1>2, TrialSets
<1>4. ASSUME NEW q \in known, NEW r \in known, runs[q].owner = runs[r].owner  PROVE q = r
  <2>1. /\ q \in DOMAIN runs /\ r \in DOMAIN runs /\ q \in Nat /\ r \in Nat
        /\ ~ Superseded(q) /\ ~ Superseded(r)
    BY <1>1, Rows DEF Strays, SweepInv, TypeOK
  <2>2. ~ (q < r) /\ ~ (r < q)
    BY <1>4, <2>1 DEF Superseded
  <2>3. QED  BY <2>1, <2>2
<1>5. ownerOf \in Injection(known, owners)
  <2>1. ownerOf \in [known -> owners]
    BY <1>1
  <2>2. \A q, r \in known : ownerOf[q] = ownerOf[r] => q = r
    BY <1>4
  <2> HIDE DEF known, owners, ownerOf
  <2>3. QED  BY <2>1, <2>2 DEF Injection, IsInjective
<1>6. Cardinality(known) <= Cardinality(owners)
  <2> HIDE DEF known, owners, ownerOf
  <2>1. QED  BY <1>3, <1>5, FS_Injection
<1>7. Cardinality(known) = Cardinality(Launched) - Cardinality(Launched \cap Strays)
  BY <1>1, FS_Difference
<1>8. Launched \cap Strays = Strays
  BY <1>1
<1>9. Cardinality(known) \in Nat
  BY <1>1, RowSets
<1> HIDE DEF owners, known, ownerOf
<1>10. Cardinality(known) = Cardinality(Launched) - Cardinality(Strays)
  BY <1>7, <1>8
<1>11. Cardinality(Strays) <= used.crash
  BY DEF StraysFew
<1>12. Cardinality(Launched) <= Cardinality(owners) + used.crash
  BY <1>1, <1>3, <1>6, <1>9, <1>10, <1>11
<1>13. QED  BY <1>12 DEF owners

\* A Job of the sweep that is at work is a running trial's, the run's that is
\* being launched, or a stray's.
LEMMA ActiveAreKnown ==
    ASSUME SweepInv, EndRows, NEW r \in Launched \cap Active
    PROVE  r \in Strays \/ r \in Current \/ \E k \in In("running") : RunOf(k) = r
<1>1. /\ r \in DOMAIN runs /\ jobs[r].state \in {"pending", "running"}
      /\ runs[r].owner \in TrialIds
  BY DEF Launched, Active, EndRows, ClosedOK, OwnersOK
<1>2. ASSUME r \notin Strays, r \notin Current  PROVE runs[r].owner \in In("running")
  <2> DEFINE k == runs[r].owner
  <2>1. RunOf(k) = r /\ k \in TrialIds
    BY <1>1, <1>2 DEF Strays, Unknown
  <2>2. r \in Nat /\ r # 0
    BY <1>1, Rows DEF SweepInv, TypeOK
  <2>3. runs[r].status \notin {"failed", "succeeded"}
    BY <1>1 DEF EndRows, TasksOK, OutcomeIsTheJobs
  <2>4. trials[k].state \in TrialEnds \cup {"pending", "running"}
    BY <2>1 DEF SweepInv, TypeOK, TrialType
  <2> HIDE DEF k
  <2>5. trials[k].state # "pending"
    BY <2>1, <2>2 DEF EndRows, ClosedOK, OwnersOK
  <2>6. trials[k].state \notin {"done", "failed"}
    BY <2>1, <2>2, <2>3 DEF EndRows, ClosedOK, HarvestMatchesRun
  <2>7. trials[k].state # "pruned"
    <3>1. ASSUME trials[k].state = "pruned"  PROVE FALSE
      <4>1. GivenUp(r)
        BY <2>1, <3>1 DEF GivenUp
      <4>2. QED  BY <1>1, <4>1 DEF EndRows, TasksOK, KeptOK, Over
    <3>2. QED  BY <3>1
  <2>8. k \in In("running")
    BY <2>1, <2>4, <2>5, <2>6, <2>7 DEF In, TrialEnds
  <2>9. QED  BY <2>8 DEF k
<1>3. r \notin Strays /\ r \notin Current => RunOf(runs[r].owner) = r
  BY <1>1 DEF Strays, Unknown
<1>4. QED  BY <1>2, <1>3

LEMMA ActiveFew ==
    ASSUME SweepInv, EndRows, StraysFew
    PROVE  Cardinality(Launched \cap Active) <= Parallel + used.crash
<1> DEFINE T == In("running")
           tended == {r \in DOMAIN runs : \E k \in T : RunOf(k) = r}
           trialOf == [r \in tended |-> CHOOSE k \in T : RunOf(k) = r]
<1>1. /\ T \in SUBSET TrialIds /\ IsFiniteSet(T) /\ Cardinality(T) \in Nat
  BY InTrials, TrialSets
<1>2. Cardinality(tended) <= Cardinality(T)
  <2>1. ASSUME NEW r \in tended  PROVE trialOf[r] \in T /\ RunOf(trialOf[r]) = r
    OBVIOUS
  <2>2. trialOf \in Injection(tended, T)
    <3>1. trialOf \in [tended -> T]
      BY <2>1
    <3>2. \A q, r \in tended : trialOf[q] = trialOf[r] => q = r
      BY <2>1
    <3> HIDE DEF trialOf, tended, T
    <3>3. QED  BY <3>1, <3>2 DEF Injection, IsInjective
  <2> HIDE DEF trialOf, tended, T
  <2>3. QED  BY <1>1, <2>2, FS_Injection
<1>3. /\ tended \in SUBSET (DOMAIN runs) /\ IsFiniteSet(tended) /\ Cardinality(tended) \in Nat
  BY RowSets
<1>4. /\ Strays \in SUBSET (DOMAIN runs) /\ IsFiniteSet(Strays) /\ Cardinality(Strays) \in Nat
  BY RowSets DEF Strays, Launched
<1>5. /\ Current \in SUBSET (DOMAIN runs) /\ IsFiniteSet(Current)
      /\ Cardinality(Current) \in Nat /\ Cardinality(Current) <= 1
      /\ Current # {} => holder.op = "tick" /\ holder.launch # {}
  BY CurrentCount, RowSets
<1>6. Cardinality(T) + Cardinality(Current) <= Parallel
  <2>1. Parallel \in Nat /\ Cardinality(holder.launch) \in Nat
        /\ Cardinality(T) + Cardinality(holder.launch) <= Parallel
    BY SweepAssumption, TrialSets DEF SweepInv, TypeOK, HolderInv, HolderSets, HolderType
  <2>2. CASE Current = {}
    BY <1>1, <2>1, <2>2, NoneCard
  <2>3. CASE Current # {}
    <3>1. /\ Cardinality(holder.launch \ {Launching}) \in Nat
          /\ Cardinality(T) + Cardinality(holder.launch \ {Launching}) + 1 <= Parallel
      BY <1>5, <2>3, LaunchFacts
    <3>2. QED  BY <1>1, <1>5, <2>1, <3>1
  <2>4. QED  BY <2>2, <2>3
<1>7. Launched \cap Active \subseteq (tended \cup Current) \cup Strays
  BY ActiveAreKnown DEF Launched
<1> HIDE DEF T, tended, trialOf
<1>8. /\ IsFiniteSet(tended \cup Current)
      /\ Cardinality(tended \cup Current)
           = Cardinality(tended) + Cardinality(Current) - Cardinality(tended \cap Current)
  BY <1>3, <1>5, FS_Union
<1>9. /\ IsFiniteSet((tended \cup Current) \cup Strays)
      /\ Cardinality((tended \cup Current) \cup Strays)
           = Cardinality(tended \cup Current) + Cardinality(Strays)
             - Cardinality((tended \cup Current) \cap Strays)
  BY <1>4, <1>8, FS_Union
<1>10. /\ Cardinality(tended \cap Current) \in Nat
       /\ Cardinality((tended \cup Current) \cap Strays) \in Nat
       /\ Cardinality(tended \cup Current) \in Nat
       /\ Cardinality((tended \cup Current) \cup Strays) \in Nat
       /\ Cardinality(Launched \cap Active) \in Nat
  BY <1>3, <1>4, <1>5, RowSets DEF Launched
<1>11. Cardinality(Launched \cap Active) <= Cardinality((tended \cup Current) \cup Strays)
  BY <1>7, <1>9, FS_Subset
<1>12. used.crash \in Nat /\ Parallel \in Nat
  BY SweepAssumption DEF SweepInv, TypeOK, RunTypeOK
<1>13. Cardinality((tended \cup Current) \cup Strays) <= Parallel + used.crash
  BY <1>1, <1>2, <1>3, <1>4, <1>5, <1>6, <1>8, <1>9, <1>10, <1>12 DEF StraysFew
<1>14. QED  BY <1>10, <1>11, <1>12, <1>13

LEMMA EndIsQuiet ==
    ASSUME SweepInv, EndRows
    PROVE  EndedSweepIsQuiet
<1>1. ASSUME NEW k \in TrialIds, sweep \in {"done", "stopped"}
      PROVE  trials[k].state # "running" /\ RunOf(k) \notin Active
  <2>1. k \notin In("running")
    BY <1>1 DEF EndRows, ClosedOK, QuietEnd
  <2>2. trials[k].state # "running"
    BY <2>1 DEF In
  <2>3. CASE RunOf(k) \notin DOMAIN runs
    BY <2>2, <2>3, Rows DEF Active, SweepInv, TypeOK
  <2>4. CASE RunOf(k) \in DOMAIN runs
    <3>1. RunOf(k) \in Nat /\ RunOf(k) # 0
      BY <2>4, Rows DEF SweepInv, TypeOK
    <3>2. trials[k].state \in TrialEnds
      BY <2>2, <3>1 DEF SweepInv, TypeOK, TrialType, EndRows, ClosedOK, OwnersOK
    <3>3. CASE trials[k].state = "pruned"
      <4>1. GivenUp(RunOf(k))
        BY <3>3 DEF GivenUp
      <4>2. QED  BY <2>2, <2>4, <4>1 DEF EndRows, TasksOK, KeptOK, Over, Active
    <3>4. CASE trials[k].state \in {"done", "failed"}
      <4>1. runs[RunOf(k)].status \in {"succeeded", "failed"}
        BY <3>1, <3>4 DEF EndRows, ClosedOK, HarvestMatchesRun
      <4>2. QED  BY <2>2, <2>4, <4>1 DEF EndRows, TasksOK, OutcomeIsTheJobs, Active
    <3>5. QED  BY <3>2, <3>3, <3>4 DEF TrialEnds
  <2>5. QED  BY <2>3, <2>4
<1>2. QED  BY <1>1 DEF EndedSweepIsQuiet

\* Each trial is one run and ends as it did, the sweep's Jobs are at most
\* Parallel but for one that each crash hides, and an ended sweep leaves
\* nothing at work (sweepTickOne, sweepLaunchTrial, sweepHarvest, stopSweep):
\* when no deletion and no poll fails, no apply is done and not answered,
\* no Job outlives its watcher, and no
\* request is served before startup has its list.
THEOREM TrialsEndAsRunsAlways ==
    ASSUME ~ ServeEarly, Faults \cap {"answer", "delete", "read", "timeout"} = {}
    PROVE  Spec => []TrialsEndAsRuns
<1>1. CallsReturn
  BY DEF CallsReturn
<1>2. Init => EndRows /\ StraysFew
  BY EndRowsAtFirst, StraysAtFirst
<1>3. SweepInv /\ SweepInv' /\ EndRows /\ StraysFew /\ [Next]_vars => EndRows' /\ StraysFew'
  BY <1>1, EndRowsStep, StraysStep
<1>4. SweepInv /\ EndRows /\ StraysFew => TrialsEndAsRuns
  <2>1. ASSUME SweepInv, EndRows, StraysFew  PROVE TrialsEndAsRuns
    <3>1. HarvestMatchesRun
      BY <2>1 DEF EndRows, ClosedOK
    <3>2. OneRunPerTrial
      BY <2>1, OneRunEach, ActiveFew DEF OneRunPerTrial, Launched
    <3>3. QED  BY <2>1, <3>1, <3>2, EndIsQuiet DEF TrialsEndAsRuns, TrialsMatchRuns
  <2>2. QED  BY <2>1
<1>5. QED  BY <1>2, <1>3, <1>4, SweepInvAlways, PTL DEF Spec

================================
