----------------------------- MODULE PipelineProofs ----------------------------
(***************************************************************************)
(* Proofs about module Pipeline, for every DAG of steps and every value of *)
(* its other constants: its type invariant, that nothing is done for a     *)
(* step before the steps it needs are done, and that the rows implement    *)
(* PipelinePromise.  They rest on one inductive invariant, about what the  *)
(* holder of the mutex may rely on while the starting request, watchers,   *)
(* users and the cluster go on.                                            *)
(***************************************************************************)
EXTENDS PipelineProperties, RunProofs, FiniteSetTheorems

--------------------------------
\* The DAG.

LEMMA Steps == StepIds \in SUBSET Nat /\ Needs \in [StepIds -> SUBSET StepIds]
  BY PipelineAssumption DEF StepIds

\* Upstream is well defined although it recurs: the steps that every set
\* closed under Needs holds satisfy its equation.
LEMMA UpstreamUnfolds ==
    \A k \in StepIds : Upstream[k] = Needs[k] \cup UNION {Upstream[n] : n \in Needs[k]}
<1> DEFINE Closed(S, k) == Needs[k] \subseteq S /\ \A n \in S : Needs[n] \subseteq S
           Least(k)     == {n \in StepIds : \A S \in SUBSET StepIds : Closed(S, k) => n \in S}
           U            == [k \in StepIds |-> Least(k)]
           Unfolds(f)   == f = [k \in StepIds |-> Needs[k] \cup UNION {f[n] : n \in Needs[k]}]
<1>1. ASSUME NEW k \in StepIds
      PROVE  Needs[k] \subseteq Least(k) /\ \A n \in Least(k) : Needs[n] \subseteq Least(k)
  BY Steps
<1>2. ASSUME NEW k \in StepIds, NEW n \in Needs[k]  PROVE Least(n) \subseteq Least(k)
  BY Steps
<1>3. ASSUME NEW k \in StepIds
      PROVE  Least(k) \subseteq Needs[k] \cup UNION {Least(n) : n \in Needs[k]}
  <2> DEFINE R == Needs[k] \cup UNION {Least(n) : n \in Needs[k]}
  <2>1. R \in SUBSET StepIds
    BY Steps
  <2>2. ASSUME NEW x \in R  PROVE Needs[x] \subseteq R
    <3>1. CASE x \in Needs[k]
      <4>1. Needs[x] \subseteq Least(x)
        BY <1>1, <3>1, Steps
      <4>2. QED  BY <3>1, <4>1
    <3>2. ASSUME NEW n \in Needs[k], x \in Least(n)  PROVE Needs[x] \subseteq R
      <4>1. Needs[x] \subseteq Least(n)
        BY <1>1, <3>2, Steps
      <4>2. QED  BY <4>1
    <3>3. QED  BY <3>1, <3>2
  <2>3. Closed(R, k)
    <3> HIDE DEF Least
    <3>1. QED  BY <2>2
  <2> HIDE DEF R
  <2>4. QED  BY <2>1, <2>3 DEF R
<1>4. ASSUME NEW k \in StepIds
      PROVE  Least(k) = Needs[k] \cup UNION {Least(n) : n \in Needs[k]}
  <2> HIDE DEF Least
  <2>1. QED  BY <1>1, <1>2, <1>3
<1>5. ASSUME NEW k \in StepIds
      PROVE  U[k] = Needs[k] \cup UNION {U[n] : n \in Needs[k]}
  <2>1. \A n \in Needs[k] : U[n] = Least(n)
    BY Steps
  <2>2. U[k] = Least(k)
    OBVIOUS
  <2> HIDE DEF U, Least
  <2>3. QED  BY <1>4, <2>1, <2>2
<1>6. Unfolds(U)
  <2>1. U = [k \in StepIds |-> U[k]]
    OBVIOUS
  <2> HIDE DEF U
  <2>2. QED  BY <1>5, <2>1
<1>7. Unfolds(Upstream)
  <2>1. Upstream = CHOOSE f : Unfolds(f)
    BY DEF Upstream
  <2> HIDE DEF Unfolds
  <2>2. QED  BY <1>6, <2>1
<1>8. QED  BY <1>7

\* The least step with something upstream that is no step would need one.
LEMMA UpstreamAreSteps == \A k \in StepIds : Upstream[k] \subseteq StepIds
<1> DEFINE B == {k \in StepIds : ~ (Upstream[k] \subseteq StepIds)}
<1>1. ASSUME B # {}  PROVE FALSE
  <2>1. B \in SUBSET Nat
    BY Steps
  <2>2. PICK k \in B : \A m \in B : k <= m
    BY <1>1, <2>1, OldestExists
  <2>3. ASSUME NEW n \in Needs[k]  PROVE Upstream[n] \subseteq StepIds
    <3>1. n \in StepIds /\ n \in 1 .. (k - 1) /\ k \in Nat
      BY <2>1, Steps, PipelineAssumption
    <3>2. n \notin B
      BY <2>2, <3>1
    <3>3. QED  BY <3>1, <3>2
  <2>4. Upstream[k] \subseteq StepIds
    <3>1. k \in StepIds /\ Needs[k] \subseteq StepIds
      BY Steps
    <3>2. Upstream[k] = Needs[k] \cup UNION {Upstream[n] : n \in Needs[k]}
      BY <3>1, UpstreamUnfolds
    <3> HIDE DEF B
    <3>3. QED  BY <2>3, <3>1, <3>2
  <2>5. QED  BY <2>4
<1>2. QED  BY <1>1

--------------------------------
NeedsMet(k) == \A n \in Needs[k] : steps[n].state = "done"

\* The engine leaves the step to this code.
Ours(k) == Native \/ k \notin Compute

Settled == \A k \in StepIds : steps[k].state \in StepEnds

\* What the rows say of the steps holds whoever moved them.
RowsInv ==
    /\ \A k \in StepIds : steps[k].state \in {"running", "done"} /\ Ours(k) => NeedsMet(k)
    /\ \A k \in StepIds : Native /\ Kind[k] = "app" /\ steps[k].state = "running" =>
                              steps[k].run # 0
    /\ ~ Native => \A k \in StepIds : steps[k].run = 0
    /\ prun.status = "none" => /\ \A k \in StepIds : steps[k] = NewStep
                               /\ holder = Free /\ starter = NoStarter
    /\ prun.status \in RunEnds => Settled \/ (~ Native /\ prun.status = "failed")

StarterInv ==
    /\ starter.pc \in {"apply", "mark"} => ~ Native
    /\ starter.marks \subseteq Compute

ActPCs    == {"act", "actApply", "apply", "mark", "markFailed", "action", "gate"}
LaunchPCs == ActPCs \ {"act"}

\* Where the holder may be, and what it holds there.
HolderShape ==
    /\ holder.op = "none" => holder = Free
    /\ holder.pc \in ActPCs \cup {"scanApply"} => holder.op = "tick"
    /\ holder.pc = "workflow" => holder.op \in {"tick", "stop"} /\ ~ Native
    /\ holder.pc \in {"stopRun", "stopStep"} => holder.op = "stop"
    /\ holder.pc = "orphan" => holder.op = "reconcile"
    /\ holder.op = "reconcile" => Native
    /\ holder.pc \in {"scanApply", "stopRun", "stopStep", "orphan"} => holder.scan # {}
    /\ holder.pc \in ActPCs => holder.scan = {}
    /\ holder.pc \in LaunchPCs => holder.launch # {} /\ holder.skip = {}
    /\ holder.pc = "scanApply" => Native /\ Kind[Scanning] = "image"
    /\ holder.pc = "orphan" => Kind[Scanning] = "app"
    /\ holder.pc = "stopRun" => Native /\ steps[Scanning].run # 0
    /\ holder.pc \in {"apply", "mark", "markFailed"} =>
          Kind[Launching] = "app" /\ holder.run \in DOMAIN runs
    /\ holder.pc = "actApply" => Kind[Launching] = "image"
    /\ holder.pc \in {"action", "gate"} => Kind[Launching] \in Actions

\* The view of a row that has been looked at still fits it.
Fits(k) ==
    /\ holder.view[k] \in StepEnds => steps[k].state = holder.view[k]
    /\ holder.view[k] = "pending" => steps[k].state = "pending" \/ ~ Ours(k)

\* The holder goes through the rows: nobody else ends one of them.
ScanInv ==
    /\ holder.op \in {"tick", "reconcile"} => holder.scan \subseteq In("running")
    /\ holder.op = "stop" =>
          /\ In("pending") \cup In("running") \subseteq holder.scan
          /\ \A k \in holder.scan : holder.view[k] = "running" => steps[k].state # "pending"
    /\ holder.op = "tick" /\ holder.pc \notin ActPCs =>
          /\ \A k \in StepIds \ holder.scan : Fits(k)
          /\ \A k \in holder.scan :
                holder.view[k] # "pending" /\ (Native => holder.view[k] = "running")
          /\ \A k \in holder.retry : Native /\ NeedsMet(k)

\* What the tick decided still applies.
DecidedInv ==
    holder.pc \in ActPCs =>
        /\ \A k \in holder.skip :
              /\ Native /\ steps[k].state # "running"
              /\ \E n \in Upstream[k] : n \in StepIds /\ steps[n].state = "failed"
        /\ \A k \in holder.launch : Ours(k) /\ NeedsMet(k)
        /\ holder.finish # "no" =>
              /\ Settled
              /\ holder.finish = IF \A k \in StepIds : steps[k].state = "done"
                                 THEN "done" ELSE "failed"

HolderInv == HolderShape /\ ScanInv /\ DecidedInv

PipeInv == TypeOK /\ NeedsBeforeWork /\ RowsInv /\ StarterInv /\ HolderInv

StepsOK == /\ steps \in [StepIds -> StepRow]
           /\ \A k \in StepIds : steps[k].run \in DOMAIN runs \cup {0}

ClusterOK == /\ stepJobs \in [StepIds -> Ended \cup {"none", "running", "gone"}]
             /\ rollouts \in [StepIds -> {"none", "deploying", "live", "failed"}]
             /\ workflow \in WorkflowType

LEMMA TypeGroups ==
    TypeOK <=> /\ RunTypeOK /\ prun \in RunRow /\ StepsOK /\ ClusterOK
               /\ starter \in StarterType /\ holder \in HolderType
  BY DEF TypeOK, StepsOK, ClusterOK

LEMMA InvFromGroups ==
    ASSUME RunTypeOK', prun' \in RunRow, StepsOK', ClusterOK', starter' \in StarterType,
           holder' \in HolderType, NeedsBeforeWork', RowsInv', StarterInv',
           HolderShape', ScanInv', DecidedInv'
    PROVE  PipeInv'
  BY DEF PipeInv, TypeOK, StepsOK, ClusterOK, HolderInv

LEMMA OldestStep ==
    ASSUME NEW S \in SUBSET StepIds, S # {}
    PROVE  Oldest(S) \in S /\ Oldest(S) \in StepIds
  BY Steps, OldestExists DEF Oldest

--------------------------------
\* A row moves forward or stays as it is.

Open == {"pending", "running"}

Moves(k, e) ==
    /\ e \in StepRow /\ steps' = [steps EXCEPT ![k] = e]
    /\ \/ e.state = steps[k].state
       \/ steps[k].state \in Open /\ e.state \in StepEnds \cup {"running"}

LEMMA StatesSplit ==
    /\ StepStates = Open \cup StepEnds
    /\ \A s \in StepEnds : s \notin Open
  BY DEF Open, StepStates, StepEnds

LEMMA Stays ==
    ASSUME TypeOK, NEW k \in StepIds, UNCHANGED steps
    PROVE  Moves(k, steps[k])
  BY DEF Moves, TypeOK

LEMMA Marked ==
    ASSUME TypeOK, NEW k \in StepIds, NEW r \in Nat, NEW a \in Nat, MarkStepRunning(k, r, a)
    PROVE  \E e : /\ Moves(k, e)
                  /\ IF steps[k].state \in Open
                     THEN e.state = "running" /\ e.run = r /\ e.attempt = a
                     ELSE e = steps[k]
<1>1. steps \in [StepIds -> StepRow] /\ steps[k] \in StepRow
  BY DEF TypeOK
<1>2. CASE steps[k].state \notin Open
  <2>1. UNCHANGED steps
    BY <1>2 DEF MarkStepRunning, Open
  <2>2. QED  BY <1>2, <2>1, Stays
<1>3. CASE steps[k].state \in Open
  <2>1. PICK e : e = [steps[k] EXCEPT !.state = "running", !.run = r, !.attempt = a]
    OBVIOUS
  <2>2. /\ e \in StepRow
        /\ e.state = "running" /\ e.run = r /\ e.attempt = a
    BY <1>1, <2>1 DEF StepRow, StepStates
  <2>3. steps' = [steps EXCEPT ![k] = e]
    BY <1>1, <1>3, <2>1 DEF MarkStepRunning, Open, StepRow
  <2>4. Moves(k, e)
    BY <1>3, <2>2, <2>3 DEF Moves
  <2>5. QED  BY <1>3, <2>2, <2>4
<1>4. QED  BY <1>2, <1>3

LEMMA Finished ==
    ASSUME TypeOK, NEW k \in StepIds, NEW s \in StepEnds, FinishStep(k, s)
    PROVE  \E e : /\ Moves(k, e) /\ e.run = steps[k].run /\ e.attempt = steps[k].attempt
                  /\ IF \/ steps[k].state = "running"
                        \/ steps[k].state = "pending" /\ s # "done"
                     THEN e.state = s ELSE e = steps[k]
<1>1. steps \in [StepIds -> StepRow] /\ steps[k] \in StepRow
  BY DEF TypeOK
<1> DEFINE ends == \/ steps[k].state = "running"
                   \/ steps[k].state = "pending" /\ s # "done"
<1>2. CASE UNCHANGED steps /\ ~ ends
  <2>1. Moves(k, steps[k])
    BY <1>2, Stays
  <2> WITNESS steps[k]
  <2> HIDE DEF ends
  <2>2. QED  BY <1>2, <2>1 DEF ends
<1>3. CASE ends
  <2>1. PICK e : e = [steps[k] EXCEPT !.state = s]
    OBVIOUS
  <2>2. /\ e \in StepRow /\ e.state = s
        /\ e.run = steps[k].run /\ e.attempt = steps[k].attempt
    BY <1>1, <2>1 DEF StepRow, StepStates
  <2>3. steps' = [steps EXCEPT ![k] = e]
    BY <1>1, <1>3, <2>1 DEF FinishStep
  <2>4. Moves(k, e)
    BY <1>3, <2>2, <2>3 DEF Moves, Open
  <2>5. QED  BY <1>3, <2>2, <2>4
<1>4. QED  BY <1>2, <1>3 DEF FinishStep

LEMMA Detailed ==
    ASSUME TypeOK, NEW k \in StepIds, SetStepDetail(k)
    PROVE  \E e : /\ Moves(k, e) /\ e.state = steps[k].state
                  /\ e.run = steps[k].run /\ e.attempt = steps[k].attempt
<1>1. steps \in [StepIds -> StepRow] /\ steps[k] \in StepRow
  BY DEF TypeOK
<1>2. CASE UNCHANGED steps
  BY <1>2, Stays
<1>3. CASE steps' = [steps EXCEPT ![k].waits = TRUE]
  <2>1. PICK e : e = [steps[k] EXCEPT !.waits = TRUE]
    OBVIOUS
  <2>2. /\ e \in StepRow /\ e.state = steps[k].state
        /\ e.run = steps[k].run /\ e.attempt = steps[k].attempt
    BY <1>1, <2>1 DEF StepRow
  <2>3. steps' = [steps EXCEPT ![k] = e]
    BY <1>1, <1>3, <2>1
  <2>4. QED  BY <2>2, <2>3 DEF Moves
<1>4. QED  BY <1>2, <1>3 DEF SetStepDetail

\* What stays so when a row moves: ended rows, and so the needs of a step.
LEMMA MoveKeeps ==
    ASSUME TypeOK, NEW k \in StepIds, NEW e, Moves(k, e)
    PROVE  /\ steps' \in [StepIds -> StepRow]
           /\ steps'[k] = e /\ \A j \in StepIds : j # k => steps'[j] = steps[j]
           /\ \A j \in StepIds :
                 /\ steps[j].state \in StepEnds => steps'[j].state = steps[j].state
                 /\ steps[j].state # "pending" => steps'[j].state # "pending"
                 /\ NeedsMet(j) => NeedsMet(j)'
           /\ Settled => Settled'
<1>1. steps \in [StepIds -> StepRow] /\ e \in StepRow
  BY DEF TypeOK, Moves
<1>2. /\ steps' \in [StepIds -> StepRow]
      /\ steps'[k] = e /\ \A j \in StepIds : j # k => steps'[j] = steps[j]
  BY <1>1 DEF Moves
<1>3. /\ steps[k].state \in StepEnds => e.state = steps[k].state
      /\ steps[k].state # "pending" => e.state # "pending"
  BY DEF Moves, Open, StepEnds
<1>4. \A j \in StepIds :
         /\ steps[j].state \in StepEnds => steps'[j].state = steps[j].state
         /\ steps[j].state # "pending" => steps'[j].state # "pending"
  BY <1>2, <1>3
<1>5. ASSUME NEW j \in StepIds, NeedsMet(j)  PROVE NeedsMet(j)'
  BY <1>4, <1>5, Steps DEF NeedsMet, StepEnds
<1>6. Settled => Settled'
  BY <1>4 DEF Settled
<1>7. QED  BY <1>2, <1>4, <1>5, <1>6

LEMMA EngineStays ==
    ASSUME prun'.engine = prun.engine
    PROVE  (Native' <=> Native) /\ \A k \in StepIds : Ours(k)' <=> Ours(k)
  BY DEF Native, Ours

\* The row of one step moves, and no rule of the rows is broken by it.
LEMMA StepGoes ==
    ASSUME PipeInv, NEW k \in StepIds, NEW e, Moves(k, e), UNCHANGED prun,
           prun.status # "none", DOMAIN runs \subseteq DOMAIN runs',
           e.run \in DOMAIN runs' \cup {0},
           e.state \in {"running", "done"} /\ Ours(k) => NeedsMet(k),
           Native /\ Kind[k] = "app" /\ e.state = "running" => e.run # 0,
           ~ Native => e.run = 0
    PROVE  StepsOK' /\ RowsInv'
<1>1. TypeOK /\ RowsInv
  BY DEF PipeInv
<1>2. /\ steps' \in [StepIds -> StepRow]
      /\ steps'[k] = e /\ \A j \in StepIds : j # k => steps'[j] = steps[j]
      /\ \A j \in StepIds : NeedsMet(j) => NeedsMet(j)'
      /\ Settled => Settled'
  BY <1>1, MoveKeeps
<1>3. StepsOK'
  BY <1>1, <1>2 DEF TypeOK, StepsOK
<1>4. (Native' <=> Native) /\ \A j \in StepIds : Ours(j)' <=> Ours(j)
  BY EngineStays
<1>5. \A j \in StepIds : steps'[j].state \in {"running", "done"} /\ Ours(j)' => NeedsMet(j)'
  BY <1>1, <1>2, <1>4 DEF RowsInv
<1>6. /\ \A j \in StepIds : Native' /\ Kind[j] = "app" /\ steps'[j].state = "running" =>
                              steps'[j].run # 0
      /\ ~ Native' => \A j \in StepIds : steps'[j].run = 0
  BY <1>1, <1>2, <1>4 DEF RowsInv
<1>7. prun'.status \in RunEnds => Settled' \/ (~ Native' /\ prun'.status = "failed")
  BY <1>1, <1>2, <1>4 DEF RowsInv
<1>8. QED  BY <1>3, <1>5, <1>6, <1>7 DEF RowsInv

\* Runs keep their owners, and new ones have none or a step.
OwnersKept ==
    \A r \in DOMAIN runs' :
        (r \in DOMAIN runs /\ runs'[r].owner = runs[r].owner) \/ runs'[r].owner = 0

LEMMA RunsOfStay ==
    ASSUME OwnersKept, NEW k \in StepIds
    PROVE  RunsOf(k)' # {} => RunsOf(k) # {}
<1>1. k # 0
  BY Steps, PipelineAssumption DEF StepIds
<1>2. QED  BY <1>1 DEF OwnersKept, RunsOf

SameWork(k) ==
    /\ RunsOf(k)' # {} => RunsOf(k) # {}
    /\ stepJobs'[k] # "none" => stepJobs[k] # "none"
    /\ rollouts'[k] # "none" => rollouts[k] # "none"

\* Something is done for one step at most, whose needs are met.
LEMMA WorkGoes ==
    ASSUME PipeInv, NEW k \in StepIds, NEW e, Moves(k, e),
           \A j \in StepIds : j # k => SameWork(j),
           NeedsMet(k) \/ (SameWork(k) /\ (e.attempt > 0 => steps[k].attempt > 0))
    PROVE  NeedsBeforeWork'
<1>1. TypeOK /\ NeedsBeforeWork
  BY DEF PipeInv
<1>2. /\ steps'[k] = e /\ \A j \in StepIds : j # k => steps'[j] = steps[j]
      /\ \A j \in StepIds : NeedsMet(j) => NeedsMet(j)'
  BY <1>1, MoveKeeps
<1>3. ASSUME NEW j \in StepIds, Touched(j)'  PROVE Touched(j) \/ NeedsMet(j)
  <2>1. CASE j # k
    <3>1. SameWork(j) /\ steps'[j] = steps[j]
      BY <1>2, <2>1
    <3>2. QED  BY <1>3, <3>1 DEF Touched, SameWork
  <2>2. CASE j = k
    BY <1>2, <1>3, <2>2 DEF Touched, SameWork
  <2>3. QED  BY <2>1, <2>2
<1>4. \A j \in StepIds : Touched(j)' => NeedsMet(j)'
  BY <1>1, <1>2, <1>3 DEF NeedsBeforeWork, NeedsMet
<1>5. QED  BY <1>4 DEF NeedsBeforeWork, NeedsMet

LEMMA WorkStands ==
    ASSUME OwnersKept, UNCHANGED <<stepJobs, rollouts>>, NEW j \in StepIds
    PROVE  SameWork(j)
  BY RunsOfStay DEF SameWork

--------------------------------
\* What the holder relies on.

LEMMA HolderFacts ==
    ASSUME PipeInv
    PROVE  /\ TypeOK /\ RunTypeOK /\ holder \in HolderType /\ prun \in RunRow
           /\ HolderShape /\ ScanInv /\ DecidedInv /\ RowsInv /\ StarterInv
           /\ holder.scan \in SUBSET StepIds /\ holder.retry \in SUBSET StepIds
           /\ holder.skip \in SUBSET StepIds /\ holder.launch \in SUBSET StepIds
           /\ holder.view \in [StepIds -> StepStates]
           /\ steps \in [StepIds -> StepRow]
           /\ \A k \in StepIds : steps[k] \in StepRow /\ steps[k].state \in StepStates
                                 /\ steps[k].run \in DOMAIN runs \cup {0}
  BY DEF PipeInv, HolderInv, TypeOK, HolderType, StepRow

LEMMA ScanningFacts ==
    ASSUME PipeInv, holder.scan # {}
    PROVE  Scanning \in holder.scan /\ Scanning \in StepIds
  BY HolderFacts, OldestStep DEF Scanning

LEMMA LaunchingFacts ==
    ASSUME PipeInv, holder.launch # {}
    PROVE  Launching \in holder.launch /\ Launching \in StepIds
  BY HolderFacts, OldestStep DEF Launching

LEMMA FreeFields ==
    /\ Free \in HolderType /\ Free.op = "none" /\ Free.pc = "idle"
    /\ Free.scan = {} /\ Free.launch = {} /\ Free.skip = {} /\ Free.retry = {}
    /\ Free.finish = "no" /\ Free.run = 0
  BY DEF Free, HolderType, StepStates

\* Whoever held the mutex has let it go, or holds it no longer.
LEMMA HolderIsFree ==
    ASSUME holder' = Free
    PROVE  holder' \in HolderType /\ HolderShape' /\ ScanInv' /\ DecidedInv'
<1>1. holder'.op = "none" /\ holder'.pc = "idle"
  BY FreeFields
<1>2. HolderShape'
  BY <1>1 DEF HolderShape, ActPCs, LaunchPCs
<1>3. ScanInv' /\ DecidedInv'
  BY <1>1 DEF ScanInv, DecidedInv, ActPCs
<1>4. QED  BY <1>2, <1>3, FreeFields

\* Somebody else moves: the holder's rows still are what it takes them for.
LEMMA HolderStands ==
    ASSUME PipeInv, UNCHANGED holder, prun'.engine = prun.engine,
           DOMAIN runs \subseteq DOMAIN runs',
           NEW k \in StepIds, NEW e, Moves(k, e),
           e = steps[k] \/ (~ Ours(k) /\ e.state = "running")
    PROVE  holder' \in HolderType /\ HolderShape' /\ ScanInv' /\ DecidedInv'
<1>1. /\ TypeOK /\ RunTypeOK /\ holder \in HolderType /\ prun \in RunRow
      /\ HolderShape /\ ScanInv /\ DecidedInv /\ RowsInv /\ StarterInv
      /\ holder.scan \in SUBSET StepIds
      /\ holder.skip \in SUBSET StepIds /\ holder.launch \in SUBSET StepIds
      /\ holder.retry \in SUBSET StepIds
  BY HolderFacts
<1>2. /\ steps'[k] = e /\ \A j \in StepIds : j # k => steps'[j] = steps[j]
      /\ \A j \in StepIds :
            /\ steps[j].state \in StepEnds => steps'[j].state = steps[j].state
            /\ steps[j].state # "pending" => steps'[j].state # "pending"
            /\ NeedsMet(j) => NeedsMet(j)'
      /\ Settled => Settled'
  BY <1>1, MoveKeeps
<1>3. (Native' <=> Native) /\ \A j \in StepIds : Ours(j)' <=> Ours(j)
  BY EngineStays
<1>4. Native => \A j \in StepIds : steps'[j] = steps[j]
  BY <1>2 DEF Ours
<1>5. Scanning' = Scanning /\ Launching' = Launching
  BY DEF Scanning, Launching
<1>6. HolderShape'
  <2>1. holder.pc = "stopRun" => Native' /\ steps'[Scanning].run # 0
    <3>1. ASSUME holder.pc = "stopRun"  PROVE Native' /\ steps'[Scanning].run # 0
      <4>1. holder.scan # {} /\ Native /\ steps[Scanning].run # 0
        BY <1>1, <3>1 DEF HolderShape
      <4>2. Scanning \in StepIds
        BY <4>1, ScanningFacts
      <4>3. QED  BY <1>3, <1>4, <4>1, <4>2
    <3>2. QED  BY <3>1
  <2>2. QED  BY <1>1, <1>3, <1>5, <2>1 DEF HolderShape
<1>7. ScanInv'
  <2>1. ASSUME NEW j \in StepIds, steps[j].state = "running"
        PROVE  steps'[j].state = "running"
    BY <1>2, <2>1
  <2>2. ASSUME NEW j \in StepIds, steps'[j].state \in {"pending", "running"}
        PROVE  steps[j].state \in {"pending", "running"}
    BY <1>1, <1>2, <2>2, HolderFacts DEF StepEnds, StepStates
  <2>3. ASSUME NEW j \in StepIds, Fits(j)  PROVE Fits(j)'
    BY <1>2, <1>3, <2>3 DEF Fits
  <2>4. In("running") \subseteq In("running")'
    BY <2>1 DEF In
  <2>5. In("pending")' \cup In("running")' \subseteq In("pending") \cup In("running")
    BY <2>2 DEF In
  <2>6. holder.op \in {"tick", "reconcile"} => holder.scan \subseteq In("running")'
    BY <1>1, <2>4 DEF ScanInv
  <2>7. holder.op = "stop" =>
          /\ In("pending")' \cup In("running")' \subseteq holder.scan
          /\ \A j \in holder.scan : holder.view[j] = "running" => steps'[j].state # "pending"
    BY <1>1, <1>2, <2>5 DEF ScanInv
  <2>8. holder.op = "tick" /\ holder.pc \notin ActPCs =>
          /\ \A j \in StepIds \ holder.scan : Fits(j)'
          /\ \A j \in holder.scan :
                holder.view[j] # "pending" /\ (Native' => holder.view[j] = "running")
          /\ \A j \in holder.retry : Native' /\ NeedsMet(j)'
    BY <1>1, <1>2, <1>3, <2>3 DEF ScanInv
  <2>9. QED  BY <2>6, <2>7, <2>8 DEF ScanInv
<1>8. DecidedInv'
  <2>1. ASSUME holder.pc \in ActPCs, NEW j \in holder.skip
        PROVE  /\ Native' /\ steps'[j].state # "running"
               /\ \E n \in Upstream[j] : n \in StepIds /\ steps'[n].state = "failed"
    <3>1. /\ Native /\ steps[j].state # "running"
          /\ \E n \in Upstream[j] : n \in StepIds /\ steps[n].state = "failed"
      BY <1>1, <2>1 DEF DecidedInv
    <3>2. QED  BY <1>1, <1>3, <1>4, <3>1
  <2>2. ASSUME holder.pc \in ActPCs, NEW j \in holder.launch  PROVE Ours(j)' /\ NeedsMet(j)'
    BY <1>1, <1>2, <1>3, <2>2 DEF DecidedInv
  <2>3. ASSUME holder.pc \in ActPCs, holder.finish # "no"
        PROVE  /\ Settled'
               /\ holder.finish = IF \A j \in StepIds : steps'[j].state = "done"
                                  THEN "done" ELSE "failed"
    <3>1. Settled /\ holder.finish = IF \A j \in StepIds : steps[j].state = "done"
                                     THEN "done" ELSE "failed"
      BY <1>1, <2>3 DEF DecidedInv
    <3>2. \A j \in StepIds : steps'[j].state = steps[j].state
      BY <1>2, <3>1 DEF Settled
    <3>3. QED  BY <1>2, <3>1, <3>2
  <2>4. QED  BY <2>1, <2>2, <2>3 DEF DecidedInv
<1>9. QED  BY <1>1, <1>6, <1>7, <1>8

--------------------------------
\* The others: users, watchers, startup, the cluster, the starting request.

\* Nobody moves a row.
LEMMA RowsStand ==
    ASSUME PipeInv, UNCHANGED <<steps, prun>>, DOMAIN runs \subseteq DOMAIN runs',
           prun.status = "none" => holder' = Free /\ starter' = NoStarter
    PROVE  StepsOK' /\ RowsInv'
<1>1. TypeOK /\ RowsInv
  BY DEF PipeInv
<1>2. StepsOK'
  BY <1>1 DEF TypeOK, StepsOK
<1>3. (Native' <=> Native) /\ \A j \in StepIds : Ours(j)' <=> Ours(j)
  BY EngineStays
<1>4. \A j \in StepIds : NeedsMet(j)' <=> NeedsMet(j)
  BY DEF NeedsMet
<1>5. Settled' <=> Settled
  BY DEF Settled
<1>6. QED  BY <1>1, <1>2, <1>3, <1>4, <1>5 DEF RowsInv

LEMMA WorkRests ==
    ASSUME PipeInv, UNCHANGED steps, \A k \in StepIds : SameWork(k)
    PROVE  NeedsBeforeWork'
<1>1. 1 \in StepIds
  BY PipelineAssumption DEF StepIds
<1>2. Moves(1, steps[1])
  BY <1>1, Stays DEF PipeInv
<1>3. QED  BY <1>1, <1>2, WorkGoes

\* A step of the run's environment: of its rows, only the Workflow's start.
LEMMA OthersKeep ==
    ASSUME PipeInv, RunTypeOK', OwnersKept, DOMAIN runs \subseteq DOMAIN runs',
           UNCHANGED <<steps, prun, holder>>, ClusterOK',
           \A k \in StepIds : SameWork(k),
           starter' \in StarterType, StarterInv',
           prun.status = "none" => starter' = NoStarter
    PROVE  PipeInv'
<1>1. 1 \in StepIds
  BY PipelineAssumption DEF StepIds
<1>2. TypeOK /\ RowsInv
  BY DEF PipeInv
<1>3. Moves(1, steps[1])
  BY <1>1, <1>2, Stays
<1>4. holder' \in HolderType /\ HolderShape' /\ ScanInv' /\ DecidedInv'
  BY <1>1, <1>3, HolderStands
<1>5. StepsOK' /\ RowsInv'
  BY <1>2, RowsStand DEF RowsInv
<1>6. NeedsBeforeWork'
  BY WorkRests
<1>7. prun' \in RunRow
  BY <1>2 DEF TypeOK
<1>8. QED  BY <1>4, <1>5, <1>6, <1>7, InvFromGroups

LEMMA StarterStands ==
    ASSUME PipeInv, UNCHANGED starter, prun'.engine = prun.engine
    PROVE  starter' \in StarterType /\ StarterInv'
<1>1. starter \in StarterType /\ StarterInv
  BY DEF PipeInv, TypeOK
<1>2. QED  BY <1>1, EngineStays DEF StarterInv

LEMMA ClusterStands ==
    ASSUME PipeInv, UNCHANGED cluster
    PROVE  ClusterOK' /\ UNCHANGED <<stepJobs, rollouts>>
  BY DEF PipeInv, TypeOK, ClusterOK, cluster

LEMMA RunRowsStand ==
    ASSUME PipeInv, UNCHANGED runs
    PROVE  OwnersKept /\ DOMAIN runs' = DOMAIN runs
  BY DEF OwnersKept

LEMMA RunRowsType ==
    ASSUME PipeInv, UNCHANGED runVars
    PROVE  RunTypeOK'
  BY DEF PipeInv, TypeOK, RunTypeOK, runVars

\* What JobRuns does by itself.
LEMMA RunsKeep ==
    ASSUME PipeInv, RunNext \/ Crash, UNCHANGED pipeVars
    PROVE  PipeInv'
<1>1. RunTypeOK
  BY DEF PipeInv, TypeOK
<1>2. RunTypeOK'
  BY <1>1, TypeRunStep
<1>3. OwnersKept /\ DOMAIN runs \subseteq DOMAIN runs'
  BY <1>1, RunsGrow DEF OwnersKept
<1>4. UNCHANGED <<steps, prun, holder, starter, cluster, stepJobs, rollouts>>
  BY DEF pipeVars, cluster
<1>5. \A k \in StepIds : SameWork(k)
  BY <1>3, <1>4, WorkStands
<1>6. ClusterOK' /\ starter' \in StarterType /\ StarterInv'
  BY <1>4, ClusterStands, StarterStands
<1>7. prun.status = "none" => starter' = NoStarter
  BY <1>4 DEF PipeInv, RowsInv
<1>8. QED  BY <1>2, <1>3, <1>4, <1>5, <1>6, <1>7, OthersKeep

\* A Job or a deploy of a step that has one, or the Workflow.
LEMMA ClusterKeeps ==
    ASSUME PipeInv, UNCHANGED <<runVars, prun, steps, starter, holder>>, ClusterOK',
           \A k \in StepIds : /\ stepJobs'[k] # "none" => stepJobs[k] # "none"
                              /\ rollouts'[k] # "none" => rollouts[k] # "none"
    PROVE  PipeInv'
<1>1. RunTypeOK'
  BY RunRowsType
<1>2. OwnersKept /\ DOMAIN runs' = DOMAIN runs
  BY RunRowsStand DEF runVars
<1>3. \A k \in StepIds : SameWork(k)
  BY <1>2, RunsOfStay DEF SameWork
<1>4. starter' \in StarterType /\ StarterInv'
  BY StarterStands
<1>5. prun.status = "none" => starter' = NoStarter
  BY DEF PipeInv, RowsInv
<1>6. QED  BY <1>1, <1>2, <1>3, <1>4, <1>5, OthersKeep

LEMMA ClusterStepKeeps ==
    ASSUME PipeInv,
           ClusterEnds \/ WorkflowEnds \/ WorkflowLost \/ \E k \in StepIds : StepJobDeleted(k)
    PROVE  PipeInv'
<1>1. /\ stepJobs \in [StepIds -> Ended \cup {"none", "running", "gone"}]
      /\ rollouts \in [StepIds -> {"none", "deploying", "live", "failed"}]
      /\ workflow \in WorkflowType
  BY DEF PipeInv, TypeOK
<1>2. ASSUME NEW k \in StepIds, StepJobEnds(k) \/ StepJobDeleted(k)
      PROVE  PipeInv'
  <2>1. /\ UNCHANGED <<runVars, prun, steps, starter, holder, rollouts, workflow>>
        /\ stepJobs[k] # "none"
        /\ \E state \in Ended \cup {"gone"} : stepJobs' = [stepJobs EXCEPT ![k] = state]
    BY <1>2 DEF StepJobEnds, StepJobDeleted
  <2>2. /\ stepJobs' \in [StepIds -> Ended \cup {"none", "running", "gone"}]
        /\ \A j \in StepIds : stepJobs'[j] # "none" => stepJobs[j] # "none"
    BY <1>1, <2>1
  <2>3. ClusterOK'
    BY <1>1, <2>1, <2>2 DEF ClusterOK
  <2>4. QED  BY <2>1, <2>2, <2>3, ClusterKeeps
<1>3. ASSUME NEW k \in StepIds, RolloutEnds(k)
      PROVE  PipeInv'
  <2>1. /\ UNCHANGED <<runVars, prun, steps, starter, holder, stepJobs, workflow>>
        /\ rollouts[k] = "deploying"
        /\ \E status \in {"live", "failed"} : rollouts' = [rollouts EXCEPT ![k] = status]
    BY <1>3 DEF RolloutEnds
  <2>2. /\ rollouts' \in [StepIds -> {"none", "deploying", "live", "failed"}]
        /\ \A j \in StepIds : rollouts'[j] # "none" => rollouts[j] # "none"
    BY <1>1, <2>1
  <2>3. ClusterOK'
    BY <1>1, <2>1, <2>2 DEF ClusterOK
  <2>4. QED  BY <2>1, <2>2, <2>3, ClusterKeeps
<1>4. ASSUME WorkflowEnds \/ WorkflowLost \/ \E k \in StepIds : NodeEnds(k)
      PROVE  PipeInv'
  <2>1. UNCHANGED <<runVars, prun, steps, starter, holder, stepJobs, rollouts>>
    BY <1>4 DEF WorkflowEnds, WorkflowLost, NodeEnds
  <2>2. workflow' \in WorkflowType
    <3>1. NoWorkflow \in WorkflowType
      BY DEF NoWorkflow, WorkflowType
    <3>2. ASSUME NEW k \in StepIds, NEW state \in StepEnds,
                 workflow' = [workflow EXCEPT !.nodes[k] = state]
          PROVE  workflow' \in WorkflowType
      BY <1>1, <3>2 DEF WorkflowType
    <3>3. ASSUME NEW phase \in {"Succeeded", "Failed"},
                 workflow' = [workflow EXCEPT !.phase = phase]
          PROVE  workflow' \in WorkflowType
      BY <1>1, <3>3 DEF WorkflowType
    <3>4. CASE WorkflowEnds
      BY <3>3, <3>4 DEF WorkflowEnds
    <3>5. CASE WorkflowLost
      BY <3>1, <3>3, <3>5 DEF WorkflowLost
    <3>6. CASE \E k \in StepIds : NodeEnds(k)
      BY <3>2, <3>6 DEF NodeEnds, StepEnds
    <3>7. QED  BY <1>4, <3>4, <3>5, <3>6
  <2>3. ClusterOK'
    BY <1>1, <2>1, <2>2 DEF ClusterOK
  <2>4. QED  BY <2>1, <2>3, ClusterKeeps
<1>5. QED  BY <1>2, <1>3, <1>4 DEF ClusterEnds

LEMMA RunJobDeletedKeeps ==
    ASSUME PipeInv, NEW r \in DOMAIN jobs, RunJobDeleted(r)
    PROVE  PipeInv'
<1>1. RunTypeOK
  BY DEF PipeInv, TypeOK
<1>2. r \in DOMAIN runs
  BY <1>1, Rows
<1>3. /\ jobs' = [jobs EXCEPT ![r].state = "gone"]
      /\ UNCHANGED <<runs, watchers, starters, todo, mode, live, used, pipeVars>>
  BY DEF RunJobDeleted, SetJob
<1>4. jobs' \in Seq(JobType) /\ Len(jobs') = Len(jobs)
  BY <1>1, <1>2, <1>3, PutJobState DEF JobStates
<1>5. RunTypeOK'
  BY <1>1, <1>3, <1>4 DEF RunTypeOK
<1>6. OwnersKept /\ DOMAIN runs' = DOMAIN runs
  BY <1>3, RunRowsStand
<1>7. UNCHANGED <<steps, prun, holder, starter, cluster, stepJobs, rollouts>>
  BY <1>3 DEF pipeVars, cluster
<1>8. \A k \in StepIds : SameWork(k)
  BY <1>6, <1>7, WorkStands
<1>9. ClusterOK' /\ starter' \in StarterType /\ StarterInv'
  BY <1>7, ClusterStands, StarterStands
<1>10. prun.status = "none" => starter' = NoStarter
  BY <1>7 DEF PipeInv, RowsInv
<1>11. QED  BY <1>5, <1>6, <1>7, <1>8, <1>9, <1>10, OthersKeep

LEMMA NothingToReconcileKeeps == ASSUME PipeInv, NothingToReconcile  PROVE PipeInv'
<1>1. /\ mode' = "up"
      /\ UNCHANGED <<runs, jobs, watchers, starters, todo, live, used, pipeVars>>
  BY DEF NothingToReconcile
<1>2. RunTypeOK'
  BY <1>1 DEF PipeInv, TypeOK, RunTypeOK, Modes
<1>3. OwnersKept /\ DOMAIN runs' = DOMAIN runs
  BY <1>1, RunRowsStand
<1>4. UNCHANGED <<steps, prun, holder, starter, cluster, stepJobs, rollouts>>
  BY <1>1 DEF pipeVars, cluster
<1>5. \A k \in StepIds : SameWork(k)
  BY <1>3, <1>4, WorkStands
<1>6. ClusterOK' /\ starter' \in StarterType /\ StarterInv'
  BY <1>4, ClusterStands, StarterStands
<1>7. prun.status = "none" => starter' = NoStarter
  BY <1>4 DEF PipeInv, RowsInv
<1>8. QED  BY <1>2, <1>3, <1>4, <1>5, <1>6, <1>7, OthersKeep

\* The request that starts a run under the Argo engine.
LEMMA StartingKeeps == ASSUME PipeInv, Starting  PROVE PipeInv'
<1>1. /\ TypeOK /\ RunTypeOK /\ RowsInv /\ StarterInv /\ starter \in StarterType
      /\ prun \in RunRow
  BY DEF PipeInv, TypeOK
<1>2. UNCHANGED <<runVars, runs, holder>>
  BY DEF Starting, ApplyWorkflow, ApplyWorkflowFails, MarkComputeStep, MarkedAll, runVars
<1>3. RunTypeOK' /\ OwnersKept /\ DOMAIN runs' = DOMAIN runs
  BY <1>2, RunRowsType, RunRowsStand
<1>4. starter # NoStarter /\ prun.status # "none"
  BY <1>1 DEF Starting, ApplyWorkflow, ApplyWorkflowFails, MarkComputeStep, MarkedAll,
              NoStarter, RowsInv
<1>5. UNCHANGED <<stepJobs, rollouts>>
  BY DEF Starting, ApplyWorkflow, ApplyWorkflowFails, MarkComputeStep, MarkedAll, cluster
<1>6. \A k \in StepIds : SameWork(k)
  BY <1>3, <1>5, WorkStands
<1>7. CASE ApplyWorkflow
  <2>1. workflow' \in WorkflowType
    BY <1>7 DEF ApplyWorkflow, NoWorkflow, WorkflowType
  <2>2. ClusterOK'
    BY <1>1, <1>5, <2>1 DEF ClusterOK, TypeOK
  <2>3. /\ starter' = [pc |-> "mark", marks |-> Compute] /\ ~ Native
        /\ UNCHANGED <<steps, prun>>
    BY <1>1, <1>7 DEF ApplyWorkflow, StarterInv
  <2>4. starter' \in StarterType /\ StarterInv'
    BY <2>3 DEF StarterType, StarterInv, Compute, Native
  <2>5. QED  BY <1>2, <1>3, <1>4, <1>6, <2>2, <2>3, <2>4, OthersKeep
<1>8. CASE ApplyWorkflowFails
  <2>1. /\ UNCHANGED <<steps, cluster>> /\ starter' = NoStarter
        /\ FinishPipelineRun("failed") /\ ~ Native
    BY <1>1, <1>8 DEF ApplyWorkflowFails, StarterInv
  <2>2. /\ prun' \in RunRow /\ prun'.engine = prun.engine
        /\ prun'.status # "none"
        /\ prun'.status \in RunEnds => prun' = prun \/ prun'.status = "failed"
    BY <1>1, <1>4, <2>1 DEF FinishPipelineRun, RunRow, RunEnds
  <2>3. (Native' <=> Native) /\ \A j \in StepIds : Ours(j)' <=> Ours(j)
    BY <2>2, EngineStays
  <2>4. StepsOK'
    BY <1>1, <1>3, <2>1 DEF TypeOK, StepsOK
  <2>5. \A j \in StepIds : NeedsMet(j)' <=> NeedsMet(j)
    BY <2>1 DEF NeedsMet
  <2>6. Settled' <=> Settled
    BY <2>1 DEF Settled
  <2>7. RowsInv'
    BY <1>1, <2>1, <2>2, <2>3, <2>5, <2>6 DEF RowsInv
  <2>8. 1 \in StepIds
    BY PipelineAssumption DEF StepIds
  <2>9. Moves(1, steps[1])
    BY <1>1, <2>1, <2>8, Stays
  <2>10. holder' \in HolderType /\ HolderShape' /\ ScanInv' /\ DecidedInv'
    BY <1>2, <1>3, <2>2, <2>8, <2>9, HolderStands
  <2>11. starter' \in StarterType /\ StarterInv'
    BY <2>1 DEF StarterType, NoStarter, StarterInv
  <2>12. ClusterOK' /\ NeedsBeforeWork'
    BY <1>6, <2>1, ClusterStands, WorkRests
  <2>13. QED  BY <1>3, <2>2, <2>4, <2>7, <2>10, <2>11, <2>12, InvFromGroups
<1>9. CASE MarkComputeStep
  <2>1. PICK k : k = Oldest(starter.marks)
    OBVIOUS
  <2>2. /\ starter.pc = "mark" /\ starter.marks # {} /\ MarkStepRunning(k, 0, 0)
        /\ starter' = [starter EXCEPT !.marks = @ \ {k}]
        /\ UNCHANGED <<prun, cluster>>
    BY <1>9, <2>1 DEF MarkComputeStep
  <2>3. starter.marks \in SUBSET StepIds /\ starter.marks \subseteq Compute /\ ~ Native
    BY <1>1, <2>2 DEF StarterType, StarterInv
  <2>4. k \in Compute /\ k \in StepIds
    BY <2>1, <2>2, <2>3, OldestStep
  <2>5. ~ Ours(k)
    BY <2>3, <2>4 DEF Ours
  <2>6. PICK e : /\ Moves(k, e)
                 /\ IF steps[k].state \in Open
                    THEN e.state = "running" /\ e.run = 0 /\ e.attempt = 0
                    ELSE e = steps[k]
    BY <1>1, <2>2, <2>4, Marked
  <2>7. e.run = 0 /\ (e = steps[k] \/ e.state = "running")
    BY <1>1, <2>3, <2>4, <2>6 DEF RowsInv
  <2>8. StepsOK' /\ RowsInv'
    BY <1>3, <1>4, <2>2, <2>3, <2>4, <2>5, <2>6, <2>7, StepGoes
  <2>9. holder' \in HolderType /\ HolderShape' /\ ScanInv' /\ DecidedInv'
    BY <1>2, <1>3, <2>2, <2>4, <2>5, <2>6, <2>7, HolderStands
  <2>10. e.attempt > 0 => steps[k].attempt > 0
    BY <2>6
  <2>11. NeedsBeforeWork'
    BY <1>6, <2>4, <2>6, <2>10, WorkGoes
  <2>12. starter' \in StarterType /\ StarterInv'
    <3>1. PICK rest : rest = starter.marks \ {k}
      OBVIOUS
    <3>2. starter' = [starter EXCEPT !.marks = rest] /\ rest \in SUBSET StepIds
          /\ rest \subseteq Compute
      BY <2>2, <2>3, <3>1
    <3>3. starter' \in StarterType /\ starter'.marks = rest /\ starter'.pc = starter.pc
      BY <1>1, <3>2 DEF StarterType
    <3>4. (Native' <=> Native) /\ Compute' = Compute
      BY <2>2 DEF Native, Compute
    <3>5. QED  BY <2>3, <3>2, <3>3, <3>4 DEF StarterInv
  <2>13. ClusterOK' /\ prun' \in RunRow
    BY <1>1, <2>2, ClusterStands
  <2>14. QED  BY <1>3, <2>8, <2>9, <2>11, <2>12, <2>13, InvFromGroups
<1>10. CASE MarkedAll
  <2>1. starter' = [starter EXCEPT !.pc = "tick"] /\ UNCHANGED <<steps, prun, cluster>>
    BY <1>10 DEF MarkedAll
  <2>2. starter' \in StarterType /\ starter'.pc = "tick" /\ starter'.marks = starter.marks
    BY <1>1, <2>1 DEF StarterType
  <2>3. StarterInv'
    BY <1>1, <2>2 DEF StarterInv, Compute
  <2>4. ClusterOK'
    BY <2>1, ClusterStands
  <2>5. QED  BY <1>2, <1>3, <1>4, <1>6, <2>1, <2>2, <2>3, <2>4, OthersKeep
<1>11. QED  BY <1>7, <1>8, <1>9, <1>10 DEF Starting

LEMMA CreatePipelineRunKeeps ==
    ASSUME PipeInv, NEW engine \in Engines, CreatePipelineRun(engine)
    PROVE  PipeInv'
<1>1. /\ TypeOK /\ RunTypeOK /\ RowsInv /\ StarterInv /\ prun.status = "none"
      /\ engine \in {"native", "argo"}
      /\ prun' = [status |-> "running", engine |-> engine]
      /\ starter' = [NoStarter EXCEPT !.pc = IF engine = "argo" THEN "apply" ELSE "tick"]
      /\ UNCHANGED <<runVars, runs, steps, cluster, holder>>
  BY PipelineAssumption DEF CreatePipelineRun, PipeInv, TypeOK, runVars
<1>2. RunTypeOK' /\ OwnersKept /\ DOMAIN runs' = DOMAIN runs
  BY <1>1, RunRowsType, RunRowsStand
<1>3. /\ holder' = Free
      /\ \A k \in StepIds : steps[k].state = "pending" /\ steps[k].run = 0
  BY <1>1 DEF RowsInv, NewStep
<1>4. holder' \in HolderType /\ HolderShape' /\ ScanInv' /\ DecidedInv'
  BY <1>3, HolderIsFree
<1>5. prun' \in RunRow /\ prun'.status = "running" /\ (~ Native' <=> engine = "argo")
  BY <1>1 DEF RunRow, Native
<1>6. starter' \in StarterType /\ StarterInv'
  BY <1>1, <1>5 DEF StarterType, NoStarter, StarterInv
<1>7. ClusterOK' /\ UNCHANGED <<stepJobs, rollouts>>
  BY <1>1, ClusterStands
<1>8. NeedsBeforeWork'
  BY <1>1, <1>2, <1>7, WorkStands, WorkRests
<1>9. StepsOK'
  BY <1>1, <1>2 DEF TypeOK, StepsOK
<1>10. RowsInv'
  <2>1. \A k \in StepIds : steps'[k].state = "pending"
    BY <1>1, <1>3
  <2>2. \A k \in StepIds : steps'[k].run = 0
    BY <1>1, <1>3
  <2>3. QED  BY <1>1, <1>5, <2>1, <2>2 DEF RowsInv, RunEnds
<1>11. QED
  BY <1>2, <1>4, <1>5, <1>6, <1>7, <1>8, <1>9, <1>10, InvFromGroups

--------------------------------
\* The mutex is taken and let go.

LEMMA StatesFields ==
    ASSUME \A k \in StepIds : steps[k].state \in StepStates
    PROVE  /\ States \in [StepIds -> StepStates]
           /\ \A k \in StepIds : States[k] = steps[k].state
  BY DEF States

LEMMA InSteps == \A s : In(s) \in SUBSET StepIds
  BY DEF In

LEMMA TakeKeeps ==
    ASSUME PipeInv, NEW op \in {"tick", "stop", "reconcile"}, NEW pc \in {"workflow", "scan"},
           NEW scan \in SUBSET StepIds, Take(op, pc, scan),
           op # "stop" => scan \subseteq In("running"),
           op = "stop" => scan = In("running") \cup In("pending"),
           pc = "workflow" => ~ Native /\ op # "reconcile",
           op = "reconcile" => Native,
           prun.status # "none", starter' \in {starter, NoStarter}
    PROVE  PipeInv'
<1>1. /\ TypeOK /\ RunTypeOK /\ StarterInv /\ starter \in StarterType /\ prun \in RunRow
      /\ \A k \in StepIds : steps[k].state \in StepStates
  BY HolderFacts DEF PipeInv, TypeOK
<1>2. /\ holder' = [Free EXCEPT !.op = op, !.pc = pc, !.scan = scan, !.view = States]
      /\ UNCHANGED <<runVars, runs, prun, steps, cluster>>
  BY DEF Take, runVars
<1>3. States \in [StepIds -> StepStates] /\ \A k \in StepIds : States[k] = steps[k].state
  BY <1>1, StatesFields
<1>4. /\ holder' \in HolderType /\ holder'.op = op /\ holder'.pc = pc
      /\ holder'.scan = scan /\ holder'.view = States /\ holder'.retry = {}
  <2> HIDE DEF States
  <2>1. QED  BY <1>2, <1>3 DEF Free, HolderType
<1>5. (Native' <=> Native) /\ \A k \in StepIds : Ours(k)' <=> Ours(k)
  BY <1>2, EngineStays
<1>6. HolderShape'
  BY <1>4, <1>5 DEF HolderShape, ActPCs, LaunchPCs
<1>7. ScanInv'
  <2>1. \A k \in StepIds : Fits(k)'
    BY <1>2, <1>3, <1>4 DEF Fits
  <2>2. In("running")' = In("running") /\ In("pending")' = In("pending")
    BY <1>2 DEF In
  <2>3. \A k \in scan : op = "stop" /\ States[k] = "running" => steps'[k].state # "pending"
    BY <1>2, <1>3
  <2>4. \A k \in scan : op # "stop" => States[k] = "running"
    BY <1>3 DEF In
  <2>5. QED  BY <1>4, <1>5, <2>1, <2>2, <2>3, <2>4 DEF ScanInv
<1>8. DecidedInv'
  BY <1>4 DEF DecidedInv, ActPCs
<1>9. StepsOK' /\ RowsInv'
  BY <1>2, RowsStand
<1>10. RunTypeOK' /\ OwnersKept /\ DOMAIN runs' = DOMAIN runs
  BY <1>2, RunRowsType, RunRowsStand
<1>11. ClusterOK' /\ UNCHANGED <<stepJobs, rollouts>>
  BY <1>2, ClusterStands
<1>12. NeedsBeforeWork'
  BY <1>2, <1>10, <1>11, WorkStands, WorkRests
<1>13. starter' \in StarterType /\ StarterInv'
  <2>1. NoStarter \in StarterType /\ NoStarter.pc = "none" /\ NoStarter.marks = {}
    BY DEF NoStarter, StarterType
  <2>2. CASE starter' = starter
    BY <1>2, <2>2, StarterStands
  <2>3. CASE starter' = NoStarter
    BY <2>1, <2>3 DEF StarterInv
  <2>4. QED  BY <2>2, <2>3
<1>14. prun' \in RunRow
  BY <1>1, <1>2
<1>15. QED
  BY <1>4, <1>6, <1>7, <1>8, <1>9, <1>10, <1>11, <1>12, <1>13, <1>14, InvFromGroups

LEMMA BeginsKeep ==
    ASSUME PipeInv, LoopTicks \/ FirstTick \/ StopBegins \/ ReconcileBegins
    PROVE  PipeInv'
<1>1. CASE LoopTicks
  <2>1. prun.status = "running" /\ UNCHANGED starter
    BY <1>1 DEF LoopTicks
  <2>2. CASE Native
    <3>1. Take("tick", "scan", In("running"))
      BY <1>1, <2>2 DEF LoopTicks, Tick
    <3>2. QED  BY <2>1, <3>1, InSteps, TakeKeeps
  <2>3. CASE ~ Native
    <3>1. PICK scan \in SUBSET StepIds : scan = In("running") \cap Compute
      BY InSteps
    <3>2. Take("tick", "workflow", scan)
      BY <1>1, <2>3, <3>1 DEF LoopTicks, Tick
    <3>3. scan \subseteq In("running")
      BY <3>1
    <3>4. QED  BY <2>1, <2>3, <3>2, <3>3, TakeKeeps
  <2>4. QED  BY <2>2, <2>3
<1>2. CASE FirstTick
  <2>1. prun.status # "none" /\ starter' = NoStarter
    BY <1>2 DEF FirstTick, PipeInv, RowsInv, NoStarter
  <2>2. CASE Native
    <3>1. Take("tick", "scan", In("running"))
      BY <1>2, <2>2 DEF FirstTick, Tick
    <3>2. QED  BY <2>1, <3>1, InSteps, TakeKeeps
  <2>3. CASE ~ Native
    <3>1. PICK scan \in SUBSET StepIds : scan = In("running") \cap Compute
      BY InSteps
    <3>2. Take("tick", "workflow", scan)
      BY <1>2, <2>3, <3>1 DEF FirstTick, Tick
    <3>3. scan \subseteq In("running")
      BY <3>1
    <3>4. QED  BY <2>1, <2>3, <3>2, <3>3, TakeKeeps
  <2>4. QED  BY <2>2, <2>3
<1>3. CASE StopBegins
  <2>1. prun.status = "running" /\ UNCHANGED starter
    BY <1>3 DEF StopBegins
  <2>2. PICK scan \in SUBSET StepIds : scan = In("running") \cup In("pending")
    BY InSteps
  <2>3. Take("stop", IF Native THEN "scan" ELSE "workflow", scan)
    BY <1>3, <2>2 DEF StopBegins
  <2>4. CASE Native
    BY <2>1, <2>2, <2>3, <2>4, TakeKeeps
  <2>5. CASE ~ Native
    BY <2>1, <2>2, <2>3, <2>5, TakeKeeps
  <2>6. QED  BY <2>4, <2>5
<1>4. CASE ReconcileBegins
  BY <1>4, InSteps, TakeKeeps DEF ReconcileBegins
<1>5. QED  BY <1>1, <1>2, <1>3, <1>4

\* The run is left as it is, or ends with all its steps.
LEMMA LetsGo ==
    ASSUME PipeInv, RunTypeOK', OwnersKept, DOMAIN runs \subseteq DOMAIN runs',
           UNCHANGED <<steps, cluster>>, holder' = Free,
           starter' = NoStarter \/ UNCHANGED starter,
           \/ UNCHANGED prun
           \/ Settled /\ prun.status # "none" /\ \E s \in RunEnds : FinishPipelineRun(s)
    PROVE  PipeInv'
<1>1. /\ TypeOK /\ RowsInv /\ StarterInv /\ starter \in StarterType /\ prun \in RunRow
  BY DEF PipeInv, TypeOK
<1>2. holder' \in HolderType /\ HolderShape' /\ ScanInv' /\ DecidedInv'
  BY HolderIsFree
<1>3. /\ prun' \in RunRow /\ prun'.engine = prun.engine
      /\ UNCHANGED prun \/ (Settled /\ prun'.status # "none")
  <2>1. ASSUME NEW s \in RunEnds, FinishPipelineRun(s), Settled, prun.status # "none"
        PROVE  prun' \in RunRow /\ prun'.engine = prun.engine /\ prun'.status # "none"
    BY <1>1, <2>1 DEF FinishPipelineRun, RunRow, RunEnds
  <2>2. QED  BY <1>1, <2>1
<1>4. starter' \in StarterType /\ StarterInv'
  <2>1. NoStarter \in StarterType /\ NoStarter.pc = "none" /\ NoStarter.marks = {}
    BY DEF NoStarter, StarterType
  <2>2. CASE UNCHANGED starter
    BY <1>3, <2>2, StarterStands
  <2>3. CASE starter' = NoStarter
    BY <2>1, <2>3 DEF StarterInv
  <2>4. QED  BY <2>2, <2>3
<1>5. StepsOK' /\ RowsInv'
  <2>1. CASE UNCHANGED prun
    <3>1. prun.status = "none" => starter' = NoStarter
      BY <1>1 DEF RowsInv
    <3>2. QED  BY <2>1, <3>1, RowsStand
  <2>2. CASE Settled /\ prun'.status # "none"
    <3>1. StepsOK'
      BY <1>1 DEF TypeOK, StepsOK
    <3>2. (Native' <=> Native) /\ \A j \in StepIds : Ours(j)' <=> Ours(j)
      BY <1>3, EngineStays
    <3>3. \A j \in StepIds : NeedsMet(j)' <=> NeedsMet(j)
      BY DEF NeedsMet
    <3>4. Settled'
      BY <2>2 DEF Settled
    <3>5. QED  BY <1>1, <2>2, <3>1, <3>2, <3>3, <3>4 DEF RowsInv
  <2>3. QED  BY <1>3, <2>1, <2>2
<1>6. ClusterOK' /\ UNCHANGED <<stepJobs, rollouts>>
  BY ClusterStands
<1>7. NeedsBeforeWork'
  BY <1>6, WorkStands, WorkRests
<1>8. QED  BY <1>2, <1>3, <1>4, <1>5, <1>6, <1>7, InvFromGroups

LEMMA PipelineCrashKeeps == ASSUME PipeInv, PipelineCrash  PROVE PipeInv'
<1>1. RunTypeOK
  BY DEF PipeInv, TypeOK
<1>2. /\ Crash /\ holder' = Free /\ starter' = NoStarter
      /\ UNCHANGED <<prun, steps, cluster>>
  BY DEF PipelineCrash
<1>3. RunTypeOK' /\ OwnersKept /\ DOMAIN runs \subseteq DOMAIN runs'
  BY <1>1, <1>2, TypeRunStep, RunsGrow DEF OwnersKept
<1>4. QED  BY <1>2, <1>3, LetsGo

LEMMA RunIsCreated ==
    ASSUME PipeInv, holder.op # "none" \/ holder.pc # "idle"
    PROVE  prun.status # "none" /\ holder.op # "none"
  BY HolderFacts, FreeFields DEF RowsInv, HolderShape

LEMMA EndsKeep == ASSUME PipeInv, TickEnds \/ StopEnds \/ ReconcileEnds  PROVE PipeInv'
<1>1. HolderShape /\ ScanInv /\ DecidedInv /\ holder \in HolderType
      /\ \A k \in StepIds : steps[k].state \in StepStates
  BY HolderFacts
<1>2. holder' = Free /\ UNCHANGED <<steps, cluster, starter, runs>> /\ prun.status # "none"
  BY RunIsCreated DEF TickEnds, StopEnds, ReconcileEnds, EndTurn, Doing, runVars
<1>3. OwnersKept /\ DOMAIN runs' = DOMAIN runs
  BY <1>2, RunRowsStand
<1>4. CASE TickEnds
  <2>1. RunTypeOK'
    BY <1>4, RunRowsType DEF TickEnds
  <2>2. CASE holder.finish = "no"
    <3>1. UNCHANGED prun
      BY <1>4, <2>2 DEF TickEnds
    <3>2. QED  BY <1>2, <1>3, <2>1, <3>1, LetsGo
  <2>3. CASE holder.finish # "no"
    <3>1. holder.pc = "act" /\ FinishPipelineRun(holder.finish)
      BY <1>4, <2>3 DEF TickEnds, Doing
    <3>2. Settled
      BY <1>1, <2>3, <3>1 DEF DecidedInv, ActPCs
    <3>3. holder.finish \in RunEnds
      BY <1>1, <2>3 DEF HolderType, RunEnds
    <3>4. QED  BY <1>2, <1>3, <2>1, <3>1, <3>2, <3>3, LetsGo
  <2>4. QED  BY <2>2, <2>3
<1>5. CASE StopEnds
  <2>1. RunTypeOK' /\ FinishPipelineRun("stopped") /\ "stopped" \in RunEnds
    BY <1>5, RunRowsType DEF StopEnds, RunEnds
  <2>2. holder.op = "stop" /\ holder.scan = {}
    BY <1>5 DEF StopEnds, Doing
  <2>3. Settled
    BY <1>1, <2>2 DEF ScanInv, In, Settled, StepStates
  <2>4. QED  BY <1>2, <1>3, <2>1, <2>3, LetsGo
<1>6. CASE ReconcileEnds
  <2>1. UNCHANGED prun /\ RunTypeOK'
    BY <1>6 DEF ReconcileEnds, PipeInv, TypeOK, RunTypeOK, Modes
  <2>2. QED  BY <1>2, <1>3, <2>1, LetsGo
<1>7. QED  BY <1>4, <1>5, <1>6

--------------------------------
\* A step of the holder: the row of one step at most.

\* What the rows' rules ask of the row a step of the run is given.
Allowed(k, e) ==
    /\ Moves(k, e)
    /\ e.run \in DOMAIN runs' \cup {0}
    /\ e.state \in {"running", "done"} /\ Ours(k) => NeedsMet(k)
    /\ Native /\ Kind[k] = "app" /\ e.state = "running" => e.run # 0
    /\ ~ Native => e.run = 0

LEMMA EndIsAllowed ==
    ASSUME PipeInv, NEW k \in StepIds, NEW e, Moves(k, e), e.run = steps[k].run,
           e.state \in {steps[k].state} \cup StepEnds,
           e.state = "done" => steps[k].state \in {"running", "done"},
           DOMAIN runs \subseteq DOMAIN runs'
    PROVE  Allowed(k, e)
<1>1. RowsInv /\ steps[k].run \in DOMAIN runs \cup {0}
  BY HolderFacts
<1>2. e.state \in {"running", "done"} /\ Ours(k) => NeedsMet(k)
  BY <1>1 DEF RowsInv, StepEnds
<1>3. Native /\ Kind[k] = "app" /\ e.state = "running" => e.run # 0
  BY <1>1 DEF RowsInv, StepEnds
<1>4. ~ Native => e.run = 0
  BY <1>1 DEF RowsInv
<1>5. QED  BY <1>1, <1>2, <1>3, <1>4 DEF Allowed

LEMMA HolderGoes ==
    ASSUME PipeInv, holder.op # "none", RunTypeOK', DOMAIN runs \subseteq DOMAIN runs',
           ClusterOK', UNCHANGED <<prun, starter>>,
           NEW k \in StepIds, NEW e, Allowed(k, e),
           \A j \in StepIds : j # k => SameWork(j),
           NeedsMet(k) \/ (SameWork(k) /\ (e.attempt > 0 => steps[k].attempt > 0)),
           holder' \in HolderType, HolderShape', ScanInv', DecidedInv'
    PROVE  PipeInv'
<1>1. prun.status # "none"
  BY RunIsCreated
<1>2. StepsOK' /\ RowsInv'
  BY <1>1, StepGoes DEF Allowed
<1>3. NeedsBeforeWork'
  BY WorkGoes DEF Allowed
<1>4. starter' \in StarterType /\ StarterInv'
  BY StarterStands
<1>5. prun' \in RunRow
  BY HolderFacts
<1>6. QED  BY <1>2, <1>3, <1>4, <1>5, InvFromGroups

\* Only the row and the holder change.
LEMMA OnlyTheRowGoes ==
    ASSUME PipeInv, holder.op # "none", UNCHANGED <<runVars, prun, cluster, starter>>,
           NEW k \in StepIds, NEW e, Moves(k, e), e.run = steps[k].run,
           e.attempt = steps[k].attempt,
           e.state \in {steps[k].state} \cup StepEnds,
           e.state = "done" => steps[k].state \in {"running", "done"} \/ NeedsMet(k),
           holder' \in HolderType, HolderShape', ScanInv', DecidedInv'
    PROVE  PipeInv'
<1>1. RunTypeOK' /\ OwnersKept /\ DOMAIN runs' = DOMAIN runs
  BY RunRowsType, RunRowsStand DEF runVars
<1>2. ClusterOK' /\ UNCHANGED <<stepJobs, rollouts>>
  BY ClusterStands
<1>3. \A j \in StepIds : SameWork(j)
  BY <1>1, <1>2, WorkStands
<1>4. RowsInv /\ steps[k].run \in DOMAIN runs \cup {0}
  BY HolderFacts
<1>5. e.state \in {"running", "done"} /\ Ours(k) => NeedsMet(k)
  BY <1>4 DEF RowsInv, StepEnds
<1>6. Native /\ Kind[k] = "app" /\ e.state = "running" => e.run # 0
  BY <1>4 DEF RowsInv, StepEnds
<1>7. ~ Native => e.run = 0
  BY <1>4 DEF RowsInv
<1>8. Allowed(k, e)
  BY <1>1, <1>4, <1>5, <1>6, <1>7 DEF Allowed
<1>9. QED  BY <1>1, <1>2, <1>3, <1>8, HolderGoes

\* No row changes.
LEMMA NoRowGoes ==
    ASSUME PipeInv, holder.op # "none", RunTypeOK', DOMAIN runs \subseteq DOMAIN runs',
           ClusterOK', UNCHANGED <<prun, starter, steps>>,
           NEW k \in StepIds,
           \A j \in StepIds : j # k => SameWork(j),
           NeedsMet(k) \/ SameWork(k),
           holder' \in HolderType, HolderShape', ScanInv', DecidedInv'
    PROVE  PipeInv'
<1>1. TypeOK
  BY DEF PipeInv
<1>2. Moves(k, steps[k])
  BY <1>1, Stays
<1>3. PICK e : e = steps[k]
  OBVIOUS
<1>4. Moves(k, e) /\ e.run = steps[k].run /\ e.state = steps[k].state
      /\ e.attempt = steps[k].attempt
  BY <1>2, <1>3
<1>5. Allowed(k, e)
  BY <1>4, EndIsAllowed
<1>6. QED  BY <1>4, <1>5, HolderGoes

--------------------------------
\* The rows as the tick looks at them.

\* The row that is looked at moves on to what the view says of it.
LEMMA ScanGoes ==
    ASSUME PipeInv, holder.op = "tick", holder.pc \notin ActPCs, UNCHANGED prun,
           NEW k \in holder.scan, NEW e, Moves(k, e),
           holder'.op = "tick", holder'.pc = "scan", holder'.scan = holder.scan \ {k},
           \A j \in StepIds : j # k => holder'.view[j] = holder.view[j],
           holder'.view[k] # "pending",
           holder'.view[k] \in StepEnds => e.state = holder'.view[k],
           holder'.retry \subseteq holder.retry \cup {k},
           k \in holder'.retry => k \in holder.retry \/ (Native /\ NeedsMet(k))
    PROVE  HolderShape' /\ ScanInv' /\ DecidedInv'
<1>1. /\ TypeOK /\ ScanInv /\ holder.scan \in SUBSET StepIds
      /\ holder.retry \in SUBSET StepIds
  BY HolderFacts
<1>2. /\ steps'[k] = e /\ \A j \in StepIds : j # k => steps'[j] = steps[j]
      /\ \A j \in StepIds : NeedsMet(j) => NeedsMet(j)'
  BY <1>1, MoveKeeps
<1>3. (Native' <=> Native) /\ \A j \in StepIds : Ours(j)' <=> Ours(j)
  BY EngineStays
<1>4. HolderShape'
  BY DEF HolderShape, ActPCs, LaunchPCs
<1>5. DecidedInv'
  BY DEF DecidedInv, ActPCs
<1>6. holder'.scan \subseteq In("running")'
  BY <1>1, <1>2 DEF ScanInv, In
<1>7. ASSUME NEW j \in StepIds \ holder'.scan  PROVE Fits(j)'
  <2>1. CASE j = k
    BY <1>2, <2>1 DEF Fits
  <2>2. CASE j # k
    <3>1. j \in StepIds \ holder.scan
      BY <2>2
    <3>2. Fits(j)
      BY <1>1, <3>1 DEF ScanInv
    <3>3. QED  BY <1>2, <1>3, <2>2, <3>1, <3>2 DEF Fits
  <2>3. QED  BY <2>1, <2>2
<1>8. \A j \in holder'.scan :
          holder'.view[j] # "pending" /\ (Native' => holder'.view[j] = "running")
  BY <1>1, <1>3 DEF ScanInv
<1>9. \A j \in holder'.retry : Native' /\ NeedsMet(j)'
  BY <1>1, <1>2, <1>3 DEF ScanInv
<1>10. ScanInv'
  BY <1>6, <1>7, <1>8, <1>9 DEF ScanInv
<1>11. QED  BY <1>4, <1>5, <1>10

LEMMA SeenFields ==
    ASSUME PipeInv, NEW k \in StepIds, NEW state \in StepStates,
           holder' = [holder EXCEPT !.scan = @ \ {k}, !.view[k] = state]
    PROVE  /\ holder' \in HolderType /\ holder'.op = holder.op /\ holder'.pc = holder.pc
           /\ holder'.scan = holder.scan \ {k} /\ holder'.retry = holder.retry
           /\ holder'.view[k] = state
           /\ \A j \in StepIds : j # k => holder'.view[j] = holder.view[j]
<1>1. holder \in HolderType /\ holder.view \in [StepIds -> StepStates]
      /\ holder.scan \in SUBSET StepIds
  BY HolderFacts
<1>2. PICK view : view = [holder.view EXCEPT ![k] = state]
  OBVIOUS
<1>3. PICK scan : scan = holder.scan \ {k}
  OBVIOUS
<1>4. view \in [StepIds -> StepStates] /\ view[k] = state
      /\ \A j \in StepIds : j # k => view[j] = holder.view[j]
  BY <1>1, <1>2
<1>5. scan \in SUBSET StepIds
  BY <1>1, <1>3
<1>6. holder' = [holder EXCEPT !.scan = scan, !.view = view]
  BY <1>1, <1>2, <1>3 DEF HolderType
<1>7. /\ holder' \in HolderType /\ holder'.op = holder.op /\ holder'.pc = holder.pc
      /\ holder'.scan = scan /\ holder'.retry = holder.retry /\ holder'.view = view
  BY <1>1, <1>4, <1>5, <1>6 DEF HolderType
<1>8. QED  BY <1>3, <1>4, <1>7

\* A step the native tick looks at is running, and rightly so.
LEMMA ScannedFacts ==
    ASSUME PipeInv, NEW kinds, ScanStep(kinds)
    PROVE  /\ holder.op = "tick" /\ holder.pc = "scan" /\ holder.pc \notin ActPCs
           /\ holder.scan # {} /\ Native /\ Kind[Scanning] \in kinds
           /\ Scanning \in holder.scan /\ Scanning \in StepIds
           /\ steps[Scanning].state = "running" /\ holder.view[Scanning] = "running"
           /\ NeedsMet(Scanning)
<1>1. /\ holder.op = "tick" /\ holder.pc = "scan" /\ holder.pc \notin ActPCs
      /\ holder.scan # {} /\ Native /\ Kind[Scanning] \in kinds
  BY DEF ScanStep, Doing, ActPCs
<1>2. Scanning \in holder.scan /\ Scanning \in StepIds
  BY <1>1, ScanningFacts
<1>3. steps[Scanning].state = "running" /\ holder.view[Scanning] = "running"
  BY <1>1, <1>2, HolderFacts DEF ScanInv, In
<1>4. NeedsMet(Scanning)
  BY <1>1, <1>2, <1>3, HolderFacts DEF RowsInv, Ours
<1>5. QED  BY <1>1, <1>2, <1>3, <1>4

\* The step is left running, or ends as the view has it or unseen.
LEMMA SettleKeeps ==
    ASSUME PipeInv, NEW kinds, ScanStep(kinds),
           UNCHANGED <<runVars, prun, cluster, starter>>,
           \/ Leave
           \/ \E state \in StepEnds : Settle(state)
           \/ Seen("running") /\ FinishStep(Scanning, "failed")
    PROVE  PipeInv'
<1>1. PICK k : k = Scanning
  OBVIOUS
<1>2. /\ holder.op = "tick" /\ holder.pc = "scan" /\ holder.pc \notin ActPCs
      /\ k \in holder.scan /\ k \in StepIds /\ steps[k].state = "running" /\ NeedsMet(k)
      /\ TypeOK
  BY <1>1, ScannedFacts DEF PipeInv
<1>3. "running" \in StepStates /\ "failed" \in StepEnds /\ StepEnds \subseteq StepStates
      /\ "running" \notin StepEnds /\ "pending" \notin StepEnds
  BY DEF StepStates, StepEnds
<1>4. ASSUME NEW state \in StepEnds \cup {"running"}, Seen(state), NEW e, Moves(k, e),
             e.run = steps[k].run, e.attempt = steps[k].attempt,
             e.state \in {steps[k].state} \cup StepEnds,
             state \in StepEnds => e.state = state
      PROVE  PipeInv'
  <2>1. holder' = [holder EXCEPT !.scan = @ \ {k}, !.view[k] = state]
    BY <1>1, <1>4 DEF Seen
  <2>2. /\ holder' \in HolderType /\ holder'.op = holder.op /\ holder'.pc = holder.pc
        /\ holder'.scan = holder.scan \ {k} /\ holder'.retry = holder.retry
        /\ holder'.view[k] = state
        /\ \A j \in StepIds : j # k => holder'.view[j] = holder.view[j]
    BY <1>2, <1>3, <2>1, SeenFields
  <2>3. HolderShape' /\ ScanInv' /\ DecidedInv'
    BY <1>2, <1>3, <1>4, <2>2, ScanGoes
  <2>4. QED  BY <1>2, <1>4, <2>2, <2>3, OnlyTheRowGoes
<1>5. CASE Leave
  <2>1. Moves(k, steps[k]) /\ Seen("running")
    BY <1>2, <1>5, Stays DEF Leave
  <2>2. QED  BY <1>3, <1>4, <2>1
<1>6. ASSUME NEW s \in StepEnds, FinishStep(k, s)
      PROVE  \E e : /\ Moves(k, e) /\ e.run = steps[k].run /\ e.attempt = steps[k].attempt
                    /\ e.state = s
  BY <1>2, <1>6, Finished
<1>7. ASSUME NEW state \in StepEnds, Settle(state)  PROVE PipeInv'
  <2>1. Seen(state) /\ FinishStep(k, state)
    BY <1>1, <1>7 DEF Settle
  <2>2. PICK e : /\ Moves(k, e) /\ e.run = steps[k].run /\ e.attempt = steps[k].attempt
                 /\ e.state = state
    BY <1>6, <2>1
  <2>3. QED  BY <1>4, <2>1, <2>2
<1>8. CASE Seen("running") /\ FinishStep(Scanning, "failed")
  <2>1. PICK e : /\ Moves(k, e) /\ e.run = steps[k].run /\ e.attempt = steps[k].attempt
                 /\ e.state = "failed"
    BY <1>1, <1>3, <1>6, <1>8
  <2>2. QED  BY <1>3, <1>4, <1>8, <2>1
<1>9. QED  BY <1>5, <1>7, <1>8

LEMMA HarvestKeeps ==
    ASSUME PipeInv, HarvestApp \/ HarvestImage \/ HarvestAction
    PROVE  PipeInv'
<1>1. CASE HarvestApp
  <2>1. UNCHANGED <<runVars, prun, cluster, starter>> /\ ScanStep({"app"})
    BY <1>1 DEF HarvestApp
  <2>2. CASE Leave \/ Settle("done") \/ Settle("failed")
    BY <2>1, <2>2, SettleKeeps DEF StepEnds
  <2>3. CASE UNCHANGED steps /\
             holder' = [holder EXCEPT !.scan = @ \ {Scanning}, !.retry = @ \cup {Scanning}]
    <3>1. PICK k : k = Scanning
      OBVIOUS
    <3>2. /\ holder.op = "tick" /\ holder.pc = "scan" /\ holder.pc \notin ActPCs /\ Native
          /\ k \in holder.scan /\ k \in StepIds /\ steps[k].state = "running"
          /\ holder.view[k] = "running" /\ NeedsMet(k) /\ TypeOK
      BY <2>1, <3>1, ScannedFacts DEF PipeInv
    <3>3. PICK scan : scan = holder.scan \ {k}
      OBVIOUS
    <3>4. PICK retry : retry = holder.retry \cup {k}
      OBVIOUS
    <3>5. holder \in HolderType /\ scan \in SUBSET StepIds /\ retry \in SUBSET StepIds
      BY <3>2, <3>3, <3>4, HolderFacts
    <3>6. holder' = [holder EXCEPT !.scan = scan, !.retry = retry]
      BY <2>3, <3>1, <3>3, <3>4, <3>5 DEF HolderType
    <3>7. /\ holder' \in HolderType /\ holder'.op = "tick" /\ holder'.pc = "scan"
          /\ holder'.scan = scan /\ holder'.retry = retry /\ holder'.view = holder.view
      BY <3>2, <3>5, <3>6 DEF HolderType
    <3>8. Moves(k, steps[k])
      BY <2>3, <3>2, Stays
    <3>9. PICK e : e = steps[k]
      OBVIOUS
    <3>10. /\ holder'.retry \subseteq holder.retry \cup {k}
           /\ holder'.scan = holder.scan \ {k}
           /\ holder'.view[k] # "pending" /\ holder'.view[k] \notin StepEnds
      BY <3>2, <3>3, <3>4, <3>7 DEF StepEnds
    <3>11. Moves(k, e) /\ e.run = steps[k].run /\ e.attempt = steps[k].attempt
           /\ e.state = steps[k].state
      BY <3>8, <3>9
    <3>12. HolderShape' /\ ScanInv' /\ DecidedInv'
      BY <2>1, <3>2, <3>7, <3>10, <3>11, ScanGoes
    <3>13. QED  BY <2>1, <3>2, <3>7, <3>11, <3>12, OnlyTheRowGoes
  <2>4. QED  BY <1>1, <2>2, <2>3 DEF HarvestApp
<1>2. CASE HarvestImage
  <2>1. UNCHANGED <<runVars, prun, cluster, starter>> /\ ScanStep({"image"})
    BY <1>2 DEF HarvestImage
  <2>2. CASE Leave \/ Settle("done") \/ Settle("failed")
    BY <2>1, <2>2, SettleKeeps DEF StepEnds
  <2>3. CASE Seen("running") /\ OverBudget(Scanning)
    BY <2>1, <2>3, SettleKeeps DEF OverBudget, Leave
  <2>4. QED  BY <1>2, <2>2, <2>3 DEF HarvestImage
<1>3. CASE HarvestAction
  <2>1. UNCHANGED <<runVars, prun, cluster, starter>> /\ ScanStep(Actions)
    BY <1>3 DEF HarvestAction
  <2>2. Leave \/ Settle("done") \/ Settle("failed")
    BY <1>3 DEF HarvestAction
  <2>3. QED  BY <2>1, <2>2, SettleKeeps DEF StepEnds
<1>4. QED  BY <1>1, <1>2, <1>3

\* An image step whose Job failed gets another: its row stays running.
LEMMA RetryImageKeeps == ASSUME PipeInv, RetryImage  PROVE PipeInv'
<1>1. PICK k : k = Scanning
  OBVIOUS
<1>2. /\ ScanStep({"image"}) /\ MarkStepRunning(k, 0, steps[k].attempt + 1)
      /\ stepJobs' = [stepJobs EXCEPT ![k] = "none"]
      /\ holder' = [holder EXCEPT !.pc = "scanApply"]
      /\ UNCHANGED <<runVars, runs, prun, rollouts, workflow, starter>>
  BY <1>1 DEF RetryImage, runVars
<1>3. /\ holder.op = "tick" /\ holder.pc = "scan" /\ holder.pc \notin ActPCs /\ Native
      /\ holder.scan # {} /\ k \in holder.scan /\ k \in StepIds /\ Kind[k] = "image"
      /\ steps[k].state = "running" /\ NeedsMet(k) /\ TypeOK /\ ScanInv
      /\ holder \in HolderType /\ steps[k] \in StepRow
      /\ holder.scan \in SUBSET StepIds
  BY <1>1, <1>2, ScannedFacts, HolderFacts
<1>4. steps[k].attempt + 1 \in Nat
  BY <1>3 DEF StepRow
<1>5. PICK e : Moves(k, e) /\ e.state = "running" /\ e.run = 0
  BY <1>2, <1>3, <1>4, Marked DEF Open
<1>6. /\ steps'[k] = e /\ \A j \in StepIds : j # k => steps'[j] = steps[j]
      /\ \A j \in StepIds : NeedsMet(j) => NeedsMet(j)'
  BY <1>3, <1>5, MoveKeeps
<1>7. (Native' <=> Native) /\ \A j \in StepIds : Ours(j)' <=> Ours(j)
  BY <1>2, EngineStays
<1>8. /\ holder' \in HolderType /\ holder'.pc = "scanApply" /\ holder'.op = "tick"
      /\ holder'.scan = holder.scan /\ holder'.view = holder.view
      /\ holder'.retry = holder.retry
  BY <1>2, <1>3 DEF HolderType
<1>9. HolderShape'
  <2>1. Scanning' = k
    BY <1>1, <1>8 DEF Scanning
  <2>2. QED  BY <1>3, <1>7, <1>8, <2>1 DEF HolderShape, ActPCs, LaunchPCs
<1>10. ScanInv'
  <2>1. holder'.scan \subseteq In("running")'
    BY <1>3, <1>5, <1>6, <1>8 DEF ScanInv, In
  <2>2. ASSUME NEW j \in StepIds \ holder'.scan  PROVE Fits(j)'
    <3>1. Fits(j) /\ j # k
      BY <1>3, <1>8, <2>2 DEF ScanInv
    <3>2. QED  BY <1>6, <1>7, <1>8, <2>2, <3>1 DEF Fits
  <2>3. \A j \in holder'.scan :
            holder'.view[j] # "pending" /\ (Native' => holder'.view[j] = "running")
    BY <1>3, <1>7, <1>8 DEF ScanInv
  <2>4. \A j \in holder'.retry : Native' /\ NeedsMet(j)'
    BY <1>3, <1>6, <1>7, <1>8, HolderFacts DEF ScanInv
  <2>5. QED  BY <1>8, <2>1, <2>2, <2>3, <2>4 DEF ScanInv
<1>11. DecidedInv'
  BY <1>8 DEF DecidedInv, ActPCs
<1>12. RunTypeOK' /\ OwnersKept /\ DOMAIN runs' = DOMAIN runs
  BY <1>2, RunRowsType, RunRowsStand
<1>13. ClusterOK' /\ \A j \in StepIds : j # k => SameWork(j)
  BY <1>2, <1>3, <1>12, RunsOfStay DEF ClusterOK, TypeOK, SameWork
<1>14. Allowed(k, e)
  BY <1>3, <1>5 DEF Allowed
<1>15. QED
  BY <1>2, <1>3, <1>5, <1>8, <1>9, <1>10, <1>11, <1>12, <1>13, <1>14, HolderGoes

LEMMA NodeOutcomeIs ==
    ASSUME TypeOK, NEW k \in StepIds
    PROVE  NodeOutcome(k) \in StepEnds \cup {"running"}
<1>1. workflow \in WorkflowType
  BY DEF TypeOK
<1>2. /\ workflow.phase \in {"none", "Running", "Succeeded", "Failed"}
      /\ workflow.nodes[k] \in StepEnds \cup {"running"}
  BY <1>1 DEF WorkflowType
<1>3. QED  BY <1>2 DEF NodeOutcome, StepEnds

LEMMA ReadWorkflowKeeps == ASSUME PipeInv, ReadWorkflow  PROVE PipeInv'
<1>1. /\ holder.op = "tick" /\ holder.pc = "workflow" /\ ~ Native
      /\ UNCHANGED <<runVars, runs, prun, steps, cluster, starter>>
  BY HolderFacts DEF ReadWorkflow, Doing, HolderShape, runVars
<1>2. RunTypeOK' /\ OwnersKept /\ DOMAIN runs' = DOMAIN runs
  BY <1>1, RunRowsType, RunRowsStand
<1>3. ClusterOK' /\ UNCHANGED <<stepJobs, rollouts>>
  BY <1>1, ClusterStands
<1>4. \A j \in StepIds : SameWork(j)
  BY <1>2, <1>3, WorkStands
<1>5. CASE EndTurn
  BY <1>1, <1>2, <1>5, LetsGo DEF EndTurn
<1>6. CASE holder' = [holder EXCEPT !.pc = "scan",
                         !.view = [k \in StepIds |-> IF k \in holder.scan
                                      THEN NodeOutcome(k) ELSE holder.view[k]]]
  <2>1. TypeOK /\ ScanInv /\ holder \in HolderType /\ holder.view \in [StepIds -> StepStates]
        /\ holder.scan \in SUBSET StepIds
    BY HolderFacts
  <2>2. PICK view : view = [k \in StepIds |-> IF k \in holder.scan
                               THEN NodeOutcome(k) ELSE holder.view[k]]
    OBVIOUS
  <2>3. \A k \in StepIds : NodeOutcome(k) \in StepStates /\ NodeOutcome(k) # "pending"
    BY <2>1, NodeOutcomeIs DEF StepStates, StepEnds
  <2>4. /\ view \in [StepIds -> StepStates]
        /\ \A k \in holder.scan : view[k] # "pending"
        /\ \A k \in StepIds \ holder.scan : view[k] = holder.view[k]
    BY <2>1, <2>2, <2>3
  <2>5. holder' = [holder EXCEPT !.pc = "scan", !.view = view]
    BY <1>6, <2>2
  <2>6. /\ holder' \in HolderType /\ holder'.pc = "scan" /\ holder'.op = "tick"
        /\ holder'.scan = holder.scan /\ holder'.view = view
        /\ holder'.retry = holder.retry
    BY <1>1, <2>1, <2>4, <2>5 DEF HolderType
  <2>7. (Native' <=> Native) /\ \A j \in StepIds : Ours(j)' <=> Ours(j)
    BY <1>1, EngineStays
  <2>8. holder.pc \notin ActPCs
    BY <1>1 DEF ActPCs
  <2>9. HolderShape'
    BY <2>6 DEF HolderShape, ActPCs, LaunchPCs
  <2>10. DecidedInv'
    BY <2>6 DEF DecidedInv, ActPCs
  <2>11. ScanInv'
    <3>1. holder'.scan \subseteq In("running")'
      BY <1>1, <2>1, <2>6 DEF ScanInv, In
    <3>2. ASSUME NEW j \in StepIds \ holder'.scan  PROVE Fits(j)'
      <4>1. Fits(j)
        BY <1>1, <2>1, <2>6, <2>8, <3>2 DEF ScanInv
      <4>2. QED  BY <1>1, <2>4, <2>6, <2>7, <3>2, <4>1 DEF Fits
    <3>3. holder'.retry = {}
      BY <1>1, <2>1, <2>6, <2>8 DEF ScanInv
    <3>4. QED  BY <1>1, <2>4, <2>6, <2>7, <3>1, <3>2, <3>3 DEF ScanInv
  <2>12. 1 \in StepIds
    BY PipelineAssumption DEF StepIds
  <2>13. holder.op # "none" /\ UNCHANGED <<prun, starter, steps>>
    BY <1>1
  <2>14. QED
    BY <1>2, <1>3, <1>4, <2>6, <2>9, <2>10, <2>11, <2>12, <2>13, NoRowGoes
<1>7. QED  BY <1>5, <1>6 DEF ReadWorkflow

LEMMA HarvestNodeKeeps == ASSUME PipeInv, HarvestNode  PROVE PipeInv'
<1>1. PICK k : k = Scanning
  OBVIOUS
<1>2. PICK scan : scan = holder.scan \ {k}
  OBVIOUS
<1>3. PICK v : v = holder.view[k]
  OBVIOUS
<1>4. /\ ~ Native /\ holder.op = "tick" /\ holder.pc = "scan" /\ holder.scan # {}
      /\ IF v = "running" THEN UNCHANGED steps ELSE FinishStep(k, v)
      /\ holder' = [holder EXCEPT !.scan = scan]
      /\ UNCHANGED <<runVars, prun, cluster, starter>>
  BY <1>1, <1>2, <1>3 DEF HarvestNode, Doing
<1>5. /\ holder.pc \notin ActPCs /\ k \in holder.scan /\ k \in StepIds
      /\ TypeOK /\ ScanInv /\ holder \in HolderType /\ holder.scan \in SUBSET StepIds
      /\ v \in StepStates
  BY <1>1, <1>3, <1>4, ScanningFacts, HolderFacts DEF ActPCs
<1>6. steps[k].state = "running" /\ v # "pending"
  BY <1>3, <1>4, <1>5 DEF ScanInv, In
<1>7. v \in StepEnds \cup {"running"} /\ "running" \notin StepEnds
  BY <1>5, <1>6 DEF StepStates, StepEnds
<1>8. PICK e : /\ Moves(k, e) /\ e.run = steps[k].run /\ e.attempt = steps[k].attempt
               /\ e.state = v
  <2>1. CASE v = "running"
    <3>1. Moves(k, steps[k])
      BY <1>4, <1>5, <2>1, Stays
    <3>2. QED  BY <1>6, <2>1, <3>1
  <2>2. CASE v # "running"
    <3>1. FinishStep(k, v) /\ v \in StepEnds
      BY <1>4, <1>7, <2>2
    <3>2. QED  BY <1>5, <1>6, <3>1, Finished
  <2>3. QED  BY <2>1, <2>2
<1>9. scan \in SUBSET StepIds
  BY <1>2, <1>5
<1>10. /\ holder' \in HolderType /\ holder'.op = "tick" /\ holder'.pc = "scan"
       /\ holder'.scan = scan /\ holder'.view = holder.view /\ holder'.retry = holder.retry
  BY <1>4, <1>5, <1>9 DEF HolderType
<1>11. holder'.scan = holder.scan \ {k} /\ holder'.view[k] = v
       /\ holder'.retry \subseteq holder.retry \cup {k}
       /\ \A j \in StepIds : j # k => holder'.view[j] = holder.view[j]
  BY <1>2, <1>3, <1>10
<1>12. UNCHANGED prun /\ (k \in holder'.retry => k \in holder.retry)
  BY <1>4, <1>10
<1>13. HolderShape' /\ ScanInv' /\ DecidedInv'
  BY <1>4, <1>5, <1>6, <1>8, <1>10, <1>11, <1>12, ScanGoes
<1>14. holder.op # "none" /\ e.state \in {steps[k].state} \cup StepEnds
  BY <1>4, <1>6, <1>7, <1>8
<1>15. QED  BY <1>4, <1>5, <1>6, <1>8, <1>10, <1>13, <1>14, OnlyTheRowGoes

--------------------------------
\* What the tick decides, and does.

\* Once every row has been looked at, the decision is right about the rows.
LEMMA DecisionFits ==
    ASSUME TypeOK, holder.view \in [StepIds -> StepStates], \A k \in StepIds : Fits(k),
           \A k \in holder.retry : Native /\ NeedsMet(k)
    PROVE  /\ \A k \in ToSkip(holder.view) :
                 /\ Native /\ steps[k].state # "running"
                 /\ \E n \in Upstream[k] : n \in StepIds /\ steps[n].state = "failed"
           /\ \A k \in ToLaunch(holder.view) \cup holder.retry : Ours(k) /\ NeedsMet(k)
           /\ Outcome(holder.view) # "no" =>
                 /\ Settled
                 /\ Outcome(holder.view) = IF \A k \in StepIds : steps[k].state = "done"
                                           THEN "done" ELSE "failed"
<1>1. ASSUME NEW k \in ToSkip(holder.view)
      PROVE  /\ Native /\ steps[k].state # "running"
             /\ \E n \in Upstream[k] : n \in StepIds /\ steps[n].state = "failed"
  <2>1. /\ k \in StepIds /\ Native /\ holder.view[k] = "pending"
        /\ \E n \in Upstream[k] : holder.view[n] = "failed"
    BY <1>1 DEF ToSkip
  <2>2. steps[k].state = "pending"
    BY <2>1 DEF Fits, Ours
  <2>3. PICK n \in Upstream[k] : holder.view[n] = "failed"
    BY <2>1
  <2>4. n \in StepIds
    BY <2>1, UpstreamAreSteps
  <2>5. steps[n].state = "failed"
    BY <2>3, <2>4 DEF Fits, StepEnds
  <2>6. QED  BY <2>1, <2>2, <2>4, <2>5
<1>2. ASSUME NEW k \in ToLaunch(holder.view) \cup holder.retry  PROVE Ours(k) /\ NeedsMet(k)
  <2>1. CASE k \in holder.retry
    BY <2>1 DEF Ours
  <2>2. CASE k \in ToLaunch(holder.view)
    <3>1. k \in StepIds /\ Ours(k) /\ AllNeedsDone(holder.view, k)
      BY <2>2 DEF ToLaunch, Ours
    <3>2. \A n \in Needs[k] : n \in StepIds /\ holder.view[n] = "done"
      BY <3>1, Steps DEF AllNeedsDone
    <3>3. NeedsMet(k)
      BY <3>2 DEF NeedsMet, Fits, StepEnds
    <3>4. QED  BY <3>1, <3>3
  <2>3. QED  BY <1>2, <2>1, <2>2
<1>3. ASSUME Outcome(holder.view) # "no"
      PROVE  /\ Settled
             /\ Outcome(holder.view) = IF \A k \in StepIds : steps[k].state = "done"
                                       THEN "done" ELSE "failed"
  <2>1. \A k \in StepIds : holder.view[k] \in StepEnds
    BY <1>3 DEF Outcome, StepStates
  <2>2. \A k \in StepIds : steps[k].state = holder.view[k]
    BY <2>1 DEF Fits
  <2>3. Settled
    BY <2>1, <2>2 DEF Settled
  <2>4. Outcome(holder.view) =
            IF \A k \in StepIds : holder.view[k] = "done" THEN "done" ELSE "failed"
    BY <1>3 DEF Outcome
  <2>5. QED  BY <2>2, <2>3, <2>4
<1>4. QED  BY <1>1, <1>2, <1>3

LEMMA DecideKeeps == ASSUME PipeInv, Decide  PROVE PipeInv'
<1>1. PICK skip : skip = ToSkip(holder.view)
  OBVIOUS
<1>2. PICK launch : launch = ToLaunch(holder.view) \cup holder.retry
  OBVIOUS
<1>3. PICK finish : finish = Outcome(holder.view)
  OBVIOUS
<1>4. /\ holder.op = "tick" /\ holder.pc = "scan" /\ holder.scan = {}
      /\ holder' = [holder EXCEPT !.pc = "act", !.skip = skip, !.launch = launch,
                                  !.finish = finish]
      /\ UNCHANGED <<runVars, runs, prun, steps, cluster, starter>>
  BY <1>1, <1>2, <1>3 DEF Decide, Doing, runVars
<1>5. /\ TypeOK /\ ScanInv /\ holder \in HolderType /\ holder.pc \notin ActPCs
      /\ holder.view \in [StepIds -> StepStates] /\ holder.retry \in SUBSET StepIds
  BY <1>4, HolderFacts DEF ActPCs
<1>6. /\ \A k \in StepIds : Fits(k)
      /\ \A k \in holder.retry : Native /\ NeedsMet(k)
  BY <1>4, <1>5 DEF ScanInv
<1>7. /\ \A k \in skip :
            /\ Native /\ steps[k].state # "running"
            /\ \E n \in Upstream[k] : n \in StepIds /\ steps[n].state = "failed"
      /\ \A k \in launch : Ours(k) /\ NeedsMet(k)
      /\ finish # "no" =>
            /\ Settled
            /\ finish = IF \A k \in StepIds : steps[k].state = "done"
                        THEN "done" ELSE "failed"
  BY <1>1, <1>2, <1>3, <1>5, <1>6, DecisionFits
<1>8. /\ skip \in SUBSET StepIds /\ launch \in SUBSET StepIds
      /\ finish \in {"no", "done", "failed"}
  BY <1>1, <1>2, <1>3, <1>5 DEF ToSkip, ToLaunch, Outcome
<1>9. /\ holder' \in HolderType /\ holder'.pc = "act" /\ holder'.op = "tick"
      /\ holder'.scan = {} /\ holder'.skip = skip /\ holder'.launch = launch
      /\ holder'.finish = finish
  BY <1>4, <1>5, <1>8 DEF HolderType
<1>10. (Native' <=> Native) /\ \A j \in StepIds : Ours(j)' <=> Ours(j)
  BY <1>4, EngineStays
<1>11. HolderShape'
  BY <1>9 DEF HolderShape, ActPCs, LaunchPCs
<1>12. ScanInv'
  BY <1>9 DEF ScanInv, ActPCs
<1>13. DecidedInv'
  <2>1. \A j \in StepIds : NeedsMet(j)' <=> NeedsMet(j)
    BY <1>4 DEF NeedsMet
  <2>2. Settled' <=> Settled
    BY <1>4 DEF Settled
  <2>3. QED  BY <1>4, <1>7, <1>8, <1>9, <1>10, <2>1, <2>2 DEF DecidedInv
<1>14. RunTypeOK' /\ OwnersKept /\ DOMAIN runs' = DOMAIN runs
  BY <1>4, RunRowsType, RunRowsStand
<1>15. ClusterOK' /\ UNCHANGED <<stepJobs, rollouts>>
  BY <1>4, ClusterStands
<1>16. \A j \in StepIds : SameWork(j)
  BY <1>14, <1>15, WorkStands
<1>17. 1 \in StepIds
  BY PipelineAssumption DEF StepIds
<1>18. holder.op # "none" /\ UNCHANGED <<prun, starter, steps>>
  BY <1>4
<1>19. QED
  BY <1>9, <1>11, <1>12, <1>13, <1>14, <1>15, <1>16, <1>17, <1>18, NoRowGoes

\* Doing it leaves a part of it to do, and the rest of it as right.
LEMMA ActGoes ==
    ASSUME PipeInv, holder.pc \in ActPCs, UNCHANGED prun,
           NEW k \in StepIds, NEW e, Moves(k, e), holder.skip = {} \/ e.state # "running",
           holder'.op = "tick", holder'.pc \in ActPCs, holder'.scan = {},
           holder'.finish = holder.finish, holder'.skip \subseteq holder.skip,
           holder'.launch \subseteq holder.launch,
           holder'.pc # "act" =>
               /\ holder'.launch = holder.launch /\ holder.launch # {} /\ holder'.skip = {}
               /\ holder'.pc \in {"apply", "mark", "markFailed"} =>
                     Kind[Launching] = "app" /\ holder'.run \in DOMAIN runs'
               /\ holder'.pc = "actApply" => Kind[Launching] = "image"
               /\ holder'.pc \in {"action", "gate"} => Kind[Launching] \in Actions
    PROVE  HolderShape' /\ ScanInv' /\ DecidedInv'
<1>1. /\ TypeOK /\ DecidedInv /\ holder.skip \in SUBSET StepIds
      /\ holder.launch \in SUBSET StepIds
  BY HolderFacts
<1>2. /\ steps'[k] = e /\ \A j \in StepIds : j # k => steps'[j] = steps[j]
      /\ \A j \in StepIds :
            /\ steps[j].state \in StepEnds => steps'[j].state = steps[j].state
            /\ NeedsMet(j) => NeedsMet(j)'
      /\ Settled => Settled'
  BY <1>1, MoveKeeps
<1>3. (Native' <=> Native) /\ \A j \in StepIds : Ours(j)' <=> Ours(j)
  BY EngineStays
<1>4. HolderShape'
  <2>1. holder'.launch = holder.launch => Launching' = Launching
    BY DEF Launching
  <2>2. QED  BY <2>1 DEF HolderShape, ActPCs, LaunchPCs
<1>5. ScanInv'
  BY DEF ScanInv
<1>6. DecidedInv'
  <2>1. ASSUME NEW j \in holder'.skip
        PROVE  /\ Native' /\ steps'[j].state # "running"
               /\ \E n \in Upstream[j] : n \in StepIds /\ steps'[n].state = "failed"
    <3>1. /\ Native /\ steps[j].state # "running"
          /\ \E n \in Upstream[j] : n \in StepIds /\ steps[n].state = "failed"
      BY <1>1, <2>1 DEF DecidedInv
    <3>2. steps'[j].state # "running"
      BY <1>1, <1>2, <2>1, <3>1
    <3>3. QED  BY <1>2, <1>3, <3>1, <3>2 DEF StepEnds
  <2>2. ASSUME NEW j \in holder'.launch  PROVE Ours(j)' /\ NeedsMet(j)'
    BY <1>1, <1>2, <1>3, <2>2 DEF DecidedInv
  <2>3. ASSUME holder'.finish # "no"
        PROVE  /\ Settled'
               /\ holder'.finish = IF \A j \in StepIds : steps'[j].state = "done"
                                   THEN "done" ELSE "failed"
    <3>1. Settled /\ holder.finish = IF \A j \in StepIds : steps[j].state = "done"
                                     THEN "done" ELSE "failed"
      BY <1>1, <2>3 DEF DecidedInv
    <3>2. \A j \in StepIds : steps'[j].state = steps[j].state
      BY <1>2, <3>1 DEF Settled
    <3>3. QED  BY <1>2, <3>1, <3>2
  <2>4. QED  BY <2>1, <2>2, <2>3 DEF DecidedInv
<1>7. QED  BY <1>4, <1>5, <1>6

\* A launch is about a step of this code whose needs are met.
LEMMA LaunchFacts ==
    ASSUME PipeInv, holder.pc \in ActPCs, holder.launch # {}
    PROVE  /\ Launching \in StepIds /\ Ours(Launching) /\ NeedsMet(Launching)
           /\ holder.op = "tick" /\ holder.scan = {} /\ TypeOK
           /\ holder \in HolderType /\ steps[Launching] \in StepRow
           /\ steps[Launching].attempt + 1 \in Nat
<1>1. Launching \in holder.launch /\ Launching \in StepIds
  BY LaunchingFacts
<1>2. /\ Ours(Launching) /\ NeedsMet(Launching) /\ holder.op = "tick" /\ holder.scan = {}
      /\ TypeOK /\ holder \in HolderType /\ steps[Launching] \in StepRow
  BY <1>1, HolderFacts DEF DecidedInv, HolderShape
<1>3. QED  BY <1>1, <1>2 DEF StepRow

LEMMA SkipStepKeeps == ASSUME PipeInv, SkipStep  PROVE PipeInv'
<1>1. PICK k : k = Oldest(holder.skip)
  OBVIOUS
<1>2. PICK skip : skip = holder.skip \ {k}
  OBVIOUS
<1>3. /\ holder.op = "tick" /\ holder.pc = "act" /\ holder.skip # {}
      /\ FinishStep(k, "skipped") /\ holder' = [holder EXCEPT !.skip = skip]
      /\ UNCHANGED <<runVars, prun, cluster, starter>>
  BY <1>1, <1>2 DEF SkipStep, Doing
<1>4. /\ TypeOK /\ holder \in HolderType /\ holder.skip \in SUBSET StepIds
      /\ HolderShape /\ DecidedInv /\ \A j \in StepIds : steps[j].state \in StepStates
  BY HolderFacts
<1>5. k \in holder.skip /\ k \in StepIds
  BY <1>1, <1>3, <1>4, OldestStep
<1>6. steps[k].state # "running" /\ holder.scan = {} /\ holder.pc \in ActPCs
  BY <1>3, <1>4, <1>5 DEF DecidedInv, HolderShape, ActPCs
<1>7. "skipped" \in StepEnds
  BY DEF StepEnds
<1>8. PICK e : /\ Moves(k, e) /\ e.run = steps[k].run /\ e.attempt = steps[k].attempt
               /\ IF steps[k].state = "pending" THEN e.state = "skipped" ELSE e = steps[k]
  BY <1>3, <1>4, <1>5, <1>6, <1>7, Finished
<1>9. skip \in SUBSET StepIds /\ skip \subseteq holder.skip
  BY <1>2, <1>4
<1>10. /\ holder' \in HolderType /\ holder'.op = "tick" /\ holder'.pc = "act"
       /\ holder'.scan = {} /\ holder'.skip = skip /\ holder'.launch = holder.launch
       /\ holder'.finish = holder.finish
  BY <1>3, <1>4, <1>6, <1>9 DEF HolderType
<1>11. holder'.pc \in ActPCs /\ e.state # "running" /\ UNCHANGED prun
       /\ holder'.skip \subseteq holder.skip /\ holder'.launch \subseteq holder.launch
  BY <1>3, <1>6, <1>8, <1>9, <1>10 DEF ActPCs
<1>12. HolderShape' /\ ScanInv' /\ DecidedInv'
  BY <1>5, <1>6, <1>8, <1>10, <1>11, ActGoes
<1>13. /\ holder.op # "none" /\ e.state \in {steps[k].state} \cup StepEnds
       /\ e.state = "done" => steps[k].state \in {"running", "done"}
  BY <1>3, <1>7, <1>8
<1>14. QED  BY <1>3, <1>5, <1>8, <1>10, <1>12, <1>13, OnlyTheRowGoes

LEMMA NextLaunchFields ==
    ASSUME PipeInv, NextLaunch
    PROVE  /\ holder' \in HolderType /\ holder'.op = holder.op /\ holder'.pc = "act"
           /\ holder'.scan = holder.scan /\ holder'.skip = holder.skip
           /\ holder'.launch \subseteq holder.launch /\ holder'.finish = holder.finish
<1>1. PICK launch : launch = holder.launch \ {Launching}
  OBVIOUS
<1>2. holder \in HolderType /\ holder.launch \in SUBSET StepIds
  BY HolderFacts
<1>3. holder' = [holder EXCEPT !.pc = "act", !.launch = launch, !.run = 0]
  BY <1>1 DEF NextLaunch
<1>4. launch \in SUBSET StepIds /\ launch \subseteq holder.launch
  BY <1>1, <1>2
<1>5. QED  BY <1>2, <1>3, <1>4 DEF HolderType

PCs == ActPCs \cup {"idle", "workflow", "scan", "scanApply", "stopRun", "stopStep", "orphan"}

LEMMA PcFields ==
    ASSUME PipeInv, NEW pc \in PCs, holder' = [holder EXCEPT !.pc = pc]
    PROVE  /\ holder' \in HolderType /\ holder'.op = holder.op /\ holder'.pc = pc
           /\ holder'.scan = holder.scan /\ holder'.skip = holder.skip
           /\ holder'.launch = holder.launch /\ holder'.finish = holder.finish
           /\ holder'.view = holder.view /\ holder'.retry = holder.retry
           /\ holder'.run = holder.run
<1>1. holder \in HolderType
  BY HolderFacts
<1>2. QED  BY <1>1 DEF HolderType, PCs, ActPCs

LEMMA NextLaunchGoes ==
    ASSUME PipeInv, holder.pc \in ActPCs, holder.launch # {}, holder.skip = {}, NextLaunch,
           UNCHANGED prun, NEW e, Moves(Launching, e)
    PROVE  holder' \in HolderType /\ HolderShape' /\ ScanInv' /\ DecidedInv'
<1>1. /\ holder' \in HolderType /\ holder'.op = holder.op /\ holder'.pc = "act"
      /\ holder'.scan = holder.scan /\ holder'.skip = holder.skip
      /\ holder'.launch \subseteq holder.launch /\ holder'.finish = holder.finish
  BY NextLaunchFields
<1>2. Launching \in StepIds /\ holder.op = "tick" /\ holder.scan = {}
  BY LaunchFacts
<1>3. holder'.pc \in ActPCs /\ holder'.skip \subseteq holder.skip
  BY <1>1 DEF ActPCs
<1>4. HolderShape' /\ ScanInv' /\ DecidedInv'
  BY <1>1, <1>2, <1>3, ActGoes
<1>5. QED  BY <1>1, <1>4

\* A launch that ends with its row, moved or not.
LEMMA LaunchEnds ==
    ASSUME PipeInv, holder.pc \in ActPCs, holder.launch # {}, holder.skip = {}, NextLaunch,
           UNCHANGED <<runVars, prun, cluster, starter>>,
           \/ UNCHANGED steps \/ SetStepDetail(Launching)
           \/ \E s \in StepEnds : FinishStep(Launching, s)
    PROVE  PipeInv'
<1>1. PICK k : k = Launching
  OBVIOUS
<1>2. k \in StepIds /\ NeedsMet(k) /\ holder.op # "none" /\ TypeOK
  BY <1>1, LaunchFacts
<1>3. PICK e : /\ Moves(k, e) /\ e.run = steps[k].run /\ e.attempt = steps[k].attempt
               /\ e.state \in {steps[k].state} \cup StepEnds
  <2>1. CASE UNCHANGED steps
    <3>1. Moves(k, steps[k])
      BY <1>2, <2>1, Stays
    <3>2. QED  BY <3>1
  <2>2. CASE SetStepDetail(Launching)
    BY <1>1, <1>2, <2>2, Detailed
  <2>3. ASSUME NEW s \in StepEnds, FinishStep(Launching, s)
        PROVE  \E e : /\ Moves(k, e) /\ e.run = steps[k].run /\ e.attempt = steps[k].attempt
                      /\ e.state \in {steps[k].state} \cup StepEnds
    <3>1. PICK e : /\ Moves(k, e) /\ e.run = steps[k].run /\ e.attempt = steps[k].attempt
                   /\ IF \/ steps[k].state = "running"
                         \/ steps[k].state = "pending" /\ s # "done"
                      THEN e.state = s ELSE e = steps[k]
      BY <1>1, <1>2, <2>3, Finished
    <3>2. QED  BY <2>3, <3>1
  <2>4. QED  BY <2>1, <2>2, <2>3
<1>4. holder' \in HolderType /\ HolderShape' /\ ScanInv' /\ DecidedInv'
  BY <1>1, <1>3, NextLaunchGoes
<1>5. QED  BY <1>2, <1>3, <1>4, OnlyTheRowGoes

LEMMA LaunchFailsKeep ==
    ASSUME PipeInv, LaunchRefused \/ MarkAppFailed \/ ActionFails \/ ActionDone \/ DeployApplied
    PROVE  PipeInv'
<1>1. /\ NextLaunch /\ UNCHANGED <<runVars, prun, cluster, starter>>
      /\ holder.pc \in ActPCs /\ holder.launch # {} /\ holder.skip = {}
  BY HolderFacts
  DEF LaunchRefused, MarkAppFailed, ActionFails, ActionDone, DeployApplied, Launch, Doing,
      HolderShape, ActPCs, LaunchPCs
<1>2. \/ UNCHANGED steps \/ SetStepDetail(Launching)
      \/ \E s \in StepEnds : FinishStep(Launching, s)
  <2>1. "failed" \in StepEnds /\ "done" \in StepEnds
    BY DEF StepEnds
  <2>2. QED
    BY <2>1 DEF LaunchRefused, MarkAppFailed, ActionFails, ActionDone, DeployApplied, OverBudget
<1>3. QED  BY <1>1, <1>2, LaunchEnds

LEMMA MarkIsAllowed ==
    ASSUME PipeInv, NEW k \in StepIds, NeedsMet(k), NEW r \in Nat, NEW a \in Nat,
           MarkStepRunning(k, r, a), r \in DOMAIN runs' \cup {0},
           DOMAIN runs \subseteq DOMAIN runs',
           Native /\ Kind[k] = "app" => r # 0, ~ Native => r = 0
    PROVE  \E e : Allowed(k, e)
<1>1. TypeOK /\ steps[k].state \in StepStates
  BY HolderFacts
<1>2. PICK e : /\ Moves(k, e)
               /\ IF steps[k].state \in Open
                  THEN e.state = "running" /\ e.run = r /\ e.attempt = a
                  ELSE e = steps[k]
  BY <1>1, Marked
<1>3. CASE steps[k].state \in Open
  BY <1>2, <1>3 DEF Allowed
<1>4. CASE steps[k].state \notin Open
  BY <1>2, <1>4, EndIsAllowed
<1>5. QED  BY <1>3, <1>4

LEMMA MarkAppKeeps == ASSUME PipeInv, MarkApp  PROVE PipeInv'
<1>1. PICK k : k = Launching
  OBVIOUS
<1>2. /\ holder.pc = "mark" /\ NextLaunch
      /\ MarkStepRunning(k, holder.run, steps[k].attempt + 1)
      /\ UNCHANGED <<runVars, runs, prun, cluster, starter>>
  BY <1>1 DEF MarkApp, Doing, runVars
<1>3. /\ holder.pc \in ActPCs /\ holder.launch # {} /\ holder.skip = {}
      /\ Kind[k] = "app" /\ holder.run \in DOMAIN runs
  BY <1>1, <1>2, HolderFacts DEF HolderShape, ActPCs, LaunchPCs
<1>4. /\ k \in StepIds /\ Ours(k) /\ NeedsMet(k) /\ holder.op # "none"
      /\ steps[k].attempt + 1 \in Nat
  BY <1>1, <1>3, LaunchFacts
<1>5. Native
  BY <1>3, <1>4 DEF Ours, Compute, Actions
<1>6. holder.run \in Nat /\ holder.run # 0
  BY <1>3, Rows DEF PipeInv, TypeOK
<1>7. PICK e : Allowed(k, e)
  BY <1>2, <1>3, <1>4, <1>5, <1>6, MarkIsAllowed
<1>8. holder' \in HolderType /\ HolderShape' /\ ScanInv' /\ DecidedInv'
  BY <1>1, <1>2, <1>3, <1>7, NextLaunchGoes DEF Allowed
<1>9. RunTypeOK' /\ OwnersKept /\ DOMAIN runs' = DOMAIN runs
  BY <1>2, RunRowsType, RunRowsStand
<1>10. ClusterOK' /\ UNCHANGED <<stepJobs, rollouts>>
  BY <1>2, ClusterStands
<1>11. \A j \in StepIds : SameWork(j)
  BY <1>9, <1>10, WorkStands
<1>12. QED  BY <1>2, <1>4, <1>7, <1>8, <1>9, <1>10, <1>11, HolderGoes

\* The row of an image step or of an action is marked before the rest.
LEMMA MarkFirstKeeps == ASSUME PipeInv, LaunchImage \/ LaunchAction  PROVE PipeInv'
<1>1. PICK k : k = Launching
  OBVIOUS
<1>2. PICK pc : pc = IF LaunchImage THEN "actApply" ELSE "action"
  OBVIOUS
<1>3. /\ holder.pc = "act" /\ holder.launch # {} /\ holder.skip = {}
      /\ Kind[k] \in Actions \cup {"image"}
      /\ pc = "actApply" => Kind[k] = "image"
      /\ pc = "action" => Kind[k] \in Actions
      /\ MarkStepRunning(k, 0, steps[k].attempt + 1)
      /\ holder' = [holder EXCEPT !.pc = pc] /\ pc \in {"actApply", "action"}
      /\ UNCHANGED stepJobs \/ stepJobs' = [stepJobs EXCEPT ![k] = "none"]
      /\ UNCHANGED <<runVars, runs, prun, rollouts, workflow, starter>>
  BY <1>1, <1>2 DEF LaunchImage, LaunchAction, Launch, Doing, runVars, cluster
<1>4. holder.pc \in ActPCs /\ pc \in PCs
  BY <1>3 DEF ActPCs, PCs
<1>5. /\ k \in StepIds /\ Ours(k) /\ NeedsMet(k) /\ holder.op = "tick" /\ holder.scan = {}
      /\ TypeOK /\ steps[k].attempt + 1 \in Nat
  BY <1>1, <1>3, <1>4, LaunchFacts
<1>6. Kind[k] # "app"
  BY <1>3 DEF Actions
<1>7. RunTypeOK' /\ OwnersKept /\ DOMAIN runs' = DOMAIN runs
  BY <1>3, RunRowsType, RunRowsStand
<1>8. PICK e : Allowed(k, e)
  BY <1>3, <1>5, <1>6, <1>7, MarkIsAllowed
<1>9. /\ holder' \in HolderType /\ holder'.op = holder.op /\ holder'.pc = pc
      /\ holder'.scan = holder.scan /\ holder'.skip = holder.skip
      /\ holder'.launch = holder.launch /\ holder'.finish = holder.finish
  BY <1>3, <1>4, PcFields
<1>10. holder'.pc \in ActPCs /\ holder'.pc \notin {"apply", "mark", "markFailed", "gate"}
  BY <1>3, <1>9 DEF ActPCs
<1>11. HolderShape' /\ ScanInv' /\ DecidedInv'
  BY <1>1, <1>3, <1>4, <1>5, <1>8, <1>9, <1>10, ActGoes DEF Allowed
<1>12. ClusterOK' /\ \A j \in StepIds : j # k => SameWork(j)
  BY <1>3, <1>5, <1>7, RunsOfStay DEF ClusterOK, TypeOK, SameWork
<1>13. holder.op # "none"
  BY <1>5
<1>14. QED  BY <1>3, <1>5, <1>7, <1>8, <1>9, <1>11, <1>12, <1>13, HolderGoes

\* The deploy of a step is created: the step's row waits for the next.
LEMMA DeployCreatedKeeps == ASSUME PipeInv, DeployCreated  PROVE PipeInv'
<1>1. PICK k : k = Launching
  OBVIOUS
<1>2. /\ holder.pc = "action" /\ holder' = [holder EXCEPT !.pc = "gate"]
      /\ rollouts' = [rollouts EXCEPT ![k] = "deploying"]
      /\ UNCHANGED <<runVars, runs, prun, steps, stepJobs, workflow, starter>>
  BY <1>1 DEF DeployCreated, runVars
<1>3. /\ holder.pc \in ActPCs /\ holder.launch # {} /\ holder.skip = {}
      /\ Kind[k] \in Actions
  BY <1>1, <1>2, HolderFacts DEF HolderShape, ActPCs, LaunchPCs
<1>4. k \in StepIds /\ NeedsMet(k) /\ holder.op = "tick" /\ holder.scan = {} /\ TypeOK
  BY <1>1, <1>3, LaunchFacts
<1>5. "gate" \in PCs /\ "gate" \in ActPCs
  BY DEF PCs, ActPCs
<1>6. /\ holder' \in HolderType /\ holder'.op = holder.op /\ holder'.pc = "gate"
      /\ holder'.scan = holder.scan /\ holder'.skip = holder.skip
      /\ holder'.launch = holder.launch /\ holder'.finish = holder.finish
  BY <1>2, <1>5, PcFields
<1>7. Moves(k, steps[k])
  BY <1>2, <1>4, Stays
<1>8. HolderShape' /\ ScanInv' /\ DecidedInv'
  BY <1>1, <1>2, <1>3, <1>4, <1>5, <1>6, <1>7, ActGoes
<1>9. RunTypeOK' /\ OwnersKept /\ DOMAIN runs' = DOMAIN runs
  BY <1>2, RunRowsType, RunRowsStand
<1>10. ClusterOK' /\ \A j \in StepIds : j # k => SameWork(j)
  BY <1>2, <1>4, <1>9, RunsOfStay DEF ClusterOK, TypeOK, SameWork
<1>11. holder.op # "none" /\ UNCHANGED <<prun, starter, steps>>
  BY <1>2, <1>4
<1>12. QED  BY <1>4, <1>6, <1>8, <1>9, <1>10, <1>11, NoRowGoes

\* The step whose Job is to be applied, on its first attempt or a retry.
LEMMA ApplyingFacts ==
    ASSUME PipeInv, holder.pc \in {"scanApply", "actApply"}
    PROVE  /\ Applying \in StepIds /\ NeedsMet(Applying) /\ holder.op = "tick" /\ TypeOK
           /\ holder.pc = "scanApply" =>
                 /\ Native /\ Applying = Scanning /\ Applying \in holder.scan
                 /\ holder.pc \notin ActPCs
                 /\ steps[Applying].state = "running" /\ holder.view[Applying] = "running"
           /\ holder.pc = "actApply" =>
                 /\ Applying = Launching /\ holder.pc \in ActPCs
                 /\ holder.launch # {} /\ holder.skip = {}
<1>1. CASE holder.pc = "scanApply"
  <2>1. holder.op = "tick" /\ holder.scan # {} /\ Native /\ holder.pc \notin ActPCs
    BY <1>1, HolderFacts DEF HolderShape, ActPCs
  <2>2. Applying = Scanning /\ Scanning \in holder.scan /\ Scanning \in StepIds
    BY <1>1, <2>1, ScanningFacts DEF Applying
  <2>3. steps[Scanning].state = "running" /\ holder.view[Scanning] = "running"
    BY <2>1, <2>2, HolderFacts DEF ScanInv, In
  <2>4. NeedsMet(Scanning)
    BY <2>1, <2>2, <2>3, HolderFacts DEF RowsInv, Ours
  <2>5. QED  BY <1>1, <2>1, <2>2, <2>3, <2>4, HolderFacts
<1>2. CASE holder.pc = "actApply"
  <2>1. holder.pc \in ActPCs /\ holder.launch # {} /\ holder.skip = {}
    BY <1>2, HolderFacts DEF HolderShape, ActPCs, LaunchPCs
  <2>2. Applying = Launching
    BY <1>2 DEF Applying
  <2>3. QED  BY <1>2, <2>1, <2>2, LaunchFacts
<1>3. QED  BY <1>1, <1>2

LEMMA AppliedGoes ==
    ASSUME PipeInv, holder.pc \in {"scanApply", "actApply"}, Applied, UNCHANGED prun,
           NEW e, Moves(Applying, e)
    PROVE  holder' \in HolderType /\ HolderShape' /\ ScanInv' /\ DecidedInv'
<1>1. CASE holder.pc = "actApply"
  <2>1. NextLaunch
    BY <1>1 DEF Applied
  <2>2. QED  BY <1>1, <2>1, ApplyingFacts, NextLaunchGoes
<1>2. CASE holder.pc = "scanApply"
  <2>1. PICK k : k = Applying
    OBVIOUS
  <2>2. /\ k \in holder.scan /\ k = Scanning /\ holder.op = "tick" /\ holder.pc \notin ActPCs
        /\ holder.view[k] = "running" /\ k \in StepIds
    BY <1>2, <2>1, ApplyingFacts
  <2>3. PICK scan : scan = holder.scan \ {k}
    OBVIOUS
  <2>4. holder \in HolderType /\ scan \in SUBSET StepIds
    BY <2>3, HolderFacts
  <2>5. holder' = [holder EXCEPT !.pc = "scan", !.scan = scan]
    BY <1>2, <2>2, <2>3 DEF Applied
  <2>6. /\ holder' \in HolderType /\ holder'.pc = "scan" /\ holder'.op = "tick"
        /\ holder'.scan = scan /\ holder'.view = holder.view /\ holder'.retry = holder.retry
    BY <2>2, <2>4, <2>5 DEF HolderType
  <2>7. /\ holder'.view[k] # "pending" /\ holder'.view[k] \notin StepEnds
        /\ holder'.scan = holder.scan \ {k}
        /\ holder'.retry \subseteq holder.retry \cup {k}
        /\ k \in holder'.retry => k \in holder.retry
    BY <2>2, <2>3, <2>6 DEF StepEnds
  <2>8. \A j \in StepIds : j # k => holder'.view[j] = holder.view[j]
    BY <2>6
  <2>9. HolderShape' /\ ScanInv' /\ DecidedInv'
    BY <2>1, <2>2, <2>6, <2>7, <2>8, ScanGoes
  <2>10. QED  BY <2>6, <2>9
<1>3. QED  BY <1>1, <1>2

LEMMA ApplyImageKeeps == ASSUME PipeInv, ApplyImage \/ ApplyImageFails  PROVE PipeInv'
<1>1. PICK k : k = Applying
  OBVIOUS
<1>2. /\ holder.pc \in {"scanApply", "actApply"} /\ Applied
      /\ UNCHANGED <<runVars, runs, prun, rollouts, workflow, starter>>
  BY DEF ApplyImage, ApplyImageFails, runVars, cluster
<1>3. k \in StepIds /\ NeedsMet(k) /\ holder.op # "none" /\ TypeOK
  BY <1>1, <1>2, ApplyingFacts
<1>4. RunTypeOK' /\ OwnersKept /\ DOMAIN runs' = DOMAIN runs
  BY <1>2, RunRowsType, RunRowsStand
<1>5. CASE ApplyImage
  <2>1. UNCHANGED steps /\ stepJobs' = [stepJobs EXCEPT ![k] = "running"]
    BY <1>1, <1>5 DEF ApplyImage
  <2>2. Moves(k, steps[k])
    BY <1>3, <2>1, Stays
  <2>3. holder' \in HolderType /\ HolderShape' /\ ScanInv' /\ DecidedInv'
    BY <1>1, <1>2, <2>2, AppliedGoes
  <2>4. ClusterOK' /\ \A j \in StepIds : j # k => SameWork(j)
    BY <1>2, <1>3, <1>4, <2>1, RunsOfStay DEF ClusterOK, TypeOK, SameWork
  <2>5. QED  BY <1>2, <1>3, <1>4, <2>1, <2>3, <2>4, NoRowGoes
<1>6. CASE ApplyImageFails
  <2>1. /\ FinishStep(k, "failed") /\ "failed" \in StepEnds
        /\ UNCHANGED <<runVars, prun, cluster, starter>>
    BY <1>1, <1>6 DEF ApplyImageFails, StepEnds
  <2>2. PICK e : /\ Moves(k, e) /\ e.run = steps[k].run /\ e.attempt = steps[k].attempt
                 /\ IF \/ steps[k].state = "running"
                       \/ steps[k].state = "pending" /\ "failed" # "done"
                    THEN e.state = "failed" ELSE e = steps[k]
    BY <1>3, <2>1, Finished
  <2>3. e.state \in {steps[k].state} \cup StepEnds
    BY <2>1, <2>2
  <2>4. holder' \in HolderType /\ HolderShape' /\ ScanInv' /\ DecidedInv'
    BY <1>1, <1>2, <2>2, AppliedGoes
  <2>5. QED  BY <1>3, <2>1, <2>2, <2>3, <2>4, OnlyTheRowGoes
<1>7. QED  BY <1>5, <1>6

\* A run of the step's app: its row, its Job, and its failure to start.
LEMMA RunStepGoes ==
    ASSUME PipeInv, holder.pc \in ActPCs, holder.launch # {}, holder.skip = {},
           Kind[Launching] = "app", NEW pc \in {"apply", "mark", "markFailed"},
           NEW r \in DOMAIN runs', r \in Nat,
           holder' = [holder EXCEPT !.pc = pc, !.run = r],
           RunTypeOK', DOMAIN runs \subseteq DOMAIN runs',
           UNCHANGED <<prun, steps, cluster, starter>>,
           \A j \in StepIds : j # Launching => (RunsOf(j)' # {} => RunsOf(j) # {})
    PROVE  PipeInv'
<1>1. PICK k : k = Launching
  OBVIOUS
<1>2. /\ k \in StepIds /\ NeedsMet(k) /\ holder.op = "tick" /\ holder.scan = {} /\ TypeOK
      /\ holder \in HolderType
  BY <1>1, LaunchFacts
<1>3. /\ holder' \in HolderType /\ holder'.op = holder.op /\ holder'.pc = pc
      /\ holder'.scan = holder.scan /\ holder'.skip = holder.skip /\ holder'.run = r
      /\ holder'.launch = holder.launch /\ holder'.finish = holder.finish
  BY <1>2 DEF HolderType
<1>4. pc \in ActPCs /\ pc \notin {"act", "actApply", "action", "gate"}
  BY DEF ActPCs
<1>5. Moves(k, steps[k])
  BY <1>2, Stays
<1>6. HolderShape' /\ ScanInv' /\ DecidedInv'
  BY <1>1, <1>2, <1>3, <1>4, <1>5, ActGoes
<1>7. ClusterOK' /\ UNCHANGED <<stepJobs, rollouts>>
  BY ClusterStands
<1>8. \A j \in StepIds : j # k => SameWork(j)
  BY <1>1, <1>7 DEF SameWork
<1>9. holder.op # "none"
  BY <1>2
<1>10. QED  BY <1>2, <1>3, <1>6, <1>7, <1>8, <1>9, NoRowGoes

LEMMA LaunchAppKeeps == ASSUME PipeInv, LaunchApp  PROVE PipeInv'
<1>1. PICK k : k = Launching
  OBVIOUS
<1>2. PICK r : r = Len(runs) + 1
  OBVIOUS
<1>3. /\ holder.pc = "act" /\ holder.launch # {} /\ holder.skip = {} /\ Kind[k] = "app"
      /\ CreateJobRun(k, 1) /\ holder' = [holder EXCEPT !.pc = "apply", !.run = r]
      /\ OnlyRunsJobs /\ UNCHANGED <<prun, steps, cluster, starter>>
  BY <1>1, <1>2 DEF LaunchApp, Launch, Doing
<1>4. holder.pc \in ActPCs /\ RunTypeOK /\ Len(runs) \in Nat
  BY <1>3, Rows DEF ActPCs, PipeInv, TypeOK
<1>5. k \in StepIds /\ k \in Nat /\ 1 \in Nat \ {0} /\ r \in Nat
  BY <1>1, <1>2, <1>3, <1>4, LaunchFacts, Steps
<1>6. /\ runs' \in Seq(RowType) /\ jobs' \in Seq(JobType) /\ Len(jobs') = Len(runs')
      /\ DOMAIN runs' = DOMAIN runs \cup {r}
      /\ runs'[r].owner = k
      /\ \A n \in DOMAIN runs : runs'[n] = runs[n]
  BY <1>2, <1>3, <1>4, <1>5, CreateRows
<1>7. RunTypeOK'
  BY <1>3, <1>4, <1>6 DEF RunTypeOK, OnlyRunsJobs
<1>8. \A j \in StepIds : j # k => (RunsOf(j)' # {} => RunsOf(j) # {})
  BY <1>6 DEF RunsOf
<1>9. QED  BY <1>1, <1>3, <1>4, <1>5, <1>6, <1>7, <1>8, RunStepGoes

LEMMA ApplyAppKeeps == ASSUME PipeInv, ApplyApp \/ ApplyAppFails  PROVE PipeInv'
<1>1. PICK k : k = Launching
  OBVIOUS
<1>2. PICK r : r = holder.run
  OBVIOUS
<1>3. PICK pc : pc = IF ApplyApp THEN "mark" ELSE "markFailed"
  OBVIOUS
<1>4. /\ holder.pc = "apply" /\ pc \in {"mark", "markFailed"}
      /\ holder' = [holder EXCEPT !.pc = pc]
      /\ \/ ApplyRun(r) /\ OnlyApplies
         \/ FinishJobRun(r, "failed") /\ ApplyFails(r) /\ OnlyRunsJobs
      /\ UNCHANGED <<prun, steps, cluster, starter>>
  BY <1>2, <1>3 DEF ApplyApp, ApplyAppFails, Doing
<1>5. /\ holder.pc \in ActPCs /\ holder.launch # {} /\ holder.skip = {}
      /\ Kind[k] = "app" /\ r \in DOMAIN runs
  BY <1>1, <1>2, <1>4, HolderFacts DEF HolderShape, ActPCs, LaunchPCs
<1>6. RunTypeOK /\ holder \in HolderType /\ r \in Nat
  BY <1>5, HolderFacts, Rows
<1>7. holder' = [holder EXCEPT !.pc = pc, !.run = r]
  BY <1>2, <1>4, <1>6 DEF HolderType
<1>8. RunTypeOK' /\ DOMAIN runs' = DOMAIN runs /\ OwnersKept
  <2>1. CASE ApplyRun(r) /\ OnlyApplies
    <3>1. UNCHANGED runs
      BY <2>1 DEF OnlyApplies
    <3>2. RowsOK' /\ \A w \in watchers' : w \in WatcherType /\ w.run \in DOMAIN runs
      BY <1>5, <1>6, <2>1, <3>1, ApplyRunOK
    <3>3. RunTypeOK'
      BY <1>6, <2>1, <3>1, <3>2 DEF RunTypeOK, RowsOK, OnlyApplies
    <3>4. QED  BY <3>1, <3>3, RunRowsStand
  <2>2. CASE FinishJobRun(r, "failed") /\ ApplyFails(r) /\ OnlyRunsJobs
    <3>1. /\ runs' \in Seq(RowType) /\ Len(runs') = Len(runs) /\ DOMAIN runs' = DOMAIN runs
          /\ runs'[r].owner = runs[r].owner
          /\ \A n \in DOMAIN runs : n # r => runs'[n] = runs[n]
      BY <1>5, <1>6, <2>2, FinishRow DEF Ended
    <3>2. jobs' \in Seq(JobType) /\ Len(jobs') = Len(jobs)
      BY <1>5, <1>6, <2>2, ApplyFailsRow
    <3>3. RunTypeOK'
      BY <1>6, <2>2, <3>1, <3>2 DEF RunTypeOK, OnlyRunsJobs
    <3>4. QED  BY <3>1, <3>3 DEF OwnersKept
  <2>3. QED  BY <1>4, <2>1, <2>2
<1>9. \A j \in StepIds : RunsOf(j)' # {} => RunsOf(j) # {}
  BY <1>8, RunsOfStay
<1>10. QED  BY <1>1, <1>4, <1>5, <1>6, <1>7, <1>8, <1>9, RunStepGoes

--------------------------------
\* stopPipelineRun and the reconciliation go through the rows too.

\* A stop leaves no row behind that is not at its end.
LEMMA StopGoes ==
    ASSUME PipeInv, holder.op = "stop", UNCHANGED prun,
           NEW k \in StepIds, NEW e, Moves(k, e),
           holder'.op = "stop", holder'.pc \in {"scan", "stopRun", "stopStep"},
           holder'.view = holder.view,
           \/ holder'.scan = holder.scan
           \/ holder'.scan = holder.scan \ {k} /\ e.state \in StepEnds,
           holder'.pc # "scan" => holder'.scan = holder.scan /\ holder.scan # {},
           holder'.pc = "stopRun" => Native /\ UNCHANGED steps /\ steps[Scanning].run # 0
    PROVE  HolderShape' /\ ScanInv' /\ DecidedInv'
<1>1. /\ TypeOK /\ ScanInv /\ holder.scan \in SUBSET StepIds
      /\ \A j \in StepIds : steps[j].state \in StepStates
  BY HolderFacts
<1>2. /\ steps'[k] = e /\ \A j \in StepIds : j # k => steps'[j] = steps[j]
      /\ \A j \in StepIds :
            /\ steps[j].state \in StepEnds => steps'[j].state = steps[j].state
            /\ steps[j].state # "pending" => steps'[j].state # "pending"
  BY <1>1, MoveKeeps
<1>3. Native' <=> Native
  BY EngineStays
<1>4. HolderShape'
  <2>1. holder'.scan = holder.scan => Scanning' = Scanning
    BY DEF Scanning
  <2>2. QED  BY <1>3, <2>1 DEF HolderShape, ActPCs, LaunchPCs
<1>5. ScanInv'
  <2>1. ASSUME NEW j \in In("pending")' \cup In("running")'  PROVE j \in holder'.scan
    <3>1. j \in StepIds /\ steps'[j].state \in {"pending", "running"}
      BY <2>1 DEF In
    <3>2. steps[j].state \in {"pending", "running"}
      BY <1>1, <1>2, <3>1 DEF StepStates, StepEnds
    <3>3. j \in holder.scan
      BY <1>1, <3>1, <3>2 DEF ScanInv, In
    <3>4. j = k => e.state \notin StepEnds
      BY <1>2, <3>1 DEF StepEnds
    <3>5. QED  BY <3>3, <3>4
  <2>2. \A j \in holder'.scan : holder'.view[j] = "running" => steps'[j].state # "pending"
    BY <1>1, <1>2 DEF ScanInv
  <2>3. QED  BY <2>1, <2>2 DEF ScanInv
<1>6. DecidedInv'
  BY DEF DecidedInv, ActPCs
<1>7. QED  BY <1>4, <1>5, <1>6

\* The rows of the steps stay, whatever is stopped of them.
LEMMA StopHalts ==
    ASSUME PipeInv, holder.op = "stop", holder.scan # {},
           NEW pc \in {"stopRun", "stopStep"}, holder' = [holder EXCEPT !.pc = pc],
           pc = "stopRun" => Native /\ steps[Scanning].run # 0,
           RunTypeOK', OwnersKept, DOMAIN runs \subseteq DOMAIN runs', ClusterOK',
           \A j \in StepIds : SameWork(j),
           UNCHANGED <<prun, steps, starter>>
    PROVE  PipeInv'
<1>1. pc \in PCs
  BY DEF PCs
<1>2. /\ holder' \in HolderType /\ holder'.op = holder.op /\ holder'.pc = pc
      /\ holder'.scan = holder.scan /\ holder'.view = holder.view
  BY <1>1, PcFields
<1>3. PICK k : k = Scanning
  OBVIOUS
<1>4. k \in StepIds /\ TypeOK
  BY <1>3, ScanningFacts, HolderFacts
<1>5. Moves(k, steps[k])
  BY <1>4, Stays
<1>6. HolderShape' /\ ScanInv' /\ DecidedInv'
  BY <1>2, <1>3, <1>4, <1>5, StopGoes
<1>7. holder.op # "none"
  OBVIOUS
<1>8. QED  BY <1>2, <1>4, <1>6, <1>7, NoRowGoes

LEMMA StopRunsKeep == ASSUME PipeInv, StopRunJob \/ StopRun \/ StopStepJob  PROVE PipeInv'
<1>1. PICK k : k = Scanning
  OBVIOUS
<1>2. /\ holder.op = "stop" /\ holder.scan # {} /\ RunTypeOK
      /\ UNCHANGED <<prun, steps, starter>>
  BY HolderFacts DEF StopRunJob, StopRun, StopStepJob, Stops, Doing, HolderShape
<1>3. k \in StepIds /\ steps[k].run \in DOMAIN runs \cup {0}
  BY <1>1, <1>2, ScanningFacts, HolderFacts
<1>4. CASE StopRunJob
  <2>1. /\ steps[k].run # 0 /\ DeleteJob(steps[k].run) /\ OnlyJobs
        /\ holder' = [holder EXCEPT !.pc = "stopRun"] /\ UNCHANGED <<runs, cluster>>
    BY <1>1, <1>4 DEF StopRunJob, OnlyJobs
  <2>2. Native
    BY <1>3, <2>1, HolderFacts DEF RowsInv
  <2>3. jobs' \in Seq(JobType) /\ Len(jobs') = Len(jobs)
    BY <1>2, <1>3, <2>1, DeleteJobRow
  <2>4. RunTypeOK'
    BY <1>2, <2>1, <2>3 DEF RunTypeOK, OnlyJobs
  <2>5. OwnersKept /\ DOMAIN runs' = DOMAIN runs
    BY <2>1, RunRowsStand
  <2>6. ClusterOK' /\ UNCHANGED <<stepJobs, rollouts>>
    BY <2>1, ClusterStands
  <2>7. \A j \in StepIds : SameWork(j)
    BY <2>5, <2>6, WorkStands
  <2>8. QED  BY <1>1, <1>2, <2>1, <2>2, <2>4, <2>5, <2>6, <2>7, StopHalts
<1>5. CASE StopRun
  <2>1. /\ holder.pc = "stopRun" /\ FinishJobRun(steps[k].run, "failed") /\ OnlyRunRows
        /\ holder' = [holder EXCEPT !.pc = "stopStep"] /\ UNCHANGED cluster
    BY <1>1, <1>5 DEF StopRun
  <2>2. steps[k].run \in DOMAIN runs
    BY <1>1, <1>3, <2>1, HolderFacts DEF HolderShape
  <2>3. PICK r \in DOMAIN runs : r = steps[k].run
    BY <2>2
  <2>4. /\ runs' \in Seq(RowType) /\ Len(runs') = Len(runs) /\ DOMAIN runs' = DOMAIN runs
        /\ runs'[r].owner = runs[r].owner
        /\ \A n \in DOMAIN runs : n # r => runs'[n] = runs[n]
    BY <1>2, <2>1, <2>3, FinishRow DEF Ended
  <2>5. RunTypeOK'
    BY <1>2, <2>1, <2>4 DEF RunTypeOK, OnlyRunRows
  <2>6. OwnersKept
    BY <2>4 DEF OwnersKept
  <2>7. ClusterOK' /\ UNCHANGED <<stepJobs, rollouts>>
    BY <2>1, ClusterStands
  <2>8. \A j \in StepIds : SameWork(j)
    BY <2>6, <2>7, WorkStands
  <2>9. QED  BY <1>2, <2>1, <2>4, <2>5, <2>6, <2>7, <2>8, StopHalts
<1>6. CASE StopStepJob
  <2>1. /\ holder' = [holder EXCEPT !.pc = "stopStep"]
        /\ UNCHANGED <<runVars, runs, rollouts, workflow>>
        /\ \/ stepJobs' = [stepJobs EXCEPT ![k] = IF @ = "none" THEN @ ELSE "gone"]
           \/ UNCHANGED stepJobs
    BY <1>1, <1>6 DEF StopStepJob, runVars
  <2>2. RunTypeOK' /\ OwnersKept /\ DOMAIN runs' = DOMAIN runs
    BY <2>1, RunRowsType, RunRowsStand
  <2>3. /\ stepJobs \in [StepIds -> Ended \cup {"none", "running", "gone"}]
        /\ rollouts \in [StepIds -> {"none", "deploying", "live", "failed"}]
        /\ workflow \in WorkflowType
    BY DEF PipeInv, TypeOK
  <2>4. /\ stepJobs' \in [StepIds -> Ended \cup {"none", "running", "gone"}]
        /\ \A j \in StepIds : stepJobs'[j] # "none" => stepJobs[j] # "none"
    BY <1>3, <2>1, <2>3
  <2>5. ClusterOK'
    BY <2>1, <2>3, <2>4 DEF ClusterOK
  <2>6. \A j \in StepIds : SameWork(j)
    BY <2>1, <2>2, <2>4, RunsOfStay DEF SameWork
  <2>7. QED  BY <1>2, <2>1, <2>2, <2>5, <2>6, StopHalts
<1>7. QED  BY <1>4, <1>5, <1>6

LEMMA StopStepKeeps == ASSUME PipeInv, StopStep  PROVE PipeInv'
<1>1. PICK k : k = Scanning
  OBVIOUS
<1>2. PICK s : s = IF holder.view[k] = "running" THEN "failed" ELSE "skipped"
  OBVIOUS
<1>3. PICK scan : scan = holder.scan \ {k}
  OBVIOUS
<1>4. /\ holder.op = "stop" /\ holder.scan # {} /\ FinishStep(k, s)
      /\ holder' = [holder EXCEPT !.pc = "scan", !.scan = scan]
      /\ UNCHANGED <<runVars, prun, cluster, starter>>
  BY <1>1, <1>2, <1>3, HolderFacts DEF StopStep, Doing, HolderShape
<1>5. /\ k \in StepIds /\ TypeOK /\ holder \in HolderType /\ steps[k].state \in StepStates
      /\ scan \in SUBSET StepIds
  BY <1>1, <1>3, <1>4, ScanningFacts, HolderFacts
<1>6. s \in StepEnds /\ s # "done"
  BY <1>2 DEF StepEnds
<1>7. PICK e : /\ Moves(k, e) /\ e.run = steps[k].run /\ e.attempt = steps[k].attempt
               /\ IF \/ steps[k].state = "running"
                     \/ steps[k].state = "pending" /\ s # "done"
                  THEN e.state = s ELSE e = steps[k]
  BY <1>4, <1>5, <1>6, Finished
<1>8. e.state \in StepEnds /\ (e.state = "done" => steps[k].state = "done")
  BY <1>5, <1>6, <1>7 DEF StepStates
<1>9. /\ holder' \in HolderType /\ holder'.op = "stop" /\ holder'.pc = "scan"
      /\ holder'.scan = scan /\ holder'.view = holder.view
  BY <1>4, <1>5 DEF HolderType
<1>10. holder'.scan = holder.scan \ {k} /\ UNCHANGED prun
  BY <1>3, <1>4, <1>9
<1>11. HolderShape' /\ ScanInv' /\ DecidedInv'
  BY <1>4, <1>5, <1>7, <1>8, <1>9, <1>10, StopGoes
<1>12. holder.op # "none" /\ e.state \in {steps[k].state} \cup StepEnds
  BY <1>4, <1>8
<1>13. QED  BY <1>4, <1>5, <1>7, <1>8, <1>9, <1>11, <1>12, OnlyTheRowGoes

LEMMA StopWorkflowKeeps == ASSUME PipeInv, StopWorkflow  PROVE PipeInv'
<1>1. PICK scan : scan = In("running") \cup In("pending")
  OBVIOUS
<1>2. PICK view : view = States
  OBVIOUS
<1>3. /\ holder.op = "stop" /\ holder.pc = "workflow"
      /\ holder' = [holder EXCEPT !.pc = "scan", !.view = view, !.scan = scan]
      /\ workflow' \in {workflow, NoWorkflow}
      /\ UNCHANGED <<runVars, runs, prun, steps, stepJobs, rollouts, starter>>
  BY <1>1, <1>2 DEF StopWorkflow, Doing, runVars
<1>4. /\ TypeOK /\ holder \in HolderType /\ \A j \in StepIds : steps[j].state \in StepStates
  BY HolderFacts
<1>5. view \in [StepIds -> StepStates] /\ \A j \in StepIds : view[j] = steps[j].state
  BY <1>2, <1>4, StatesFields
<1>6. scan \in SUBSET StepIds
  BY <1>1, InSteps
<1>7. /\ holder' \in HolderType /\ holder'.op = "stop" /\ holder'.pc = "scan"
      /\ holder'.scan = scan /\ holder'.view = view
  BY <1>3, <1>4, <1>5, <1>6 DEF HolderType
<1>8. HolderShape' /\ DecidedInv'
  BY <1>7 DEF HolderShape, DecidedInv, ActPCs, LaunchPCs
<1>9. ScanInv'
  <2>1. In("running")' = In("running") /\ In("pending")' = In("pending")
    BY <1>3 DEF In
  <2>2. QED  BY <1>1, <1>3, <1>5, <1>6, <1>7, <2>1 DEF ScanInv
<1>10. RunTypeOK' /\ OwnersKept /\ DOMAIN runs' = DOMAIN runs
  BY <1>3, RunRowsType, RunRowsStand
<1>11. NoWorkflow \in WorkflowType
  BY DEF NoWorkflow, WorkflowType
<1>12. ClusterOK'
  BY <1>3, <1>4, <1>11 DEF ClusterOK, TypeOK
<1>13. \A j \in StepIds : SameWork(j)
  BY <1>3, <1>10, WorkStands
<1>14. 1 \in StepIds
  BY PipelineAssumption DEF StepIds
<1>15. holder.op # "none"
  BY <1>3
<1>16. QED
  BY <1>3, <1>7, <1>8, <1>9, <1>10, <1>12, <1>13, <1>14, <1>15, NoRowGoes

\* The reconciliation only ends rows that run.
LEMMA ReconcileGoes ==
    ASSUME PipeInv, holder.op = "reconcile", UNCHANGED prun,
           NEW k \in StepIds, NEW e, Moves(k, e),
           holder'.op = "reconcile", holder'.pc \in {"scan", "orphan"},
           \/ holder'.scan = holder.scan \ {k}
           \/ holder'.scan = holder.scan /\ UNCHANGED steps,
           holder'.pc = "orphan" =>
               holder'.scan = holder.scan /\ holder.scan # {} /\ Kind[Scanning] = "app"
    PROVE  HolderShape' /\ ScanInv' /\ DecidedInv'
<1>1. /\ TypeOK /\ ScanInv /\ HolderShape /\ holder.scan \in SUBSET StepIds
  BY HolderFacts
<1>2. \A j \in StepIds : j # k => steps'[j] = steps[j]
  BY <1>1, MoveKeeps
<1>3. (Native' <=> Native) /\ Native
  BY <1>1, EngineStays DEF HolderShape
<1>4. HolderShape'
  <2>1. holder'.scan = holder.scan => Scanning' = Scanning
    BY DEF Scanning
  <2>2. QED  BY <1>3, <2>1 DEF HolderShape, ActPCs, LaunchPCs
<1>5. holder'.scan \subseteq In("running")'
  BY <1>1, <1>2 DEF ScanInv, In
<1>6. ScanInv' /\ DecidedInv'
  BY <1>5 DEF ScanInv, DecidedInv, ActPCs
<1>7. QED  BY <1>4, <1>6

LEMMA ReconcileKeeps ==
    ASSUME PipeInv, ReconcileApp \/ ReconcileFails \/ ReconcileImage \/ ReconcileAction
    PROVE  PipeInv'
<1>1. PICK k : k = Scanning
  OBVIOUS
<1>2. PICK scan : scan = holder.scan \ {k}
  OBVIOUS
<1>3. /\ holder.op = "reconcile" /\ holder.scan # {}
      /\ holder' = [holder EXCEPT !.pc = "scan", !.scan = scan]
      /\ UNCHANGED <<runVars, prun, cluster, starter>>
      /\ UNCHANGED steps \/ FinishStep(k, "done") \/ FinishStep(k, "failed")
  BY <1>1, <1>2, HolderFacts
  DEF ReconcileApp, ReconcileFails, ReconcileImage, ReconcileAction, Reconciles, Reconciled,
      Doing, HolderShape
<1>4. /\ k \in holder.scan /\ k \in StepIds /\ TypeOK /\ ScanInv /\ holder \in HolderType
      /\ scan \in SUBSET StepIds
  BY <1>1, <1>2, <1>3, ScanningFacts, HolderFacts
<1>5. steps[k].state = "running"
  BY <1>3, <1>4 DEF ScanInv, In
<1>6. PICK e : /\ Moves(k, e) /\ e.run = steps[k].run /\ e.attempt = steps[k].attempt
               /\ e.state \in {steps[k].state} \cup StepEnds
  <2>1. CASE UNCHANGED steps
    <3>1. Moves(k, steps[k])
      BY <1>4, <2>1, Stays
    <3>2. QED  BY <3>1
  <2>2. ASSUME NEW s \in StepEnds, FinishStep(k, s)
        PROVE  \E e : /\ Moves(k, e) /\ e.run = steps[k].run /\ e.attempt = steps[k].attempt
                      /\ e.state \in {steps[k].state} \cup StepEnds
    BY <1>4, <1>5, <2>2, Finished
  <2>3. "done" \in StepEnds /\ "failed" \in StepEnds
    BY DEF StepEnds
  <2>4. QED  BY <1>3, <2>1, <2>2, <2>3
<1>7. /\ holder' \in HolderType /\ holder'.op = "reconcile" /\ holder'.pc = "scan"
      /\ holder'.scan = scan
  BY <1>3, <1>4 DEF HolderType
<1>8. HolderShape' /\ ScanInv' /\ DecidedInv'
  BY <1>2, <1>3, <1>4, <1>6, <1>7, ReconcileGoes
<1>9. holder.op # "none"
  BY <1>3
<1>10. QED  BY <1>3, <1>4, <1>5, <1>6, <1>7, <1>8, <1>9, OnlyTheRowGoes

LEMMA ReconcileOrphanKeeps == ASSUME PipeInv, ReconcileOrphan  PROVE PipeInv'
<1>1. PICK k : k = Scanning
  OBVIOUS
<1>2. /\ holder.op = "reconcile" /\ holder.pc = "scan" /\ holder.scan # {} /\ Kind[k] = "app"
      /\ FinishJobRun(steps[k].run, "failed") /\ OnlyRunRows
      /\ holder' = [holder EXCEPT !.pc = "orphan"]
      /\ UNCHANGED <<prun, steps, cluster, starter>>
  BY <1>1 DEF ReconcileOrphan, Reconciles, Doing
<1>3. /\ k \in holder.scan /\ k \in StepIds /\ TypeOK /\ RunTypeOK /\ Native
      /\ steps[k].run \in DOMAIN runs \cup {0}
  BY <1>1, <1>2, ScanningFacts, HolderFacts DEF HolderShape
<1>4. steps[k].state = "running"
  BY <1>2, <1>3, HolderFacts DEF ScanInv, In
<1>5. PICK r \in DOMAIN runs : r = steps[k].run
  BY <1>2, <1>3, <1>4, HolderFacts DEF RowsInv
<1>6. /\ runs' \in Seq(RowType) /\ Len(runs') = Len(runs) /\ DOMAIN runs' = DOMAIN runs
      /\ runs'[r].owner = runs[r].owner
      /\ \A n \in DOMAIN runs : n # r => runs'[n] = runs[n]
  BY <1>2, <1>3, <1>5, FinishRow DEF Ended
<1>7. RunTypeOK'
  BY <1>2, <1>3, <1>6 DEF RunTypeOK, OnlyRunRows
<1>8. OwnersKept
  BY <1>6 DEF OwnersKept
<1>9. ClusterOK' /\ UNCHANGED <<stepJobs, rollouts>>
  BY <1>2, ClusterStands
<1>10. \A j \in StepIds : SameWork(j)
  BY <1>8, <1>9, WorkStands
<1>11. "orphan" \in PCs
  BY DEF PCs
<1>12. /\ holder' \in HolderType /\ holder'.op = holder.op /\ holder'.pc = "orphan"
       /\ holder'.scan = holder.scan
  BY <1>2, <1>11, PcFields
<1>13. Moves(k, steps[k])
  BY <1>2, <1>3, Stays
<1>14. HolderShape' /\ ScanInv' /\ DecidedInv'
  BY <1>1, <1>2, <1>3, <1>12, <1>13, ReconcileGoes
<1>15. holder.op # "none"
  BY <1>2
<1>16. QED
  BY <1>2, <1>3, <1>6, <1>7, <1>9, <1>10, <1>12, <1>14, <1>15, NoRowGoes

--------------------------------
\* The invariant.

LEMMA PipeInit == Init => PipeInv
<1> SUFFICES ASSUME Init  PROVE PipeInv
  OBVIOUS
<1>1. RunTypeOK /\ runs = <<>>
  BY RunInitType DEF Init, RunInit
<1>2. /\ prun = [status |-> "none", engine |-> "native"]
      /\ steps = [k \in StepIds |-> NewStep]
      /\ stepJobs = [k \in StepIds |-> "none"] /\ rollouts = [k \in StepIds |-> "none"]
      /\ workflow = NoWorkflow /\ starter = NoStarter /\ holder = Free
  BY DEF Init
<1>3. NewStep \in StepRow /\ NewStep.state = "pending" /\ NewStep.run = 0
      /\ NewStep.attempt = 0
  BY DEF NewStep, StepRow, StepStates
<1>4. prun \in RunRow /\ prun.status = "none" /\ Native
  BY <1>2 DEF RunRow, Native
<1>5. workflow \in WorkflowType /\ starter \in StarterType
  BY <1>2 DEF NoWorkflow, WorkflowType, NoStarter, StarterType
<1>6. TypeOK
  BY <1>1, <1>2, <1>3, <1>4, <1>5, FreeFields DEF TypeOK
<1>7. NeedsBeforeWork
  <2>1. \A k \in StepIds : RunsOf(k) = {}
    BY <1>1 DEF RunsOf
  <2>2. \A k \in StepIds : ~ Touched(k)
    BY <1>2, <1>3, <2>1 DEF Touched
  <2>3. QED  BY <2>2 DEF NeedsBeforeWork
<1>8. RowsInv
  BY <1>2, <1>3, <1>4 DEF RowsInv, RunEnds
<1>9. StarterInv
  BY <1>2 DEF StarterInv, NoStarter
<1>10. HolderInv
  <2>1. holder.op = "none" /\ holder.pc = "idle"
    BY <1>2, FreeFields
  <2>2. HolderShape
    BY <1>2, <2>1 DEF HolderShape, ActPCs, LaunchPCs
  <2>3. ScanInv /\ DecidedInv
    BY <2>1 DEF ScanInv, DecidedInv, ActPCs
  <2>4. QED  BY <2>2, <2>3 DEF HolderInv
<1>11. QED  BY <1>6, <1>7, <1>8, <1>9, <1>10 DEF PipeInv

LEMMA HolderStepKeeps == ASSUME PipeInv, HolderStep  PROVE PipeInv'
<1>1. CASE HarvestApp \/ HarvestImage \/ RetryImage \/ HarvestAction \/ ReadWorkflow
           \/ HarvestNode \/ Decide \/ SkipStep
  BY <1>1, HarvestKeeps, RetryImageKeeps, ReadWorkflowKeeps, HarvestNodeKeeps, DecideKeeps,
     SkipStepKeeps
<1>2. CASE LaunchRefused \/ MarkAppFailed \/ ActionFails \/ ActionDone \/ DeployApplied
  BY <1>2, LaunchFailsKeep
<1>3. CASE LaunchApp \/ ApplyApp \/ MarkApp \/ ApplyAppFails \/ LaunchImage \/ ApplyImage
           \/ ApplyImageFails \/ LaunchAction \/ DeployCreated
  BY <1>3, LaunchAppKeeps, ApplyAppKeeps, MarkAppKeeps, MarkFirstKeeps, ApplyImageKeeps,
     DeployCreatedKeeps
<1>4. CASE StopWorkflow \/ StopRunJob \/ StopRun \/ StopStepJob \/ StopStep
  BY <1>4, StopWorkflowKeeps, StopRunsKeep, StopStepKeeps
<1>5. CASE ReconcileApp \/ ReconcileOrphan \/ ReconcileFails \/ ReconcileImage
           \/ ReconcileAction
  BY <1>5, ReconcileKeeps, ReconcileOrphanKeeps
<1>6. CASE TickEnds \/ StopEnds \/ ReconcileEnds
  BY <1>6, EndsKeep
<1>7. QED  BY <1>1, <1>2, <1>3, <1>4, <1>5, <1>6 DEF HolderStep

LEMMA PipeStep == PipeInv /\ [Next]_vars => PipeInv'
<1> SUFFICES ASSUME PipeInv, [Next]_vars  PROVE PipeInv'
  OBVIOUS
<1>1. CASE UNCHANGED vars
  <2>1. UNCHANGED <<runVars, prun, steps, starter, holder, cluster>>
    BY <1>1 DEF vars, pipeVars
  <2>2. ClusterOK' /\ UNCHANGED <<stepJobs, rollouts>>
    BY <2>1, ClusterStands
  <2>3. QED  BY <2>1, <2>2, ClusterKeeps
<1>2. CASE RunNext /\ UNCHANGED pipeVars
  BY <1>2, RunsKeep
<1>3. CASE PipelineCrash
  BY <1>3, PipelineCrashKeeps
<1>4. CASE Starting
  BY <1>4, StartingKeeps
<1>5. CASE StopBegins \/ Loop
  BY <1>5, BeginsKeep, NothingToReconcileKeeps DEF Loop
<1>6. CASE HolderStep
  BY <1>6, HolderStepKeeps
<1>7. CASE \E engine \in Engines : CreatePipelineRun(engine)
  BY <1>7, CreatePipelineRunKeeps
<1>8. CASE ClusterEnds \/ WorkflowEnds \/ WorkflowLost \/ \E k \in StepIds : StepJobDeleted(k)
  BY <1>8, ClusterStepKeeps
<1>9. CASE \E r \in DOMAIN jobs : RunJobDeleted(r)
  BY <1>9, RunJobDeletedKeeps
<1>10. QED
  BY <1>1, <1>2, <1>3, <1>4, <1>5, <1>6, <1>7, <1>8, <1>9 DEF Next

LEMMA PipeInvAlways == Spec => []PipeInv
  BY PipeInit, PipeStep, PTL DEF Spec

\* Every variable has its shape and the run of a step is a row, for every
\* pipeline: no goroutine looks up a run that is not there (pipelines.go).
THEOREM PipelineTyped == Spec => []TypeOK
<1>1. PipeInv => TypeOK
  BY DEF PipeInv
<1>2. QED  BY <1>1, PipeInvAlways, PTL

\* Nothing is done for a step before the steps it needs are done, for every
\* DAG, over crashes and whatever fails (decidePipelineRun, MarkStepRunning).
THEOREM NeedsBeforeWorkAlways == Spec => []NeedsBeforeWork
<1>1. PipeInv => NeedsBeforeWork
  BY DEF PipeInv
<1>2. QED  BY <1>1, PipeInvAlways, PTL

--------------------------------
\* The rows keep the promise of PipelinePromise.

\* Whether the run is being stopped, and what else the promise sees of it.
SameRun == UNCHANGED prun /\ (holder'.op = "stop" <=> holder.op = "stop")

LEMMA NothingSeen ==
    ASSUME SameRun, UNCHANGED States
    PROVE  [Promise!Next]_(Promise!vars)
<1>1. (holder'.op = "stop") = (holder.op = "stop") /\ (~ Native)' = ~ Native
  BY DEF SameRun, Native
<1>2. QED  BY <1>1 DEF SameRun, Promise!vars

LEMMA StatesMove ==
    ASSUME PipeInv, NEW k \in StepIds, NEW e, Moves(k, e)
    PROVE  States' = [States EXCEPT ![k] = e.state]
<1>1. /\ steps'[k] = e /\ \A j \in StepIds : j # k => steps'[j] = steps[j]
  BY MoveKeeps DEF PipeInv
<1>2. QED  BY <1>1 DEF States

\* A run with a step that is not at its end goes on, or its Workflow failed.
LEMMA RunGoes ==
    ASSUME PipeInv, holder.op # "none", NEW k \in StepIds, steps[k].state \in Open
    PROVE  /\ prun.status = "running" \/ (~ Native /\ prun.status = "failed")
           /\ Native => prun.status = "running"
<1>1. prun.status # "none" /\ RowsInv /\ prun \in RunRow
  BY RunIsCreated, HolderFacts
<1>2. steps[k].state \notin StepEnds
  BY StatesSplit
<1>3. ~ Settled
  BY <1>2 DEF Settled
<1>4. prun.status \in RunEnds \cup {"none", "running"}
  BY <1>1 DEF RunRow
<1>5. QED  BY <1>1, <1>3, <1>4 DEF RowsInv

LEMMA MetNeedsSeen ==
    ASSUME NEW k \in StepIds, NeedsMet(k) \/ ~ Ours(k)
    PROVE  Promise!NeedsDone(k) \/ (~ Native /\ k \in Compute)
<1>1. CASE ~ Ours(k)
  BY <1>1 DEF Ours
<1>2. CASE NeedsMet(k)
  <2>1. \A n \in Needs[k] : n \in StepIds /\ steps[n].state = "done"
    BY <1>2, Steps DEF NeedsMet
  <2>2. QED  BY <2>1 DEF Promise!NeedsDone, States
<1>3. QED  BY <1>1, <1>2

LEMMA StartSeen ==
    ASSUME PipeInv, SameRun, NEW k \in StepIds, NEW r \in Nat, NEW a \in Nat,
           MarkStepRunning(k, r, a), NeedsMet(k) \/ ~ Ours(k)
    PROVE  [Promise!Next]_(Promise!vars)
<1>1. TypeOK
  BY DEF PipeInv
<1>2. PICK e : /\ Moves(k, e)
               /\ IF steps[k].state \in Open
                  THEN e.state = "running" /\ e.run = r /\ e.attempt = a
                  ELSE e = steps[k]
  BY <1>1, Marked
<1>3. /\ States' = [States EXCEPT ![k] = e.state] /\ States[k] = steps[k].state
      /\ States = [States EXCEPT ![k] = States[k]]
  BY <1>2, StatesMove DEF States
<1>4. CASE e.state = steps[k].state
  BY <1>3, <1>4, NothingSeen
<1>5. CASE e.state = "running" /\ steps[k].state = "pending"
  <2>1. Promise!NeedsDone(k) \/ (~ Native /\ k \in Compute)
    BY MetNeedsSeen
  <2>2. /\ (holder'.op = "stop") = (holder.op = "stop") /\ (~ Native)' = ~ Native
        /\ UNCHANGED prun
    BY DEF SameRun, Native
  <2>3. Promise!Start(k)
    BY <1>3, <1>5, <2>1, <2>2 DEF Promise!Start
  <2>4. QED  BY <2>3 DEF Promise!Next
<1>6. QED  BY <1>2, <1>4, <1>5 DEF Open

\* Why the holder may end a step.
MayEnd(k, s) ==
    \/ steps[k].state = "running" /\ s \in {"done", "failed"}
    \/ steps[k].state = "pending" /\ s = "failed" /\ NeedsMet(k)
    \/ steps[k].state = "pending" /\ s = "done"
    \/ s = "skipped" /\ \/ holder.op = "stop"
                        \/ steps[k].state = "running" /\ ~ Native
                        \/ /\ steps[k].state = "pending" /\ Native
                           /\ \E n \in Upstream[k] : n \in StepIds /\ steps[n].state = "failed"
    \/ steps[k].state \in StepEnds

LEMMA EndSeen ==
    ASSUME PipeInv, SameRun, holder.op # "none", NEW k \in StepIds, NEW s \in StepEnds,
           FinishStep(k, s), MayEnd(k, s)
    PROVE  [Promise!Next]_(Promise!vars)
<1>1. TypeOK /\ RowsInv /\ steps[k].state \in StepStates
  BY HolderFacts
<1>2. PICK e : /\ Moves(k, e) /\ e.run = steps[k].run /\ e.attempt = steps[k].attempt
               /\ IF \/ steps[k].state = "running"
                     \/ steps[k].state = "pending" /\ s # "done"
                  THEN e.state = s ELSE e = steps[k]
  BY <1>1, Finished
<1>3. /\ States' = [States EXCEPT ![k] = e.state] /\ States[k] = steps[k].state
      /\ States = [States EXCEPT ![k] = States[k]]
  BY <1>2, StatesMove DEF States
<1>4. CASE e.state = steps[k].state
  BY <1>3, <1>4, NothingSeen
<1>5. CASE e.state # steps[k].state
  <2>1. /\ e.state = s /\ steps[k].state \in Open
        /\ steps[k].state = "running" \/ s # "done"
    BY <1>2, <1>5 DEF Open
  <2>2. /\ (holder'.op = "stop") = (holder.op = "stop") /\ (~ Native)' = ~ Native
        /\ UNCHANGED prun
    BY DEF SameRun, Native
  <2>3. Promise!Going /\ (Native => prun.status = "running")
    BY <2>1, RunGoes DEF Promise!Going
  <2>4. steps[k].state \notin StepEnds
    BY <2>1, StatesSplit
  <2>5. CASE s = "done"
    <3>1. steps[k].state = "running"
      BY <2>1, <2>5
    <3>2. NeedsMet(k) \/ ~ Ours(k)
      BY <1>1, <3>1 DEF RowsInv
    <3>3. Promise!NeedsDone(k) \/ (~ Native /\ k \in Compute)
      BY <3>2, MetNeedsSeen
    <3>4. Promise!Succeed(k)
      BY <1>3, <2>1, <2>2, <2>3, <2>5, <3>1, <3>3 DEF Promise!Succeed
    <3>5. QED  BY <3>4 DEF Promise!Next
  <2>6. CASE s = "failed"
    <3>1. steps[k].state = "running" \/ (steps[k].state = "pending" /\ NeedsMet(k))
      BY <2>4, <2>6 DEF MayEnd
    <3>2. NeedsMet(k) => Promise!NeedsDone(k)
      <4>1. ASSUME NeedsMet(k)  PROVE Promise!NeedsDone(k)
        <5>1. \A n \in Needs[k] : n \in StepIds /\ steps[n].state = "done"
          BY <4>1, Steps DEF NeedsMet
        <5>2. QED  BY <5>1 DEF Promise!NeedsDone, States
      <4>2. QED  BY <4>1
    <3>3. Promise!Fail(k)
      BY <1>3, <2>1, <2>2, <2>3, <2>6, <3>1, <3>2 DEF Promise!Fail
    <3>4. QED  BY <3>3 DEF Promise!Next
  <2>7. CASE s = "skipped"
    <3>1. CASE holder.op = "stop"
      <4>1. Promise!Skip(k)
        BY <1>3, <2>1, <2>2, <2>7, <3>1 DEF Promise!Skip, Open
      <4>2. QED  BY <4>1 DEF Promise!Next
    <3>2. CASE steps[k].state = "running" /\ ~ Native
      <4>1. Promise!Skip(k)
        BY <1>3, <2>1, <2>2, <2>3, <2>7, <3>2 DEF Promise!Skip
      <4>2. QED  BY <4>1 DEF Promise!Next
    <3>3. CASE /\ steps[k].state = "pending" /\ Native
               /\ \E n \in Upstream[k] : n \in StepIds /\ steps[n].state = "failed"
      <4>1. \E n \in Upstream[k] : States[n] = "failed"
        BY <3>3 DEF States
      <4>2. Promise!Skip(k)
        BY <1>3, <2>1, <2>2, <2>3, <2>7, <3>3, <4>1 DEF Promise!Skip
      <4>3. QED  BY <4>2 DEF Promise!Next
    <3>4. QED  BY <2>4, <2>7, <3>1, <3>2, <3>3 DEF MayEnd
  <2>8. QED  BY <2>5, <2>6, <2>7 DEF StepEnds
<1>6. QED  BY <1>4, <1>5

\* Who holds the mutex goes on with what it took it for.
LEMMA OpStays ==
    ASSUME PipeInv, HolderStep, ~ (TickEnds \/ StopEnds \/ ReconcileEnds),
           ~ (ReadWorkflow /\ EndTurn)
    PROVE  holder'.op = holder.op /\ UNCHANGED prun
<1>1. holder \in HolderType
  BY HolderFacts
<1>2. CASE HarvestApp \/ HarvestImage \/ RetryImage \/ HarvestAction \/ ReadWorkflow
           \/ HarvestNode \/ Decide \/ SkipStep
  BY <1>1, <1>2
  DEF HolderType, HarvestApp, HarvestImage, RetryImage, HarvestAction, ReadWorkflow,
      HarvestNode, Decide, SkipStep, Seen, Leave, Settle
<1>3. CASE LaunchRefused \/ LaunchApp \/ ApplyApp \/ MarkApp \/ ApplyAppFails
           \/ MarkAppFailed \/ LaunchImage \/ ApplyImage \/ ApplyImageFails
  BY <1>1, <1>3
  DEF HolderType, LaunchRefused, LaunchApp, ApplyApp, MarkApp, ApplyAppFails,
      MarkAppFailed, LaunchImage, ApplyImage, ApplyImageFails, NextLaunch, Applied
<1>4. CASE LaunchAction \/ ActionFails \/ ActionDone \/ DeployCreated \/ DeployApplied
  BY <1>1, <1>4
  DEF HolderType, LaunchAction, ActionFails, ActionDone, DeployCreated, DeployApplied,
      NextLaunch
<1>5. CASE StopWorkflow \/ StopRunJob \/ StopRun \/ StopStepJob \/ StopStep
  BY <1>1, <1>5
  DEF HolderType, StopWorkflow, StopRunJob, StopRun, StopStepJob, StopStep
<1>6. CASE ReconcileApp \/ ReconcileOrphan \/ ReconcileFails \/ ReconcileImage
           \/ ReconcileAction
  BY <1>1, <1>6
  DEF HolderType, ReconcileApp, ReconcileOrphan, ReconcileFails, ReconcileImage,
      ReconcileAction, Reconciled
<1>7. QED  BY <1>2, <1>3, <1>4, <1>5, <1>6 DEF HolderStep

LEMMA ScanSeen ==
    ASSUME PipeInv, SameRun,
           HarvestApp \/ HarvestImage \/ RetryImage \/ HarvestAction
    PROVE  [Promise!Next]_(Promise!vars)
<1>1. PICK k : k = Scanning
  OBVIOUS
<1>2. PICK kinds : ScanStep(kinds)
  BY DEF HarvestApp, HarvestImage, RetryImage, HarvestAction
<1>3. /\ k \in StepIds /\ steps[k].state = "running" /\ NeedsMet(k) /\ holder.op # "none"
      /\ steps[k] \in StepRow
  BY <1>1, <1>2, ScannedFacts, HolderFacts
<1>4. /\ \A s \in {"done", "failed"} : MayEnd(k, s) /\ s \in StepEnds
      /\ steps[k].attempt + 1 \in Nat
  BY <1>3 DEF MayEnd, StepEnds, StepRow
<1>5. CASE UNCHANGED steps
  BY <1>5, NothingSeen DEF States
<1>6. CASE FinishStep(k, "done") \/ FinishStep(k, "failed")
  BY <1>3, <1>4, <1>6, EndSeen
<1>7. CASE MarkStepRunning(k, 0, steps[k].attempt + 1)
  BY <1>3, <1>4, <1>7, StartSeen
<1>8. QED
  BY <1>1, <1>5, <1>6, <1>7
  DEF HarvestApp, HarvestImage, RetryImage, HarvestAction, Leave, Settle, OverBudget

LEMMA NodeSeen == ASSUME PipeInv, SameRun, HarvestNode  PROVE [Promise!Next]_(Promise!vars)
<1>1. PICK k : k = Scanning
  OBVIOUS
<1>2. PICK v : v = holder.view[k]
  OBVIOUS
<1>3. /\ ~ Native /\ holder.op = "tick" /\ holder.pc = "scan" /\ holder.scan # {}
      /\ IF v = "running" THEN UNCHANGED steps ELSE FinishStep(k, v)
  BY <1>1, <1>2 DEF HarvestNode, Doing
<1>4. /\ k \in holder.scan /\ k \in StepIds /\ ScanInv /\ v \in StepStates
  BY <1>1, <1>2, <1>3, ScanningFacts, HolderFacts
<1>5. steps[k].state = "running" /\ v # "pending"
  BY <1>2, <1>3, <1>4 DEF ScanInv, In, ActPCs
<1>6. CASE v = "running"
  BY <1>3, <1>6, NothingSeen DEF States
<1>7. CASE v # "running"
  <2>1. v \in StepEnds /\ holder.op # "none"
    BY <1>3, <1>4, <1>5, <1>7 DEF StepStates, StepEnds
  <2>2. MayEnd(k, v)
    BY <1>3, <1>5, <2>1 DEF MayEnd, StepEnds
  <2>3. QED  BY <1>3, <1>4, <1>7, <2>1, <2>2, EndSeen
<1>8. QED  BY <1>6, <1>7

LEMMA SkipSeen == ASSUME PipeInv, SameRun, SkipStep  PROVE [Promise!Next]_(Promise!vars)
<1>1. PICK k : k = Oldest(holder.skip)
  OBVIOUS
<1>2. /\ holder.op = "tick" /\ holder.pc = "act" /\ holder.skip # {}
      /\ FinishStep(k, "skipped")
  BY <1>1 DEF SkipStep, Doing
<1>3. /\ holder.skip \in SUBSET StepIds /\ DecidedInv
      /\ \A j \in StepIds : steps[j].state \in StepStates
  BY HolderFacts
<1>4. k \in holder.skip /\ k \in StepIds
  BY <1>1, <1>2, <1>3, OldestStep
<1>5. /\ Native /\ steps[k].state # "running"
      /\ \E n \in Upstream[k] : n \in StepIds /\ steps[n].state = "failed"
  BY <1>2, <1>3, <1>4 DEF DecidedInv, ActPCs
<1>6. steps[k].state \in StepEnds \cup {"pending"}
  BY <1>3, <1>4, <1>5 DEF StepStates
<1>7. MayEnd(k, "skipped")
  BY <1>5, <1>6 DEF MayEnd
<1>8. "skipped" \in StepEnds /\ holder.op # "none"
  BY <1>2 DEF StepEnds
<1>9. QED  BY <1>2, <1>4, <1>7, <1>8, EndSeen

LEMMA LaunchSeen ==
    ASSUME PipeInv, SameRun,
           \/ LaunchRefused \/ LaunchApp \/ ApplyApp \/ MarkApp \/ ApplyAppFails
           \/ MarkAppFailed \/ LaunchImage
           \/ LaunchAction \/ ActionFails \/ ActionDone \/ DeployCreated \/ DeployApplied
    PROVE  [Promise!Next]_(Promise!vars)
<1>1. PICK k : k = Launching
  OBVIOUS
<1>2. holder.pc \in ActPCs /\ holder.launch # {}
  BY HolderFacts
  DEF LaunchRefused, LaunchApp, ApplyApp, MarkApp, ApplyAppFails, MarkAppFailed, LaunchImage,
      LaunchAction, ActionFails, ActionDone, DeployCreated, DeployApplied, Launch, Doing,
      HolderShape, ActPCs, LaunchPCs
<1>3. /\ k \in StepIds /\ NeedsMet(k) /\ holder.op # "none" /\ TypeOK
      /\ steps[k].attempt + 1 \in Nat /\ steps[k].state \in StepStates /\ holder.run \in Nat
  BY <1>1, <1>2, LaunchFacts, HolderFacts DEF HolderType
<1>4. \A s \in {"done", "failed"} : MayEnd(k, s) /\ s \in StepEnds
  BY <1>3 DEF MayEnd, StepStates, StepEnds
<1>5. CASE UNCHANGED steps
  BY <1>5, NothingSeen DEF States
<1>6. CASE FinishStep(k, "done") \/ FinishStep(k, "failed")
  BY <1>3, <1>4, <1>6, EndSeen
<1>7. ASSUME NEW r \in Nat, MarkStepRunning(k, r, steps[k].attempt + 1)
      PROVE  [Promise!Next]_(Promise!vars)
  BY <1>3, <1>7, StartSeen
<1>8. CASE SetStepDetail(k)
  <2>1. PICK e : Moves(k, e) /\ e.state = steps[k].state
    BY <1>3, <1>8, Detailed
  <2>2. States' = [States EXCEPT ![k] = e.state] /\ States[k] = steps[k].state
        /\ States = [States EXCEPT ![k] = States[k]]
    BY <1>3, <2>1, StatesMove DEF States
  <2>3. QED  BY <2>1, <2>2, NothingSeen
<1>9. \/ UNCHANGED steps \/ FinishStep(k, "done") \/ FinishStep(k, "failed")
      \/ SetStepDetail(k)
      \/ \E r \in {0, holder.run} : MarkStepRunning(k, r, steps[k].attempt + 1)
  BY <1>1
  DEF LaunchRefused, LaunchApp, ApplyApp, MarkApp, ApplyAppFails, MarkAppFailed, LaunchImage,
      LaunchAction, ActionFails, ActionDone, DeployCreated, DeployApplied, OverBudget
<1>10. QED  BY <1>3, <1>5, <1>6, <1>7, <1>8, <1>9

LEMMA ApplySeen ==
    ASSUME PipeInv, SameRun, ApplyImage \/ ApplyImageFails
    PROVE  [Promise!Next]_(Promise!vars)
<1>1. CASE ApplyImage
  BY <1>1, NothingSeen DEF ApplyImage, States
<1>2. CASE ApplyImageFails
  <2>1. PICK k : k = Applying
    OBVIOUS
  <2>2. FinishStep(k, "failed") /\ holder.pc \in {"scanApply", "actApply"}
    BY <1>2, <2>1 DEF ApplyImageFails
  <2>3. /\ k \in StepIds /\ NeedsMet(k) /\ holder.op # "none"
        /\ steps[k].state \in StepStates
    BY <2>1, <2>2, ApplyingFacts, HolderFacts
  <2>4. MayEnd(k, "failed") /\ "failed" \in StepEnds
    BY <2>3 DEF MayEnd, StepStates, StepEnds
  <2>5. QED  BY <2>2, <2>3, <2>4, EndSeen
<1>3. QED  BY <1>1, <1>2

LEMMA StopStepSeen == ASSUME PipeInv, SameRun, StopStep  PROVE [Promise!Next]_(Promise!vars)
<1>1. PICK k : k = Scanning
  OBVIOUS
<1>2. PICK s : s = IF holder.view[k] = "running" THEN "failed" ELSE "skipped"
  OBVIOUS
<1>3. holder.op = "stop" /\ holder.scan # {} /\ FinishStep(k, s)
  BY <1>1, <1>2, HolderFacts DEF StopStep, Doing, HolderShape
<1>4. k \in holder.scan /\ k \in StepIds /\ ScanInv /\ steps[k].state \in StepStates
  BY <1>1, <1>3, ScanningFacts, HolderFacts
<1>5. s = "failed" => steps[k].state # "pending"
  BY <1>2, <1>3, <1>4 DEF ScanInv
<1>6. s \in StepEnds /\ holder.op # "none"
  BY <1>2, <1>3 DEF StepEnds
<1>7. MayEnd(k, s)
  BY <1>2, <1>3, <1>4, <1>5 DEF MayEnd, StepStates
<1>8. QED  BY <1>3, <1>4, <1>6, <1>7, EndSeen

LEMMA ReconcileSeen ==
    ASSUME PipeInv, SameRun,
           ReconcileApp \/ ReconcileFails \/ ReconcileImage \/ ReconcileAction
    PROVE  [Promise!Next]_(Promise!vars)
<1>1. PICK k : k = Scanning
  OBVIOUS
<1>2. /\ holder.op = "reconcile" /\ holder.scan # {}
      /\ UNCHANGED steps \/ FinishStep(k, "done") \/ FinishStep(k, "failed")
  BY <1>1, HolderFacts
  DEF ReconcileApp, ReconcileFails, ReconcileImage, ReconcileAction, Reconciles,
      Doing, HolderShape
<1>3. k \in holder.scan /\ k \in StepIds /\ ScanInv
  BY <1>1, <1>2, ScanningFacts, HolderFacts
<1>4. steps[k].state = "running" /\ holder.op # "none"
  BY <1>2, <1>3 DEF ScanInv, In
<1>5. \A s \in {"done", "failed"} : MayEnd(k, s) /\ s \in StepEnds
  BY <1>4 DEF MayEnd, StepEnds
<1>6. CASE UNCHANGED steps
  BY <1>6, NothingSeen DEF States
<1>7. CASE FinishStep(k, "done") \/ FinishStep(k, "failed")
  BY <1>3, <1>4, <1>5, <1>7, EndSeen
<1>8. QED  BY <1>2, <1>6, <1>7

\* The mutex changes hands: only a stop is seen of it.
LEMMA HandsSeen ==
    ASSUME UNCHANGED <<prun, States>>
    PROVE  [Promise!Next]_(Promise!vars)
<1>1. (~ Native)' = ~ Native
  BY DEF Native
<1>2. CASE (holder'.op = "stop") = (holder.op = "stop")
  BY <1>1, <1>2 DEF Promise!vars
<1>3. CASE (holder'.op = "stop") # (holder.op = "stop")
  <2>1. (holder'.op = "stop") = ~ (holder.op = "stop")
    BY <1>3
  <2>2. Promise!Stopping
    BY <1>1, <2>1 DEF Promise!Stopping
  <2>3. QED  BY <2>2 DEF Promise!Next
<1>4. QED  BY <1>2, <1>3

LEMMA EndsSeen ==
    ASSUME PipeInv, TickEnds \/ StopEnds \/ ReconcileEnds
    PROVE  [Promise!Next]_(Promise!vars)
<1>1. /\ ScanInv /\ DecidedInv /\ holder \in HolderType /\ prun \in RunRow
      /\ \A k \in StepIds : steps[k].state \in StepStates
  BY HolderFacts
<1>2. holder' = Free /\ UNCHANGED <<steps, States>> /\ prun.status # "none"
  BY RunIsCreated DEF TickEnds, StopEnds, ReconcileEnds, EndTurn, Doing, States
<1>3. (holder'.op = "stop") = FALSE
  BY <1>2, FreeFields
<1>4. CASE UNCHANGED prun
  BY <1>2, <1>4, HandsSeen
<1>5. ASSUME NEW status \in RunEnds, FinishPipelineRun(status), prun' # prun, Settled,
             status = IF holder.op = "stop" THEN "stopped"
                      ELSE IF \A k \in StepIds : steps[k].state = "done" THEN "done"
                           ELSE "failed"
      PROVE  [Promise!Next]_(Promise!vars)
  <2>1. prun.status = "running" /\ prun'.status = status /\ prun'.engine = prun.engine
    BY <1>1, <1>2, <1>5 DEF FinishPipelineRun, RunRow
  <2>2. (~ Native)' = ~ Native
    BY <2>1 DEF Native
  <2>3. Promise!Settled
    BY <1>5 DEF Promise!Settled, Settled, States, StepEnds
  <2>4. (\A k \in StepIds : steps[k].state = "done") <=> \A k \in StepIds : States[k] = "done"
    BY DEF States
  <2>5. Promise!End
    BY <1>2, <1>3, <1>5, <2>1, <2>2, <2>3, <2>4 DEF Promise!End
  <2>6. QED  BY <2>5 DEF Promise!Next
<1>6. CASE TickEnds /\ prun' # prun
  <2>1. /\ holder.pc = "act" /\ holder.op = "tick" /\ holder.finish # "no"
        /\ FinishPipelineRun(holder.finish)
    BY <1>6 DEF TickEnds, Doing
  <2>2. Settled /\ holder.finish = IF \A k \in StepIds : steps[k].state = "done"
                                   THEN "done" ELSE "failed"
    BY <1>1, <2>1 DEF DecidedInv, ActPCs
  <2>3. holder.finish \in RunEnds
    BY <2>2 DEF RunEnds
  <2>4. QED  BY <1>5, <1>6, <2>1, <2>2, <2>3
<1>7. CASE StopEnds /\ prun' # prun
  <2>1. /\ FinishPipelineRun("stopped") /\ holder.op = "stop" /\ holder.scan = {}
        /\ "stopped" \in RunEnds
    BY <1>7 DEF StopEnds, Doing, RunEnds
  <2>2. Settled
    BY <1>1, <2>1 DEF ScanInv, In, Settled, StepStates
  <2>3. QED  BY <1>5, <1>7, <2>1, <2>2
<1>8. CASE ReconcileEnds
  BY <1>4, <1>8 DEF ReconcileEnds
<1>9. QED  BY <1>4, <1>6, <1>7, <1>8

LEMMA HolderSeen == ASSUME PipeInv, HolderStep  PROVE [Promise!Next]_(Promise!vars)
<1>1. CASE TickEnds \/ StopEnds \/ ReconcileEnds
  BY <1>1, EndsSeen
<1>2. CASE ReadWorkflow \/ Decide \/ StopWorkflow \/ StopRunJob \/ StopRun \/ StopStepJob
           \/ ReconcileOrphan
  <2>1. UNCHANGED <<prun, States>>
    BY <1>2
    DEF ReadWorkflow, Decide, StopWorkflow, StopRunJob, StopRun, StopStepJob,
        ReconcileOrphan, States
  <2>2. QED  BY <2>1, HandsSeen
<1>3. CASE ~ (TickEnds \/ StopEnds \/ ReconcileEnds) /\ ~ ReadWorkflow
  <2>1. holder'.op = holder.op /\ UNCHANGED prun
    BY <1>3, OpStays
  <2>2. SameRun
    BY <2>1 DEF SameRun
  <2>3. CASE HarvestApp \/ HarvestImage \/ RetryImage \/ HarvestAction \/ HarvestNode
             \/ SkipStep
    BY <2>2, <2>3, ScanSeen, NodeSeen, SkipSeen
  <2>4. CASE \/ LaunchRefused \/ LaunchApp \/ ApplyApp \/ MarkApp \/ ApplyAppFails
             \/ MarkAppFailed \/ LaunchImage
             \/ LaunchAction \/ ActionFails \/ ActionDone \/ DeployCreated \/ DeployApplied
    BY <2>2, <2>4, LaunchSeen
  <2>5. CASE ApplyImage \/ ApplyImageFails \/ StopStep
    BY <2>2, <2>5, ApplySeen, StopStepSeen
  <2>6. CASE ReconcileApp \/ ReconcileFails \/ ReconcileImage \/ ReconcileAction
    BY <2>2, <2>6, ReconcileSeen
  <2>7. QED  BY <1>2, <1>3, <2>3, <2>4, <2>5, <2>6 DEF HolderStep
<1>4. QED  BY <1>1, <1>2, <1>3

LEMMA StartingSeen == ASSUME PipeInv, Starting  PROVE [Promise!Next]_(Promise!vars)
<1>1. /\ StarterInv /\ starter \in StarterType /\ prun \in RunRow /\ RowsInv
  BY HolderFacts DEF TypeOK
<1>2. UNCHANGED holder
  BY DEF Starting, ApplyWorkflow, ApplyWorkflowFails, MarkComputeStep, MarkedAll
<1>3. CASE ApplyWorkflow \/ MarkedAll
  <2>1. UNCHANGED <<prun, States>>
    BY <1>3 DEF ApplyWorkflow, MarkedAll, States
  <2>2. QED  BY <2>1, HandsSeen
<1>4. CASE MarkComputeStep
  <2>1. PICK k : k = Oldest(starter.marks)
    OBVIOUS
  <2>2. /\ starter.pc = "mark" /\ starter.marks # {} /\ MarkStepRunning(k, 0, 0)
        /\ UNCHANGED prun
    BY <1>4, <2>1 DEF MarkComputeStep
  <2>3. starter.marks \in SUBSET StepIds /\ starter.marks \subseteq Compute /\ ~ Native
    BY <1>1, <2>2 DEF StarterType, StarterInv
  <2>4. k \in StepIds /\ ~ Ours(k)
    BY <2>1, <2>2, <2>3, OldestStep DEF Ours
  <2>5. SameRun
    BY <1>2, <2>2 DEF SameRun
  <2>6. QED  BY <2>2, <2>4, <2>5, StartSeen
<1>5. CASE ApplyWorkflowFails
  <2>1. FinishPipelineRun("failed") /\ starter.pc = "apply" /\ UNCHANGED <<steps, States>>
    BY <1>5 DEF ApplyWorkflowFails, States
  <2>2. ~ Native /\ prun.status # "none"
    BY <1>1, <2>1 DEF StarterInv, RowsInv, NoStarter
  <2>3. CASE UNCHANGED prun
    BY <2>1, <2>3, HandsSeen
  <2>4. CASE prun' # prun
    <3>1. prun.status = "running" /\ prun'.status = "failed" /\ prun'.engine = prun.engine
      BY <1>1, <2>1, <2>2, <2>4 DEF FinishPipelineRun, RunRow
    <3>2. (~ Native)' = ~ Native
      BY <3>1 DEF Native
    <3>3. (holder'.op = "stop") = (holder.op = "stop")
      BY <1>2
    <3>4. Promise!NotStarted
      BY <2>1, <2>2, <3>1, <3>2, <3>3 DEF Promise!NotStarted
    <3>5. QED  BY <3>4 DEF Promise!Next
  <2>5. QED  BY <2>3, <2>4
<1>6. QED  BY <1>3, <1>4, <1>5 DEF Starting

LEMMA CreateSeen ==
    ASSUME PipeInv, NEW engine \in Engines, CreatePipelineRun(engine)
    PROVE  [Promise!Next]_(Promise!vars)
<1>1. /\ prun.status = "none" /\ prun' = [status |-> "running", engine |-> engine]
      /\ UNCHANGED <<steps, States, holder>>
  BY DEF CreatePipelineRun, States
<1>2. (holder'.op = "stop") = (holder.op = "stop") /\ (~ Native)' \in BOOLEAN
  BY <1>1 DEF Native
<1>3. Promise!Create
  BY <1>1, <1>2 DEF Promise!Create
<1>4. QED  BY <1>3 DEF Promise!Next

LEMMA StepSeen == PipeInv /\ [Next]_vars => [Promise!Next]_(Promise!vars)
<1> SUFFICES ASSUME PipeInv, [Next]_vars  PROVE [Promise!Next]_(Promise!vars)
  OBVIOUS
<1>1. CASE UNCHANGED <<prun, steps>>
  BY <1>1, HandsSeen DEF States
<1>2. CASE HolderStep
  BY <1>2, HolderSeen
<1>3. CASE Starting
  BY <1>3, StartingSeen
<1>4. CASE \E engine \in Engines : CreatePipelineRun(engine)
  BY <1>4, CreateSeen
<1>5. CASE UNCHANGED vars \/ (RunNext /\ UNCHANGED pipeVars)
  BY <1>1, <1>5 DEF vars, pipeVars
<1>6. CASE PipelineCrash \/ StopBegins \/ Loop
  BY <1>1, <1>6
  DEF PipelineCrash, StopBegins, Loop, LoopTicks, FirstTick, ReconcileBegins,
      NothingToReconcile, Tick, Take, pipeVars
<1>7. CASE ClusterEnds \/ WorkflowEnds \/ WorkflowLost \/ \E k \in StepIds : StepJobDeleted(k)
  BY <1>1, <1>7
  DEF ClusterEnds, StepJobEnds, RolloutEnds, NodeEnds, WorkflowEnds, WorkflowLost,
      StepJobDeleted
<1>8. CASE \E r \in DOMAIN jobs : RunJobDeleted(r)
  BY <1>1, <1>8 DEF RunJobDeleted, pipeVars
<1>9. QED  BY <1>2, <1>3, <1>4, <1>5, <1>6, <1>7, <1>8 DEF Next

\* The rows of a pipeline run keep the promise of PipelinePromise for every
\* DAG, over crashes, stops and whatever fails: a step starts only after the
\* steps it needs, ends once, and the run ends with all of its steps
\* (decidePipelineRun, stopPipelineRun, store/pipelines.go).
THEOREM PipelineKeepsPromise == Spec => PromiseSpec
<1>1. Init => Promise!Init
  <2> SUFFICES ASSUME Init  PROVE Promise!Init
    OBVIOUS
  <2>1. /\ prun.status = "none" /\ (~ Native) = FALSE /\ (holder.op = "stop") = FALSE
        /\ States = [k \in StepIds |-> "pending"]
    BY FreeFields DEF Init, Native, States, NewStep
  <2>2. QED  BY <2>1 DEF Promise!Init
<1>2. PipeInv /\ [Next]_vars => [Promise!Next]_(Promise!vars)
  BY StepSeen
<1>3. QED
  BY <1>1, <1>2, PipeInvAlways, PTL DEF Spec, PromiseSpec, Promise!Spec

================================
