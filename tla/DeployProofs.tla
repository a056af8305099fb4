------------------------------ MODULE DeployProofs ------------------------------
(***************************************************************************)
(* Type correctness of module Deploy, who drives a deploy, what becomes of *)
(* it, and what it leaves in the cluster: proofs for every value of the    *)
(* constants.                                                              *)
(*                                                                         *)
(* All but the first theorem assume ~ServeEarly: requests are served only  *)
(* once reconciliation has read its list.  Without it a request and        *)
(* reconciliation can both drive a deploy.  The theorems about the cluster *)
(* assume more (OneAtATime, Undisturbed), and say so.                      *)
(*                                                                         *)
(* The inductive invariant, IInv, says of each goroutine what it may rely  *)
(* on at its pc (TaskOK), of each row what its status says about its image *)
(* and its origin (RowOK), and that nobody drives anything while the       *)
(* server is down or has not reconciled yet (Quiet).  For the cluster      *)
(* TurnInv says that only the latest deploy's goroutine may reach it,      *)
(* StrayInv who will remove a canary, and NewestInv, goroutine by          *)
(* goroutine, which image is applied.                                      *)
(***************************************************************************)
EXTENDS DeployProperties, TableLemmas

--------------------------------
\* What the operators on the tables return.

\* The tables keep their type and length under every write of the store.
LEMMA SetDeploymentStatusRows ==
    ASSUME NEW rows \in Seq(RowType), NEW n \in DOMAIN rows, NEW status \in Statuses,
           NEW r, r = SetDeploymentStatus(rows, n, status)
    PROVE  /\ r \in Seq(RowType) /\ Len(r) = Len(rows) /\ DOMAIN r = DOMAIN rows
           /\ r[n].status = status /\ r[n].image = rows[n].image
           /\ r[n].from = rows[n].from /\ r[n].cause = rows[n].cause
           /\ \A j \in DOMAIN rows : j # n => r[j] = rows[j]
<1> DEFINE e == [rows[n] EXCEPT !.status = status]
<1>1. rows[n] \in RowType
  BY LenProperties
<1>2. /\ e \in RowType /\ e.status = status /\ e.image = rows[n].image
      /\ e.from = rows[n].from /\ e.cause = rows[n].cause
  BY <1>1 DEF RowType
<1>3. r = [rows EXCEPT ![n] = e]
  BY DEF SetDeploymentStatus
<1> HIDE DEF e
<1>4. /\ r \in Seq(RowType) /\ Len(r) = Len(rows) /\ DOMAIN r = DOMAIN rows
      /\ r[n] = e
      /\ \A j \in DOMAIN rows : j # n => r[j] = rows[j]
  BY <1>2, <1>3, PutRow
<1>5. QED  BY <1>2, <1>4

LEMMA SetImageRows ==
    ASSUME NEW rows \in Seq(RowType), NEW n \in DOMAIN rows, NEW image \in Nat,
           NEW r, r = SetImageAndDeploying(rows, n, image)
    PROVE  /\ r \in Seq(RowType) /\ Len(r) = Len(rows) /\ DOMAIN r = DOMAIN rows
           /\ r[n].image = image /\ r[n].status = "deploying"
           /\ r[n].from = rows[n].from /\ r[n].cause = rows[n].cause
           /\ \A j \in DOMAIN rows : j # n => r[j] = rows[j]
<1> DEFINE e == [rows[n] EXCEPT !.image = image, !.status = "deploying"]
<1>1. rows[n] \in RowType
  BY LenProperties
<1>2. /\ e \in RowType /\ e.image = image /\ e.status = "deploying"
      /\ e.from = rows[n].from /\ e.cause = rows[n].cause
  BY <1>1 DEF RowType, Statuses
<1>3. r = [rows EXCEPT ![n] = e]
  BY <1>1, LenProperties DEF SetImageAndDeploying, RowType
<1> HIDE DEF e
<1>4. /\ r \in Seq(RowType) /\ Len(r) = Len(rows) /\ DOMAIN r = DOMAIN rows
      /\ r[n] = e
      /\ \A j \in DOMAIN rows : j # n => r[j] = rows[j]
  BY <1>2, <1>3, PutRow
<1>5. QED  BY <1>2, <1>4

LEMMA SetRolloutPhaseRows ==
    ASSUME NEW ros \in Seq(RolloutType), NEW n \in DOMAIN ros, NEW phase \in Phases,
           NEW r, r = SetRolloutPhase(ros, n, phase)
    PROVE  /\ r \in Seq(RolloutType) /\ Len(r) = Len(ros) /\ DOMAIN r = DOMAIN ros
           /\ r[n].phase = phase
           /\ \A j \in DOMAIN ros : j # n => r[j] = ros[j]
<1> DEFINE e == [ros[n] EXCEPT !.phase = phase]
<1>1. ros[n] \in RolloutType
  BY LenProperties
<1>2. e \in RolloutType /\ e.phase = phase
  BY <1>1 DEF RolloutType
<1>3. r = [ros EXCEPT ![n] = e]
  BY DEF SetRolloutPhase
<1> HIDE DEF e
<1>4. /\ r \in Seq(RolloutType) /\ Len(r) = Len(ros) /\ DOMAIN r = DOMAIN ros
      /\ r[n] = e
      /\ \A j \in DOMAIN ros : j # n => r[j] = ros[j]
  BY <1>2, <1>3, PutRow
<1>5. QED  BY <1>2, <1>4

LEMMA PutRollout ==
    ASSUME NEW ros \in Seq(RolloutType), NEW n \in DOMAIN ros,
           NEW phase \in Phases, NEW step \in Nat
    PROVE  LET r == [ros EXCEPT ![n] = Rollout(phase, step)] IN
           /\ r \in Seq(RolloutType) /\ Len(r) = Len(ros) /\ DOMAIN r = DOMAIN ros
           /\ r[n].phase = phase
           /\ \A j \in DOMAIN ros : j # n => r[j] = ros[j]
<1>1. Rollout(phase, step) \in RolloutType /\ Rollout(phase, step).phase = phase
  BY DEF Rollout, RolloutType
<1>2. QED  BY <1>1, PutRow

--------------------------------
\* Type correctness.  The variables are typed in three groups, because
\* most actions leave two of them alone.

TypeTables ==
    /\ deploys \in Seq(RowType)
    /\ rollouts \in Seq(RolloutType) /\ Len(rollouts) = Len(deploys)
    /\ jobs \in Seq(JobStates) /\ Len(jobs) = Len(deploys)

TypeCluster ==
    /\ stable \in [image : Nat, stamp : Nat, state : PodStates]
    /\ serving \in Nat
    /\ canary \in [image : Nat, state : PodStates]
    /\ split \in 0..Steps

TypeProcess ==
    /\ policy \in Policies
    /\ mode \in {"up", "down", "starting"}
    /\ syncs \subseteq Nat
    /\ used \in [crash : 0..MaxCrashes, ask : 0..MaxAsks,
                 edit : 0..MaxEdits, sync : 0..MaxSyncs]

\* A goroutine that fits the tables.
Fits(t) == t \in TaskType /\ t.d <= Len(deploys) /\ t.step < Steps

LEMMA TypeGroups ==
    TypeOK <=> /\ TypeTables /\ TypeCluster /\ TypeProcess
               /\ \A t \in tasks : Fits(t)
  BY DEF TypeOK, TypeTables, TypeCluster, TypeProcess, Fits

\* The three tables have one domain, and a goroutine's row is in it.
LEMMA Domains ==
    ASSUME TypeOK
    PROVE  /\ Len(deploys) \in Nat
           /\ DOMAIN deploys = 1..Len(deploys)
           /\ DOMAIN rollouts = DOMAIN deploys /\ DOMAIN jobs = DOMAIN deploys
           /\ \A n \in DOMAIN deploys :
                deploys[n] \in RowType /\ rollouts[n] \in RolloutType
           /\ \A t \in tasks : t.d \in DOMAIN deploys
  BY LenProperties DEF TypeOK, TaskType

\* What a goroutine keeps and what it forgets when it moves on.
LEMMA AtFits ==
    ASSUME NEW t, Fits(t), NEW pc \in PCs
    PROVE  /\ Fits(At(t, pc))
           /\ At(t, pc).d = t.d /\ At(t, pc).pc = pc /\ At(t, pc).ref = t.ref
  BY BoundsAssumption DEF Fits, At, NewTask, TaskType

LEMMA NewTaskFits ==
    ASSUME NEW d \in Nat \ {0}, NEW pc \in PCs, NEW ref \in Nat
    PROVE  /\ NewTask(d, pc, ref) \in TaskType /\ NewTask(d, pc, ref).step < Steps
           /\ NewTask(d, pc, ref).d = d /\ NewTask(d, pc, ref).pc = pc
           /\ NewTask(d, pc, ref).ref = ref
  BY BoundsAssumption DEF NewTask, TaskType

\* A row added to the tables.
LEMMA InsertRow ==
    ASSUME TypeOK, NEW row \in RowType, Insert(row)
    PROVE  /\ TypeTables' /\ TypeCluster' 
           /\ Len(deploys') = Len(deploys) + 1
           /\ DOMAIN deploys' = DOMAIN deploys \cup {Len(deploys) + 1}
           /\ deploys'[Len(deploys) + 1] = row
           /\ rollouts'[Len(deploys) + 1] = NoRollout
           /\ jobs'[Len(deploys) + 1] = "none"
           /\ \A n \in DOMAIN deploys :
                 deploys'[n] = deploys[n] /\ rollouts'[n] = rollouts[n]
                 /\ jobs'[n] = jobs[n]
<1>1. NoRollout \in RolloutType /\ "none" \in JobStates
  BY DEF NoRollout, Rollout, RolloutType, Phases, JobStates
<1>2. TypeCluster'
  BY DEF Insert, TypeOK, TypeCluster
<1>3. /\ deploys \in Seq(RowType) /\ rollouts \in Seq(RolloutType) /\ jobs \in Seq(JobStates)
      /\ Len(rollouts) = Len(deploys) /\ Len(jobs) = Len(deploys)
  BY DEF TypeOK
<1>4. QED  BY <1>1, <1>2, <1>3, AddRow, Domains DEF Insert, TypeTables

\* The goroutine that takes a step is replaced by one that fits, or is gone.
LEMMA BecomeFits ==
    ASSUME TypeOK, NEW t \in tasks, NEW u, Fits(u), Become(t, u),
           Len(deploys') = Len(deploys)
    PROVE  \A x \in tasks' : Fits(x)'
  BY DEF Become, Fits, TypeOK

LEMMA GotoFits ==
    ASSUME TypeOK, NEW t \in tasks, NEW pc \in PCs, Goto(t, pc),
           Len(deploys') = Len(deploys)
    PROVE  \A x \in tasks' : Fits(x)'
  BY BecomeFits, AtFits, TypeGroups DEF Goto

LEMMA StopFits ==
    ASSUME TypeOK, NEW t \in tasks, Stop(t), Len(deploys') = Len(deploys)
    PROVE  \A x \in tasks' : Fits(x)'
  BY DEF Stop, Fits, TypeOK

LEMMA SameFits ==
    ASSUME TypeOK, UNCHANGED tasks, Len(deploys') >= Len(deploys), Len(deploys') \in Nat
    PROVE  \A x \in tasks' : Fits(x)'
  BY Domains DEF Fits, TypeOK, TaskType

\* A gate starts with the rest of the goroutine's state cleared.
LEMMA GateFits ==
    ASSUME TypeOK, NEW t \in tasks, StartGate(t), Len(deploys') = Len(deploys)
    PROVE  \A x \in tasks' : Fits(x)'
<1> DEFINE u == [At(t, "gate") EXCEPT !.target =
                   IF rollouts[t.d].phase = "starting" THEN "canary" ELSE "stable"]
<1>1. Fits(At(t, "gate"))
  BY AtFits, TypeGroups DEF PCs
<1>2. Fits(u)
  BY <1>1 DEF Fits, TaskType
<1>3. QED  BY <1>2, BecomeFits DEF StartGate

LEMMA SetStatusType ==
    ASSUME TypeOK, NEW t \in tasks, NEW status \in Statuses,
           deploys' = SetDeploymentStatus(deploys, t.d, status),
           UNCHANGED <<rollouts, jobs>>
    PROVE  TypeTables' /\ Len(deploys') = Len(deploys)
  BY SetDeploymentStatusRows, Domains DEF TypeOK, TypeTables

LEMMA SetPhaseType ==
    ASSUME TypeOK, NEW n \in DOMAIN rollouts, NEW phase \in Phases,
           rollouts' = SetRolloutPhase(rollouts, n, phase),
           UNCHANGED <<deploys, jobs>>
    PROVE  TypeTables'
  BY SetRolloutPhaseRows DEF TypeOK, TypeTables

LEMMA ApplyType ==
    ASSUME TypeOK, NEW image \in Nat
    PROVE  /\ ApplyStable(image) => stable' \in [image : Nat, stamp : Nat, state : PodStates]
           /\ ApplyCanary(image) => canary' \in [image : Nat, state : PodStates]
           /\ CleanupCanary => /\ canary' \in [image : Nat, state : PodStates]
                               /\ split' \in 0..Steps
<1>1. ASSUME ApplyStable(image)
      PROVE  stable' \in [image : Nat, stamp : Nat, state : PodStates]
  <2>1. Latest \in Nat
    BY Domains DEF TypeOK, Latest, LatestDeployment
  <2>2. stable \in [image : Nat, stamp : Nat, state : PodStates]
    BY DEF TypeOK
  <2>3. QED  BY <1>1, <2>1, <2>2 DEF ApplyStable, PodStates
<1>2. ASSUME ApplyCanary(image)
      PROVE  canary' \in [image : Nat, state : PodStates]
  <2>1. canary \in [image : Nat, state : PodStates]
    BY DEF TypeOK
  <2>2. QED  BY <1>2, <2>1 DEF ApplyCanary, PodStates
<1>3. ASSUME CleanupCanary
      PROVE  canary' \in [image : Nat, state : PodStates] /\ split' \in 0..Steps
  <2>1. canary \in [image : Nat, state : PodStates] /\ split \in 0..Steps
    BY DEF TypeOK
  <2>2. QED  BY <1>3, <2>1, BoundsAssumption DEF CleanupCanary, NoPods, PodStates
<1>4. QED  BY <1>1, <1>2, <1>3

\* A step that only moves the goroutine on.
LEMMA MoveType ==
    ASSUME TypeOK, UNCHANGED <<db, cluster, mode, syncs, used>>,
           \A x \in tasks' : Fits(x)'
    PROVE  TypeOK'
  BY TypeGroups DEF TypeOK, Fits, db, cluster

\* A step of the cluster or of a goroutine keeps the rest of the process typed.
LEMMA FrameProcess ==
    ASSUME TypeOK, UNCHANGED <<policy, mode, syncs, used>>
    PROVE  TypeProcess'
  BY DEF TypeOK, TypeProcess

LEMMA FrameCluster ==
    ASSUME TypeOK, UNCHANGED <<stable, serving, canary, split>>
    PROVE  TypeCluster'
  BY DEF TypeOK, TypeCluster

LEMMA FrameTables ==
    ASSUME TypeOK, UNCHANGED <<deploys, rollouts, jobs>>
    PROVE  TypeTables' /\ Len(deploys') = Len(deploys)
  BY DEF TypeOK, TypeTables

LEMMA TypeOKFromGroups ==
    ASSUME TypeTables', TypeCluster', TypeProcess', \A x \in tasks' : Fits(x)'
    PROVE  TypeOK'
  BY DEF TypeOK, TypeTables, TypeCluster, TypeProcess, Fits

\* The row of a goroutine fails and the goroutine ends.
LEMMA FailRowType ==
    ASSUME TypeOK, NEW t \in tasks, FailRow(t)
    PROVE  TypeOK'
<1>1. TypeTables' /\ Len(deploys') = Len(deploys)
  BY SetStatusType DEF FailRow, Statuses, cluster
<1>2. TypeCluster' /\ TypeProcess'
  BY FrameCluster, FrameProcess DEF FailRow, cluster
<1>3. QED  BY <1>1, <1>2, StopFits, TypeOKFromGroups DEF FailRow

LEMMA TypeTaskStep ==
    ASSUME TypeOK, NEW t \in tasks, TaskStep(t)
    PROVE  TypeOK'
<1> USE DEF PCs
<1>0. t.d \in DOMAIN deploys /\ t.d \in DOMAIN rollouts /\ Fits(t) /\ t \in TaskType
  BY Domains, TypeGroups DEF Fits
<1>1. CASE ApplyBuildJob(t)
  <2>1. jobs' \in Seq(JobStates) /\ Len(jobs') = Len(jobs)
    BY <1>0, <1>1, PutRow, Domains DEF ApplyBuildJob, TypeOK, JobStates
  <2>2. TypeTables' /\ TypeCluster' /\ TypeProcess' /\ Len(deploys') = Len(deploys)
    BY <1>1, <2>1, FrameCluster, FrameProcess DEF ApplyBuildJob, TypeOK, TypeTables, db
  <2>3. QED  BY <1>1, <2>2, GotoFits, TypeOKFromGroups DEF ApplyBuildJob
<1>2. CASE Reattach(t)
  BY <1>2, MoveType, GotoFits DEF Reattach, db
<1>3. CASE BuildSucceeds(t)
  BY <1>3, MoveType, GotoFits DEF BuildSucceeds, db
<1>4. CASE BuildFails(t) \/ ApplyFails(t)
  BY <1>4, FailRowType DEF BuildFails, ApplyFails
<1>5. CASE Finish(t)
  <2>1. TypeTables' /\ Len(deploys') = Len(deploys)
    <3>1. PICK image \in Nat : deploys' = SetImageAndDeploying(deploys, t.d, image)
      BY <1>0, <1>5 DEF Finish, TaskType
    <3>2. deploys' \in Seq(RowType) /\ Len(deploys') = Len(deploys)
      BY <1>0, <3>1, SetImageRows DEF TypeOK
    <3>3. QED  BY <1>5, <3>2 DEF Finish, TypeOK, TypeTables, cluster
  <2>2. TypeCluster' /\ TypeProcess'
    BY <1>5, FrameCluster, FrameProcess DEF Finish, cluster
  <2>3. QED  BY <1>5, <2>1, <2>2, GotoFits, TypeOKFromGroups DEF Finish
<1>6. CASE ApplyRolling(t)
  <2>1. deploys[t.d].image \in Nat
    BY <1>0, Domains DEF RowType
  <2>2. TypeCluster'
    BY <1>6, <2>1, ApplyType DEF ApplyRolling, TypeOK, TypeCluster
  <2>3. TypeTables' /\ TypeProcess' /\ Len(deploys') = Len(deploys)
    BY <1>6, FrameTables, FrameProcess DEF ApplyRolling, db
  <2>4. QED  BY <1>6, <2>2, <2>3, GateFits, TypeOKFromGroups DEF ApplyRolling
<1>7. CASE StartCanary(t)
  <2>1. TypeTables' /\ Len(deploys') = Len(deploys)
    <3>1. CASE rollouts' = rollouts
      BY <1>7, <3>1, FrameTables DEF StartCanary, cluster
    <3>2. CASE rollouts' = [rollouts EXCEPT ![t.d] = Rollout("starting", 0)]
      <4>1. "starting" \in Phases /\ 0 \in Nat
        BY DEF Phases
      <4>2. rollouts' \in Seq(RolloutType) /\ Len(rollouts') = Len(rollouts)
        BY <1>0, <3>2, <4>1, PutRollout DEF TypeOK
      <4>3. QED  BY <1>7, <4>2 DEF StartCanary, cluster, TypeOK, TypeTables
    <3>3. QED  BY <1>7, <3>1, <3>2 DEF StartCanary
  <2>2. TypeCluster' /\ TypeProcess'
    BY <1>7, FrameCluster, FrameProcess DEF StartCanary, cluster
  <2>3. \A x \in tasks' : Fits(x)'
    <3>1. \/ \E pc \in PCs : Goto(t, pc)
          \/ Become(t, [At(t, "promote") EXCEPT !.resumed = TRUE])
          \/ Stop(t)
      BY <1>7 DEF StartCanary
    <3>2. Fits([At(t, "promote") EXCEPT !.resumed = TRUE])
      <4>1. Fits(At(t, "promote"))
        BY <1>0, AtFits
      <4>2. QED  BY <4>1 DEF Fits, TaskType
    <3>3. QED  BY <2>1, <3>1, <3>2, GotoFits, BecomeFits, StopFits
  <2>4. QED  BY <2>1, <2>2, <2>3, TypeOKFromGroups
<1>8. CASE CanaryApply(t)
  <2>1. TypeCluster'
    BY <1>0, <1>8, ApplyType DEF CanaryApply, TypeOK, TypeCluster, TaskType
  <2>2. TypeTables' /\ TypeProcess' /\ Len(deploys') = Len(deploys)
    BY <1>8, FrameTables, FrameProcess DEF CanaryApply, db
  <2>3. QED  BY <1>8, <2>1, <2>2, GateFits, TypeOKFromGroups DEF CanaryApply
<1>9. CASE GateCheck(t)
  <2>1. Fits([t EXCEPT !.pc = "sample"])
    BY <1>0 DEF Fits, TaskType
  <2>2. QED  BY <1>9, <2>1, BecomeFits, MoveType DEF GateCheck, db
<1>10. CASE GateSuperseded(t) \/ GateSamplesFailed(t) \/ GateFindsNothing(t)
  <2>1. PICK rb \in BOOLEAN : GateFailed(t, rb) /\ UNCHANGED <<db, cluster, mode, syncs, used>>
    BY <1>10 DEF GateSuperseded, GateSamplesFailed, GateFindsNothing
  <2>2. /\ Fits(At(t, "abort"))
        /\ Fits([At(t, "cleanFail") EXCEPT !.rb = rb])
        /\ Fits([At(t, "fail") EXCEPT !.rb = rb])
    <3>1. Fits(At(t, "abort")) /\ Fits(At(t, "cleanFail")) /\ Fits(At(t, "fail"))
      BY <1>0, AtFits
    <3>2. QED  BY <3>1 DEF Fits, TaskType
  <2>3. PICK u : Fits(u) /\ Become(t, u)
    BY <2>1, <2>2 DEF GateFailed
  <2>4. QED  BY <2>1, <2>3, BecomeFits, MoveType DEF db
<1>11. CASE GateSamplesDone(t)
  <2>1. PICK pc \in PCs : Goto(t, pc)
    BY <1>11 DEF GateSamplesDone, GateDone
  <2>2. QED  BY <1>11, <2>1, GotoFits, MoveType DEF GateSamplesDone, db
<1>12. CASE MarkLive(t)
  <2>1. TypeTables' /\ Len(deploys') = Len(deploys)
    BY <1>12, SetStatusType DEF MarkLive, Statuses, cluster
  <2>2. TypeCluster' /\ TypeProcess'
    BY <1>12, FrameCluster, FrameProcess DEF MarkLive, cluster
  <2>3. QED  BY <1>12, <2>1, <2>2, StopFits, TypeOKFromGroups DEF MarkLive
<1>13. CASE CleanFail(t)
  <2>1. TypeTables' /\ Len(deploys') = Len(deploys)
    BY <1>0, <1>13, SetPhaseType DEF CleanFail, Phases
  <2>2. TypeCluster'
    BY <1>13, ApplyType DEF CleanFail, TypeOK, TypeCluster
  <2>3. TypeProcess'
    BY <1>13, FrameProcess DEF CleanFail
  <2>4. Fits([t EXCEPT !.pc = "fail"])
    BY <1>0 DEF Fits, TaskType
  <2>5. QED  BY <1>13, <2>1, <2>2, <2>3, <2>4, BecomeFits, TypeOKFromGroups DEF CleanFail
<1>14. CASE Fail(t)
  <2>1. TypeTables' /\ Len(deploys') = Len(deploys)
    BY <1>14, SetStatusType DEF Fail, Statuses, cluster
  <2>2. TypeCluster' /\ TypeProcess'
    BY <1>14, FrameCluster, FrameProcess DEF Fail, cluster
  <2>3. Goto(t, "autoRollback") \/ Stop(t)
    BY <1>14 DEF Fail
  <2>4. QED  BY <2>1, <2>2, <2>3, GotoFits, StopFits, TypeOKFromGroups
<1>15. CASE AutoRollback(t)
  <2>1. PICK m \in DOMAIN deploys :
           /\ Insert(Row("deploying", deploys[m].image, m, t.d))
           /\ Become(t, NewTask(Len(deploys) + 1, "apply", deploys[m].image))
    BY <1>15 DEF AutoRollback
  <2>2. Row("deploying", deploys[m].image, m, t.d) \in RowType
    BY <1>0, Domains DEF Row, RowType, Statuses
  <2>3. /\ TypeTables' /\ TypeCluster' /\ Len(deploys') = Len(deploys) + 1
    BY <2>1, <2>2, InsertRow
  <2>4. TypeProcess'
    BY <2>1, FrameProcess DEF Insert
  <2>5. \A x \in tasks' : Fits(x)'
    <3>1. deploys[m].image \in Nat /\ Len(deploys) \in Nat
      BY Domains DEF RowType
    <3>2. PICK u : /\ u \in TaskType /\ u.step < Steps /\ u.d = Len(deploys) + 1
                   /\ Become(t, u)
      <4>1. "apply" \in PCs /\ Len(deploys) + 1 \in Nat \ {0}
        BY <3>1
      <4> DEFINE v == NewTask(Len(deploys) + 1, "apply", deploys[m].image)
      <4>2. v \in TaskType /\ v.step < Steps /\ v.d = Len(deploys) + 1
        BY <3>1, <4>1, BoundsAssumption DEF NewTask, TaskType
      <4>3. Become(t, v)
        BY <2>1
      <4> HIDE DEF v
      <4>4. QED  BY <4>2, <4>3
    <3>3. TAKE x \in tasks'
    <3>4. CASE x \in tasks
      BY <2>3, <3>1, <3>4, TypeGroups, Domains DEF Fits, TaskType
    <3>5. CASE x = u
      BY <2>3, <3>1, <3>2, <3>5 DEF Fits
    <3>6. QED  BY <3>2, <3>4, <3>5 DEF Become
  <2>6. QED  BY <2>3, <2>4, <2>5, TypeOKFromGroups
<1>16. CASE NoRollback(t)
  BY <1>16, MoveType, StopFits DEF NoRollback, db
<1>17. CASE Drive(t)
  <2>1. Stop(t) \/ \E pc \in PCs : Goto(t, pc)
    BY <1>17 DEF Drive
  <2>2. QED  BY <1>17, <2>1, GotoFits, StopFits, MoveType DEF Drive, db
<1>18. CASE Route(t)
  <2>1. t.step \in Nat /\ t.step < Steps
    BY <1>0 DEF Fits, TaskType
  <2>2. TypeTables' /\ Len(deploys') = Len(deploys)
    BY <1>0, <1>18, <2>1, PutRollout DEF Route, SetRolloutStep, TypeOK, TypeTables, Phases
  <2>3. split' \in 0..Steps
    BY <1>18, <2>1, BoundsAssumption DEF Route
  <2>4. TypeCluster' /\ TypeProcess'
    BY <1>18, <2>3, FrameProcess DEF Route, TypeOK, TypeCluster
  <2>5. QED  BY <1>18, <2>2, <2>4, GotoFits, TypeOKFromGroups DEF Route
<1>19. CASE RouteFails(t) \/ ProbeUnhealthy(t) \/ ProbeAgain(t) \/ PromoteFails(t)
  <2>1. PICK pc \in PCs : Goto(t, pc) /\ UNCHANGED <<db, cluster, mode, syncs, used>>
    BY <1>19 DEF RouteFails, ProbeUnhealthy, ProbeAgain, PromoteFails
  <2>2. QED  BY <2>1, GotoFits, MoveType DEF db
<1>20. CASE ProbeAdvances(t)
  <2>1. CASE rollouts[t.d].step + 1 < Steps
    <3>1. Fits([At(t, "route") EXCEPT !.step = rollouts[t.d].step + 1])
      <4>1. Fits(At(t, "route"))
        BY <1>0, AtFits
      <4>2. rollouts[t.d].step + 1 \in Nat
        BY <1>0, Domains DEF RolloutType
      <4>3. QED  BY <2>1, <4>1, <4>2 DEF Fits, TaskType
    <3>2. QED  BY <1>20, <2>1, <3>1, BecomeFits, MoveType DEF ProbeAdvances, db
  <2>2. CASE ~ (rollouts[t.d].step + 1 < Steps)
    BY <1>20, <2>2, GotoFits, MoveType DEF ProbeAdvances, db
  <2>3. QED  BY <2>1, <2>2
<1>21. CASE Promote(t)
  <2>1. TypeTables' /\ Len(deploys') = Len(deploys)
    BY <1>0, <1>21, SetPhaseType DEF Promote, Phases, cluster
  <2>2. TypeCluster' /\ TypeProcess'
    BY <1>21, FrameCluster, FrameProcess DEF Promote, cluster
  <2>3. Fits([t EXCEPT !.pc = "promoteApply"])
    BY <1>0 DEF Fits, TaskType
  <2>4. QED  BY <1>21, <2>1, <2>2, <2>3, BecomeFits, TypeOKFromGroups DEF Promote
<1>22. CASE PromoteApply(t)
  <2>1. TypeCluster'
    BY <1>0, <1>22, ApplyType DEF PromoteApply, TypeOK, TypeCluster, TaskType
  <2>2. TypeTables' /\ TypeProcess' /\ Len(deploys') = Len(deploys)
    BY <1>22, FrameTables, FrameProcess DEF PromoteApply, db
  <2>3. QED  BY <1>22, <2>1, <2>2, GateFits, TypeOKFromGroups DEF PromoteApply
<1>23. CASE FinishCanary(t)
  <2>1. TypeTables' /\ Len(deploys') = Len(deploys)
    BY <1>0, <1>23, SetPhaseType DEF FinishCanary, Phases
  <2>2. TypeCluster' /\ TypeProcess'
    BY <1>23, ApplyType, FrameProcess DEF FinishCanary, TypeOK, TypeCluster
  <2>3. QED  BY <1>23, <2>1, <2>2, GotoFits, TypeOKFromGroups DEF FinishCanary
<1>24. CASE Abort(t)
  <2>1. PICK pc \in PCs : Goto(t, pc)
    BY <1>24 DEF Abort
  <2>2. QED  BY <1>24, <2>1, GotoFits, MoveType DEF Abort, db
<1>25. CASE AbortClean(t)
  <2>1. TypeCluster' /\ TypeTables' /\ TypeProcess' /\ Len(deploys') = Len(deploys)
    BY <1>25, ApplyType, FrameTables, FrameProcess DEF AbortClean, TypeOK, TypeCluster, db
  <2>2. QED  BY <1>25, <2>1, GotoFits, TypeOKFromGroups DEF AbortClean
<1>26. CASE AbortMark(t)
  <2>1. TypeTables' /\ Len(deploys') = Len(deploys)
    BY <1>0, <1>26, SetPhaseType DEF AbortMark, Phases, cluster
  <2>2. TypeCluster' /\ TypeProcess'
    BY <1>26, FrameCluster, FrameProcess DEF AbortMark, cluster
  <2>3. QED  BY <1>26, <2>1, <2>2, GotoFits, TypeOKFromGroups DEF AbortMark
<1>27. CASE AbortFail(t)
  <2>1. TypeTables' /\ Len(deploys') = Len(deploys)
    BY <1>27, SetStatusType, FrameTables DEF AbortFail, Statuses, cluster
  <2>2. TypeCluster' /\ TypeProcess'
    BY <1>27, FrameCluster, FrameProcess DEF AbortFail, cluster
  <2>3. QED  BY <1>27, <2>1, <2>2, StopFits, TypeOKFromGroups DEF AbortFail
<1>28. QED
  BY <1>1, <1>2, <1>3, <1>4, <1>5, <1>6, <1>7, <1>8, <1>9, <1>10, <1>11, <1>12,
     <1>13, <1>14, <1>15, <1>16, <1>17, <1>18, <1>19, <1>20, <1>21, <1>22, <1>23,
     <1>24, <1>25, <1>26, <1>27 DEF TaskStep

\* A request that adds a row, with or without a goroutine for it.
LEMMA InsertType ==
    ASSUME TypeOK, NEW row \in RowType, Insert(row),
           \/ UNCHANGED tasks
           \/ \E pc \in PCs, ref \in Nat : Spawn(pc, ref)
    PROVE  TypeOK'
<1>1. TypeTables' /\ TypeCluster' /\ Len(deploys') = Len(deploys) + 1
  BY InsertRow
<1>2. TypeProcess'
  BY FrameProcess DEF Insert
<1>3. Len(deploys) \in Nat
  BY Domains
<1>4. CASE UNCHANGED tasks
  BY <1>1, <1>2, <1>3, <1>4, SameFits, TypeOKFromGroups
<1>5. ASSUME NEW pc \in PCs, NEW ref \in Nat, Spawn(pc, ref)  PROVE TypeOK'
  <2> DEFINE u == NewTask(Len(deploys) + 1, pc, ref)
  <2>1. u \in TaskType /\ u.step < Steps /\ u.d = Len(deploys) + 1
    BY <1>3, NewTaskFits
  <2>2. tasks' = tasks \cup {u}
    BY <1>5 DEF Spawn
  <2> HIDE DEF u
  <2>3. ASSUME NEW x \in tasks'  PROVE Fits(x)'
    BY <1>1, <1>3, <2>1, <2>2, TypeGroups, Domains DEF Fits, TaskType
  <2>4. QED  BY <1>1, <1>2, <2>3, TypeOKFromGroups
<1>6. QED  BY <1>4, <1>5

\* The rows that requests insert.
LEMMA RequestRows ==
    ASSUME TypeOK
    PROVE  /\ Row("building", 0, 0, 0) \in RowType
           /\ Row("deploying", Len(deploys) + 1, 0, 0) \in RowType
           /\ \A m \in DOMAIN deploys :
                /\ deploys[m].image \in Nat
                /\ Row("deploying", deploys[m].image, 0, 0) \in RowType
                /\ Row("deploying", deploys[m].image, m, 0) \in RowType
  BY Domains DEF Row, RowType, Statuses

UsedType == [crash : 0..MaxCrashes, ask : 0..MaxAsks,
             edit : 0..MaxEdits, sync : 0..MaxSyncs]

\* A bound that is not spent yet leaves the counter of it within its range.
LEMMA SpendType ==
    ASSUME used \in UsedType,
           \/ Spend("crash") /\ used.crash < MaxCrashes
           \/ Spend("ask") /\ used.ask < MaxAsks
           \/ Spend("edit") /\ used.edit < MaxEdits
           \/ Spend("sync") /\ used.sync < MaxSyncs
    PROVE  used' \in UsedType
<1>1. CASE Spend("crash") /\ used.crash < MaxCrashes
  <2>1. used' = [used EXCEPT !["crash"] = used.crash + 1]
    BY <1>1 DEF Spend
  <2>2. used.crash + 1 \in 0..MaxCrashes
    BY <1>1, BoundsAssumption DEF UsedType
  <2>3. QED  BY <2>1, <2>2 DEF UsedType
<1>2. CASE Spend("ask") /\ used.ask < MaxAsks
  <2>1. used' = [used EXCEPT !["ask"] = used.ask + 1]
    BY <1>2 DEF Spend
  <2>2. used.ask + 1 \in 0..MaxAsks
    BY <1>2, BoundsAssumption DEF UsedType
  <2>3. QED  BY <2>1, <2>2 DEF UsedType
<1>3. CASE Spend("edit") /\ used.edit < MaxEdits
  <2>1. used' = [used EXCEPT !["edit"] = used.edit + 1]
    BY <1>3 DEF Spend
  <2>2. used.edit + 1 \in 0..MaxEdits
    BY <1>3, BoundsAssumption DEF UsedType
  <2>3. QED  BY <2>1, <2>2 DEF UsedType
<1>4. CASE Spend("sync") /\ used.sync < MaxSyncs
  <2>1. used' = [used EXCEPT !["sync"] = used.sync + 1]
    BY <1>4 DEF Spend
  <2>2. used.sync + 1 \in 0..MaxSyncs
    BY <1>4, BoundsAssumption DEF UsedType
  <2>3. QED  BY <2>1, <2>2 DEF UsedType
<1>5. QED  BY <1>1, <1>2, <1>3, <1>4

LEMMA TypeRequest ==
    ASSUME TypeOK, Request
    PROVE  TypeOK'
<1> USE DEF PCs
<1>1. CASE DeployImage
  BY <1>1, InsertType, RequestRows, Domains DEF DeployImage
<1>2. CASE DeploySource
  BY <1>2, InsertType, RequestRows DEF DeploySource
<1>3. CASE UploadFails
  BY <1>3, InsertType, RequestRows DEF UploadFails
<1>4. CASE Redeploy
  <2>1. Latest \in DOMAIN deploys
    BY <1>4, Domains DEF Redeploy, Latest, LatestDeployment
  <2>2. QED  BY <1>4, <2>1, InsertType, RequestRows DEF Redeploy
<1>5. CASE Rollback
  BY <1>5, InsertType, RequestRows DEF Rollback, WithImage
<1>6. CASE RequestRollout
  <2>1. used' \in UsedType
    BY <1>6, SpendType DEF RequestRollout, TypeOK, UsedType
  <2>2. TypeTables' /\ Len(deploys') = Len(deploys)
    BY <1>6, SetPhaseType DEF RequestRollout, Phases, cluster
  <2>3. TypeCluster' /\ TypeProcess' /\ UNCHANGED tasks
    BY <1>6, <2>1, FrameCluster DEF RequestRollout, cluster, process, TypeProcess, TypeOK, UsedType
  <2>4. QED  BY <2>2, <2>3, Domains, SameFits, TypeOKFromGroups
<1>7. CASE SetPolicy
  <2>1. used' \in UsedType
    BY <1>7, SpendType DEF SetPolicy, TypeOK, UsedType
  <2>2. TypeTables' /\ TypeCluster' /\ Len(deploys') = Len(deploys)
    BY <1>7, FrameTables, FrameCluster DEF SetPolicy, cluster
  <2>3. TypeProcess' /\ UNCHANGED tasks
    BY <1>7, <2>1 DEF SetPolicy, process, TypeProcess, TypeOK, UsedType
  <2>4. QED  BY <2>2, <2>3, Domains, SameFits, TypeOKFromGroups
<1>8. CASE SyncRead
  <2>1. used' \in UsedType
    BY <1>8, SpendType DEF SyncRead, TypeOK, UsedType
  <2>2. Latest \in DOMAIN deploys
    BY <1>8, Domains DEF SyncRead, Latest, LatestDeployment
  <2>3. TypeProcess' /\ UNCHANGED tasks
    BY <1>8, <2>1, <2>2, RequestRows DEF SyncRead, TypeProcess, TypeOK, UsedType, db
  <2>4. TypeTables' /\ TypeCluster' /\ Len(deploys') = Len(deploys)
    BY <1>8, FrameTables, FrameCluster DEF SyncRead, db, cluster
  <2>5. QED  BY <2>3, <2>4, Domains, SameFits, TypeOKFromGroups
<1>9. CASE SyncApply
  <2>1. TypeCluster'
    BY <1>9, ApplyType DEF SyncApply, TypeOK, TypeCluster
  <2>2. TypeTables' /\ Len(deploys') = Len(deploys)
    BY <1>9, FrameTables DEF SyncApply, db
  <2>3. TypeProcess' /\ UNCHANGED tasks
    BY <1>9 DEF SyncApply, TypeProcess, TypeOK, db
  <2>4. QED  BY <2>1, <2>2, <2>3, Domains, SameFits, TypeOKFromGroups
<1>10. QED
  BY <1>1, <1>2, <1>3, <1>4, <1>5, <1>6, <1>7, <1>8, <1>9 DEF Request

LEMMA TypeClusterStep ==
    ASSUME TypeOK, ClusterStep
    PROVE  TypeOK'
<1>1. UNCHANGED <<deploys, rollouts, policy, mode, tasks, syncs, used>>
  BY DEF ClusterStep, StableReady, StableBroken, CanaryReady, CanaryBroken,
         JobEnds, JobExpires, db, process
<1>2. TypeProcess' /\ \A x \in tasks' : Fits(x)'
  BY <1>1, FrameProcess, SameFits, Domains
<1>3. CASE StableReady \/ StableBroken \/ CanaryReady \/ CanaryBroken
  <2>1. TypeTables'
    BY <1>1, <1>3, FrameTables DEF StableReady, StableBroken, CanaryReady, CanaryBroken
  <2>2. TypeCluster'
    BY <1>3 DEF StableReady, StableBroken, CanaryReady, CanaryBroken, TypeOK,
                TypeCluster, PodStates
  <2>3. QED  BY <1>2, <2>1, <2>2, TypeOKFromGroups
<1>4. ASSUME NEW n \in DOMAIN jobs, JobEnds(n) \/ JobExpires(n)  PROVE TypeOK'
  <2>1. PICK end \in JobStates : jobs' = [jobs EXCEPT ![n] = end]
    BY <1>4 DEF JobEnds, JobExpires, JobStates
  <2>2. TypeTables'
    BY <1>1, <2>1, PutRow DEF TypeOK, TypeTables
  <2>3. TypeCluster'
    BY <1>4, FrameCluster DEF JobEnds, JobExpires
  <2>4. QED  BY <1>2, <2>2, <2>3, TypeOKFromGroups
<1>5. QED  BY <1>3, <1>4 DEF ClusterStep

LEMMA TypeServerStep ==
    ASSUME TypeOK, ServerStep
    PROVE  TypeOK'
<1>1. UNCHANGED <<deploys, rollouts, jobs, policy, stable, serving, canary, split>>
  BY DEF ServerStep, Crash, Restart, Reconcile, db, cluster
<1>2. TypeTables' /\ TypeCluster'
  BY <1>1, FrameTables, FrameCluster
<1>3. CASE Crash
  <2>1. used' \in UsedType
    BY <1>3, SpendType DEF Crash, TypeOK, UsedType
  <2>2. TypeProcess'
    BY <1>1, <1>3, <2>1 DEF Crash, TypeOK, TypeProcess, UsedType
  <2>3. QED  BY <1>2, <1>3, <2>2, TypeOKFromGroups DEF Crash
<1>4. CASE Restart
  <2>1. TypeProcess'
    BY <1>1, <1>4 DEF Restart, TypeOK, TypeProcess
  <2>2. QED  BY <1>1, <1>2, <1>4, <2>1, Domains, SameFits, TypeOKFromGroups DEF Restart
<1>5. CASE Reconcile
  <2>1. TypeProcess'
    BY <1>1, <1>5 DEF Reconcile, TypeOK, TypeProcess
  <2>2. ASSUME NEW n \in UnfinishedDeployments(deploys), NEW pc \in PCs
        PROVE  Fits(NewTask(n, pc, deploys[n].image))
    BY NewTaskFits, Domains DEF UnfinishedDeployments, RowType, Fits
  <2>3. ASSUME NEW x \in tasks'  PROVE Fits(x)
    <3>1. CASE x \in tasks
      BY <3>1, TypeGroups
    <3>2. CASE x \notin tasks
      BY <1>5, <2>2, <3>2 DEF Reconcile, PCs
    <3>3. QED  BY <3>1, <3>2
  <2>4. QED  BY <1>1, <1>2, <2>1, <2>3, TypeOKFromGroups DEF Fits
<1>6. QED  BY <1>3, <1>4, <1>5 DEF ServerStep

LEMMA InitType == Init => TypeOK
<1> SUFFICES ASSUME Init  PROVE TypeOK
  OBVIOUS
<1>1. TypeTables
  BY EmptySeq DEF Init, TypeTables
<1>2. TypeCluster /\ TypeProcess /\ \A t \in tasks : Fits(t)
  BY BoundsAssumption DEF Init, TypeCluster, TypeProcess, PodStates, NoPods
<1>3. QED  BY <1>1, <1>2, TypeGroups

\* Every variable keeps its type: the tables grow together, no goroutine
\* outlives its row, and the traffic split never names a step that does not exist.
THEOREM TypeCorrect == Spec => []TypeOK
<1>1. Init => TypeOK
  BY InitType
<1>2. TypeOK /\ [Next]_vars => TypeOK'
  <2> SUFFICES ASSUME TypeOK, [Next]_vars  PROVE TypeOK'
    OBVIOUS
  <2>1. CASE Next
    BY <2>1, TypeTaskStep, TypeRequest, TypeClusterStep, TypeServerStep DEF Next
  <2>2. CASE UNCHANGED vars
    BY <2>2 DEF vars, db, cluster, process, TypeOK
  <2>3. QED  BY <2>1, <2>2
<1>3. QED  BY <1>1, <1>2, PTL DEF Spec

--------------------------------
\* The inductive invariant.

\* The pcs at which the goroutine's row is still being built.
BuildPCs == {"build", "reattach", "wait"}

\* The pcs at which the step machine owns the rollout before its promotion.
StepPCs == {"drive", "route", "probe"}

\* The row a goroutine drives is in the state its pc needs.
TaskOK(t) ==
    LET row == deploys[t.d] IN
    /\ t.pc \in BuildPCs => row.status = "building" /\ t.ref = 0
    /\ t.pc = "finish" => \/ row.status = "building" /\ t.ref = 0
                          \/ row.status = "deploying" /\ t.ref = row.image
    /\ t.pc = "autoRollback" =>
         /\ row.status = "failed" /\ row.from = 0
         /\ \A n \in DOMAIN deploys : deploys[n].cause # t.d
    /\ t.pc \notin BuildPCs \cup {"finish", "autoRollback"}
         => row.status = "deploying"
    /\ t.pc \in StepPCs => rollouts[t.d].phase \in BeforePromotion

\* A row that is being built has no image; one that is being deployed, or is
\* live, has one that it, or a deploy before it, introduced.  A rollback names
\* earlier rows.
RowOK(n) ==
    LET row == deploys[n] IN
    /\ row.image \in 0..n
    /\ row.status = "building" => row.image = 0
    /\ row.status \in {"deploying", "live"} => row.image # 0
    /\ row.from \in 0..(n - 1)
    /\ row.cause # 0 => row.cause \in 1..(n - 1) /\ row.from # 0

\* With requests served after reconciliation only.
Quiet == mode # "up" => tasks = {}

IInv == /\ TypeOK
        /\ Quiet
        /\ OneDriver
        /\ \A n \in DOMAIN deploys : RowOK(n)
        /\ \A t \in tasks : TaskOK(t)
        /\ RollbackOnce
        /\ OrphansExplained

--------------------------------
\* What a step of a goroutine does to the tables and to the goroutines.
\* Every action but AutoRollback does one of these four things to the row
\* that the goroutine drives, leaves every other row alone, and moves the
\* goroutine on or ends it.

RowStep(n) ==
    LET old == deploys[n]
        new == deploys'[n]
    IN  /\ new.from = old.from /\ new.cause = old.cause
        /\ \/ new.status = old.status /\ new.image = old.image
           \/ /\ old.status \in Unfinished
              /\ new.status = "failed" /\ new.image = old.image
           \/ /\ old.status = "deploying"
              /\ new.status = "live" /\ new.image = old.image
           \/ /\ old.status = "building"
              /\ new.status = "deploying" /\ new.image = n

OnlyRow(d) ==
    /\ DOMAIN deploys' = DOMAIN deploys
    /\ \A n \in DOMAIN deploys :
         n # d => /\ deploys'[n] = deploys[n]
                  /\ rollouts'[n] = rollouts[n] /\ jobs'[n] = jobs[n]
    /\ RowStep(d)

\* A row that needs no driver, or is known to have lost its driver.
Explained(n) ==
    \/ deploys[n].status \notin Unfinished
    \/ deploys[n].status = "deploying" /\ rollouts[n].phase \in {"done", "aborted"}
    \/ deploys[n].status = "building" /\ jobs[n] = "none"

MovesOn(t) == \E u : u.d = t.d /\ Become(t, u) /\ TaskOK(u)'
Leaves(t)  == Stop(t) /\ Explained(t.d)'

Effect(t) == OnlyRow(t.d) /\ (MovesOn(t) \/ Leaves(t)) /\ mode' = mode

\* At most pcs the goroutine needs no more than a row that is being deployed.
Deploying == PCs \ (BuildPCs \cup StepPCs \cup {"finish", "autoRollback"})

LEMMA DeployingMovesOn ==
    ASSUME NEW t, NEW u, u.d = t.d, u.pc \in Deploying, Become(t, u),
           deploys'[t.d].status = "deploying"
    PROVE  MovesOn(t)
<1>1. TaskOK(u)'
  BY DEF TaskOK, Deploying
<1>2. QED  BY <1>1 DEF MovesOn

\* A step that leaves the tables alone.
LEMMA TablesSame ==
    ASSUME TypeOK, NEW t \in tasks, UNCHANGED <<deploys, rollouts, jobs>>
    PROVE  OnlyRow(t.d)
  BY DEF OnlyRow, RowStep

\* A goroutine at most pcs drives a row that is being deployed.
LEMMA DrivesDeploying ==
    ASSUME IInv, NEW t \in tasks, t.pc \in Deploying \cup StepPCs
    PROVE  deploys[t.d].status = "deploying"
  BY DEF IInv, TaskOK, Deploying, BuildPCs, StepPCs

\* The goroutine ends because its row has failed.
LEMMA FailRowEffect ==
    ASSUME IInv, NEW t \in tasks, FailRow(t), deploys[t.d].status \in Unfinished
    PROVE  Effect(t)
<1>1. t.d \in DOMAIN deploys /\ deploys[t.d] \in RowType
  BY Domains DEF IInv
<1>2. /\ DOMAIN deploys' = DOMAIN deploys
      /\ deploys'[t.d].status = "failed" /\ deploys'[t.d].image = deploys[t.d].image
      /\ deploys'[t.d].from = deploys[t.d].from
      /\ deploys'[t.d].cause = deploys[t.d].cause
      /\ \A n \in DOMAIN deploys : n # t.d => deploys'[n] = deploys[n]
  <2>1. deploys \in Seq(RowType) /\ "failed" \in Statuses
    BY DEF IInv, TypeOK, Statuses
  <2>2. deploys' = SetDeploymentStatus(deploys, t.d, "failed")
    BY DEF FailRow
  <2>3. QED  BY <1>1, <2>1, <2>2, SetDeploymentStatusRows
<1>3. OnlyRow(t.d)
  BY <1>2 DEF OnlyRow, RowStep, FailRow, cluster
<1>4. Explained(t.d)'
  BY <1>1, <1>2 DEF Explained, RowType, Unfinished
<1>5. QED  BY <1>3, <1>4 DEF Effect, Leaves, FailRow

\* Steps that only move the goroutine, within the states of a row that is
\* being deployed.
LEMMA GateEffect ==
    ASSUME IInv, NEW t \in tasks,
           \/ GateCheck(t) \/ GateSuperseded(t) \/ GateSamplesDone(t)
           \/ GateSamplesFailed(t) \/ GateFindsNothing(t)
    PROVE  Effect(t)
<1>1. t \in TaskType /\ t.pc \in Deploying
  BY DEF GateCheck, GateSuperseded, GateSamplesDone, GateSamplesFailed,
         GateFindsNothing, Deploying, PCs, BuildPCs, StepPCs, IInv, TypeOK
<1>2. UNCHANGED <<deploys, rollouts, jobs, mode>>
  BY DEF GateCheck, GateSuperseded, GateSamplesDone, GateSamplesFailed,
         GateFindsNothing, db, cluster
<1>3. OnlyRow(t.d) /\ deploys'[t.d].status = "deploying"
  BY <1>1, <1>2, TablesSame, DrivesDeploying DEF IInv
<1>4. CASE GateCheck(t)
  <2> DEFINE u == [t EXCEPT !.pc = "sample"]
  <2>1. u.d = t.d /\ u.pc \in Deploying
    BY <1>1 DEF TaskType, Deploying, PCs, BuildPCs, StepPCs
  <2>2. Become(t, u)
    BY <1>4 DEF GateCheck
  <2> HIDE DEF u
  <2>3. QED  BY <1>2, <1>3, <2>1, <2>2, DeployingMovesOn DEF Effect
<1>5. ASSUME NEW rb \in BOOLEAN, GateFailed(t, rb)  PROVE Effect(t)
  <2>1. PICK u : u.d = t.d /\ u.pc \in Deploying /\ Become(t, u)
    BY <1>5 DEF GateFailed, At, NewTask, Deploying, PCs, BuildPCs, StepPCs
  <2>2. QED  BY <1>2, <1>3, <2>1, DeployingMovesOn DEF Effect
<1>6. CASE GateSamplesDone(t)
  <2>1. \/ Goto(t, "finishCanary") \/ Goto(t, "live")
        \/ rollouts[t.d].phase = "starting" /\ Goto(t, "drive")
    BY <1>6 DEF GateSamplesDone, GateDone
  <2>2. \A pc \in Deploying : At(t, pc).d = t.d /\ At(t, pc).pc = pc
    BY DEF At, NewTask
  <2>3. ASSUME rollouts[t.d].phase = "starting", Goto(t, "drive")  PROVE MovesOn(t)
    <3>1. TaskOK(At(t, "drive"))'
      BY <1>2, <1>3, <2>3 DEF TaskOK, At, NewTask, BuildPCs, StepPCs, BeforePromotion
    <3>2. QED  BY <2>3, <3>1 DEF MovesOn, Goto, At, NewTask
  <2>4. "finishCanary" \in Deploying /\ "live" \in Deploying
    BY DEF Deploying, PCs, BuildPCs, StepPCs
  <2>5. QED  BY <1>2, <1>3, <2>1, <2>2, <2>3, <2>4, DeployingMovesOn DEF Effect, Goto
<1>7. QED
  BY <1>4, <1>5, <1>6 DEF GateSuperseded, GateSamplesFailed, GateFindsNothing

\* A goroutine at a pc of Deploying goes to another one (or back to "drive"
\* with its rollout not promoted yet), the row's status unchanged.
LEMMA GotoEffect ==
    ASSUME IInv, NEW t \in tasks, NEW pc \in Deploying, Goto(t, pc),
           t.pc \in Deploying \cup StepPCs,
           OnlyRow(t.d), deploys' = deploys, mode' = mode
    PROVE  Effect(t)
<1>1. At(t, pc).d = t.d /\ At(t, pc).pc = pc
  BY DEF At, NewTask
<1>2. QED  BY <1>1, DrivesDeploying, DeployingMovesOn DEF Effect, Goto

LEMMA StepEffect ==
    ASSUME IInv, NEW t \in tasks, NEW pc \in StepPCs, Goto(t, pc),
           t.pc \in Deploying \cup StepPCs,
           OnlyRow(t.d), deploys' = deploys, mode' = mode,
           rollouts'[t.d].phase \in BeforePromotion
    PROVE  Effect(t)
<1>1. TaskOK(At(t, pc))'
  BY DrivesDeploying DEF TaskOK, At, NewTask, StepPCs, BuildPCs
<1>2. At(t, pc).d = t.d
  BY DEF At, NewTask
<1>3. QED  BY <1>1, <1>2 DEF Effect, MovesOn, Goto

\* The step machine, as long as it writes nothing to the database.
LEMMA DriveEffect ==
    ASSUME IInv, NEW t \in tasks,
           \/ Drive(t) \/ RouteFails(t)
           \/ ProbeUnhealthy(t) \/ ProbeAdvances(t) \/ ProbeAgain(t)
    PROVE  Effect(t)
<1>1. t \in TaskType /\ t.pc \in StepPCs
  BY DEF Drive, RouteFails, ProbeUnhealthy, ProbeAdvances, ProbeAgain, StepPCs,
         IInv, TypeOK
<1>2. UNCHANGED <<deploys, rollouts, jobs, mode>>
  BY DEF Drive, RouteFails, ProbeUnhealthy, ProbeAdvances, ProbeAgain, db, cluster
<1>3. OnlyRow(t.d) /\ rollouts[t.d].phase \in BeforePromotion
  BY <1>1, <1>2, TablesSame DEF IInv, TaskOK
<1>4. CASE \E pc \in {"abort", "promote"} : Goto(t, pc)
  <2>1. \A pc \in {"abort", "promote"} : pc \in Deploying
    BY DEF Deploying, PCs, BuildPCs, StepPCs
  <2>2. QED  BY <1>1, <1>2, <1>3, <1>4, <2>1, GotoEffect
<1>5. CASE \E pc \in StepPCs : Goto(t, pc)
  BY <1>1, <1>2, <1>3, <1>5, StepEffect
<1>6. ASSUME NEW next \in Nat, Become(t, [At(t, "route") EXCEPT !.step = next])
      PROVE  Effect(t)
  <2> DEFINE u == [At(t, "route") EXCEPT !.step = next]
  <2>1. u.d = t.d /\ u.pc = "route"
    BY DEF At, NewTask
  <2>2. TaskOK(u)'
    BY <1>1, <1>2, <1>3, <2>1, DrivesDeploying DEF TaskOK, BuildPCs, StepPCs
  <2>3. QED  BY <1>2, <1>3, <1>6, <2>1, <2>2 DEF Effect, MovesOn
<1>7. CASE Drive(t)
  <2>1. \E pc \in {"abort", "promote", "route", "probe"} : Goto(t, pc)
    BY <1>3, <1>7 DEF Drive, BeforePromotion
  <2>2. QED  BY <1>4, <1>5, <2>1 DEF StepPCs
<1>8. CASE RouteFails(t) \/ ProbeUnhealthy(t)
  BY <1>4, <1>8 DEF RouteFails, ProbeUnhealthy
<1>9. CASE ProbeAdvances(t)
  <2>1. rollouts[t.d].step + 1 \in Nat
    BY Domains DEF IInv, RolloutType
  <2>2. QED  BY <1>4, <1>6, <1>9, <2>1 DEF ProbeAdvances
<1>10. CASE ProbeAgain(t)
  BY <1>5, <1>10 DEF ProbeAgain, StepPCs
<1>11. QED  BY <1>7, <1>8, <1>9, <1>10

\* Writing the phase of the goroutine's rollout.
LEMMA PhaseOnlyRow ==
    ASSUME TypeOK, NEW t \in tasks, NEW phase \in Phases,
           rollouts' = SetRolloutPhase(rollouts, t.d, phase),
           UNCHANGED <<deploys, jobs>>
    PROVE  OnlyRow(t.d) /\ rollouts'[t.d].phase = phase
<1>1. rollouts \in Seq(RolloutType) /\ t.d \in DOMAIN rollouts
  BY Domains DEF TypeOK
<1>2. /\ DOMAIN rollouts' = DOMAIN rollouts /\ rollouts'[t.d].phase = phase
      /\ \A n \in DOMAIN rollouts : n # t.d => rollouts'[n] = rollouts[n]
  BY <1>1, SetRolloutPhaseRows
<1>3. RowStep(t.d)
  BY DEF RowStep
<1>4. QED  BY <1>2, <1>3, Domains DEF OnlyRow

\* The steps that write a rollouts row.
LEMMA PhaseEffect ==
    ASSUME IInv, NEW t \in tasks,
           \/ CleanFail(t) \/ Route(t) \/ Promote(t)
           \/ FinishCanary(t) \/ AbortMark(t)
    PROVE  Effect(t)
<1>1. t \in TaskType /\ TypeOK /\ t.d \in DOMAIN rollouts
  BY Domains DEF IInv, TypeOK
<1>2. UNCHANGED <<deploys, jobs, mode>>
  BY DEF CleanFail, Route, Promote, FinishCanary, AbortMark, cluster
<1>3. t.pc \in Deploying \cup StepPCs
  BY DEF CleanFail, Route, Promote, FinishCanary, AbortMark, Deploying, StepPCs,
         BuildPCs, PCs
<1>4. deploys'[t.d].status = "deploying"
  BY <1>2, <1>3, DrivesDeploying
<1>5. \A pc \in {"fail", "live", "promoteApply", "abortFail"} : pc \in Deploying
  BY DEF Deploying, PCs, BuildPCs, StepPCs
<1>6. ASSUME NEW phase \in Phases, rollouts' = SetRolloutPhase(rollouts, t.d, phase),
             NEW u, u.d = t.d, u.pc \in Deploying, Become(t, u)
      PROVE  Effect(t)
  BY <1>1, <1>2, <1>4, <1>6, PhaseOnlyRow, DeployingMovesOn DEF Effect
<1>7. CASE CleanFail(t) \/ Promote(t)
  <2>1. PICK pc \in {"fail", "promoteApply"}, phase \in {"aborted", "promoting"} :
           /\ rollouts' = SetRolloutPhase(rollouts, t.d, phase)
           /\ Become(t, [t EXCEPT !.pc = pc])
    BY <1>7 DEF CleanFail, Promote
  <2> DEFINE u == [t EXCEPT !.pc = pc]
  <2>2. u.d = t.d /\ u.pc \in Deploying
    BY <1>1, <1>5 DEF TaskType
  <2>3. phase \in Phases /\ Become(t, u)
    BY <2>1 DEF Phases
  <2> HIDE DEF u
  <2>4. QED  BY <1>6, <2>1, <2>2, <2>3
<1>8. CASE FinishCanary(t) \/ AbortMark(t)
  <2>1. PICK pc \in {"live", "abortFail"}, phase \in {"done", "aborted"} :
           /\ rollouts' = SetRolloutPhase(rollouts, t.d, phase)
           /\ Become(t, At(t, pc))
    BY <1>8 DEF FinishCanary, AbortMark, Goto
  <2> DEFINE u == At(t, pc)
  <2>2. u.d = t.d /\ u.pc \in Deploying
    BY <1>5 DEF At, NewTask
  <2>3. phase \in Phases /\ Become(t, u)
    BY <2>1 DEF Phases
  <2> HIDE DEF u
  <2>4. QED  BY <1>6, <2>1, <2>2, <2>3
<1>9. CASE Route(t)
  <2>1. t.step \in Nat /\ "stepping" \in Phases
    BY <1>1 DEF TaskType, Phases
  <2>2. /\ rollouts'[t.d].phase = "stepping"
        /\ \A n \in DOMAIN rollouts : n # t.d => rollouts'[n] = rollouts[n]
    BY <1>1, <1>9, <2>1, PutRollout DEF Route, SetRolloutStep, TypeOK
  <2>3. OnlyRow(t.d)
    BY <1>1, <1>2, <2>2, Domains DEF OnlyRow, RowStep
  <2>4. QED
    BY <1>2, <1>3, <1>9, <2>2, <2>3, StepEffect DEF Route, StepPCs, BeforePromotion
<1>10. QED  BY <1>7, <1>8, <1>9

\* The build: the row stays as it is until Finish.
LEMMA BuildEffect ==
    ASSUME IInv, NEW t \in tasks,
           ApplyBuildJob(t) \/ Reattach(t) \/ BuildSucceeds(t)
    PROVE  Effect(t)
<1>1. deploys[t.d].status = "building" /\ t.ref = 0
  BY DEF IInv, TaskOK, BuildPCs, ApplyBuildJob, Reattach, BuildSucceeds
<1>2. UNCHANGED <<deploys, rollouts, mode>>
  BY DEF ApplyBuildJob, Reattach, BuildSucceeds, db, cluster
<1>3. \A n \in DOMAIN deploys : n # t.d => jobs'[n] = jobs[n]
  BY Domains DEF ApplyBuildJob, Reattach, BuildSucceeds, cluster, IInv
<1>4. OnlyRow(t.d)
  BY <1>2, <1>3 DEF OnlyRow, RowStep
<1>5. PICK pc \in {"wait", "finish"} : Goto(t, pc)
  BY DEF ApplyBuildJob, Reattach, BuildSucceeds
<1>6. At(t, pc).d = t.d /\ At(t, pc).pc = pc /\ At(t, pc).ref = 0
  BY <1>1 DEF At, NewTask
<1>7. TaskOK(At(t, pc))'
  BY <1>1, <1>2, <1>6 DEF TaskOK, BuildPCs, StepPCs
<1>8. QED  BY <1>2, <1>4, <1>5, <1>6, <1>7 DEF Effect, MovesOn, Goto

\* The calls to the cluster that leave the database alone.
LEMMA ApplyEffect ==
    ASSUME IInv, NEW t \in tasks,
           \/ ApplyRolling(t) \/ CanaryApply(t) \/ PromoteApply(t)
           \/ PromoteFails(t) \/ Abort(t) \/ AbortClean(t)
    PROVE  Effect(t)
<1>1. t.pc \in Deploying
  BY DEF ApplyRolling, CanaryApply, PromoteApply, PromoteFails, Abort, AbortClean,
         Deploying, BuildPCs, StepPCs, PCs
<1>2. UNCHANGED <<deploys, rollouts, jobs, mode>>
  BY DEF ApplyRolling, CanaryApply, PromoteApply, PromoteFails, Abort, AbortClean,
         db, cluster
<1>3. OnlyRow(t.d) /\ deploys'[t.d].status = "deploying"
  BY <1>1, <1>2, TablesSame, DrivesDeploying DEF IInv
<1>4. ASSUME StartGate(t)  PROVE Effect(t)
  <2>1. PICK u : u.d = t.d /\ u.pc = "gate" /\ Become(t, u)
    BY <1>4 DEF StartGate, At, NewTask
  <2>2. u.pc \in Deploying
    BY <2>1 DEF Deploying, BuildPCs, StepPCs, PCs
  <2>3. QED  BY <1>2, <1>3, <2>1, <2>2, DeployingMovesOn DEF Effect
<1>5. ASSUME NEW pc \in {"abort", "abortClean", "abortMark"}, Goto(t, pc)
      PROVE  Effect(t)
  <2>1. pc \in Deploying
    BY <1>5 DEF Deploying, BuildPCs, StepPCs, PCs
  <2>2. QED  BY <1>1, <1>2, <1>3, <1>5, <2>1, GotoEffect
<1>6. QED
  BY <1>4, <1>5 DEF ApplyRolling, CanaryApply, PromoteApply, PromoteFails, Abort,
                    AbortClean

\* startCanary, wherever the rollout stands.
LEMMA StartCanaryEffect ==
    ASSUME IInv, NEW t \in tasks, StartCanary(t)
    PROVE  Effect(t)
<1> DEFINE phase == rollouts[t.d].phase
<1>1. t.pc \in Deploying /\ deploys[t.d].status = "deploying"
  BY DrivesDeploying DEF StartCanary, Deploying, BuildPCs, StepPCs, PCs
<1>2. UNCHANGED <<deploys, jobs, mode>>
  BY DEF StartCanary, cluster
<1>3. t.d \in DOMAIN rollouts /\ rollouts[t.d] \in RolloutType /\ phase \in Phases
  BY Domains DEF IInv, RolloutType
<1>4. /\ OnlyRow(t.d)
      /\ phase # "none" => rollouts' = rollouts
  <2>1. CASE rollouts' = rollouts
    BY <1>2, <2>1, TablesSame DEF IInv
  <2>2. CASE rollouts' = [rollouts EXCEPT ![t.d] = Rollout("starting", 0)] /\ phase = "none"
    BY <1>2, <1>3, <2>2, Domains DEF OnlyRow, RowStep, IInv
  <2>3. QED  BY <2>1, <2>2 DEF StartCanary
<1>5. CASE phase \in {"none", "starting"}
  <2>1. Goto(t, "canaryApply") /\ "canaryApply" \in Deploying
    BY <1>5 DEF StartCanary, Deploying, BuildPCs, StepPCs, PCs
  <2>2. QED  BY <1>1, <1>2, <1>4, <2>1, GotoEffect
<1>6. CASE phase = "promoting"
  <2>1. PICK u : u.d = t.d /\ u.pc = "promote" /\ Become(t, u)
    BY <1>6 DEF StartCanary, At, NewTask
  <2>2. u.pc \in Deploying
    BY <2>1 DEF Deploying, BuildPCs, StepPCs, PCs
  <2>3. QED  BY <1>1, <1>2, <1>4, <2>1, <2>2, DeployingMovesOn DEF Effect
<1>7. CASE phase \in {"done", "aborted"}
  <2>1. Stop(t) /\ rollouts' = rollouts
    BY <1>4, <1>7 DEF StartCanary
  <2>2. Explained(t.d)'
    BY <1>1, <1>2, <1>7, <2>1 DEF Explained
  <2>3. QED  BY <1>2, <1>4, <2>1, <2>2 DEF Effect, Leaves
<1>8. CASE phase \in BeforePromotion \ {"starting"}
  <2>1. Goto(t, "drive") /\ rollouts'[t.d].phase \in BeforePromotion
    BY <1>4, <1>8 DEF StartCanary, BeforePromotion
  <2>2. QED  BY <1>1, <1>2, <1>4, <2>1, StepEffect DEF StepPCs
<1>9. QED  BY <1>3, <1>5, <1>6, <1>7, <1>8 DEF Phases, BeforePromotion

\* The steps that write a deployments row.
LEMMA RowEffect ==
    ASSUME IInv, NEW t \in tasks,
           \/ BuildFails(t) \/ ApplyFails(t) \/ Finish(t)
           \/ MarkLive(t) \/ Fail(t) \/ AbortFail(t)
    PROVE  Effect(t)
<1>1. /\ t.d \in DOMAIN deploys /\ deploys[t.d] \in RowType /\ deploys \in Seq(RowType)
      /\ TaskOK(t) /\ RowOK(t.d) /\ t \in TaskType
  BY Domains DEF IInv, TypeOK
<1>2. CASE BuildFails(t) \/ ApplyFails(t)
  <2>1. deploys[t.d].status \in Unfinished /\ FailRow(t)
    BY <1>1, <1>2 DEF BuildFails, ApplyFails, TaskOK, BuildPCs, Unfinished
  <2>2. QED  BY <2>1, FailRowEffect
<1>3. CASE Finish(t)
  <2>1. PICK image \in Nat :
           /\ deploys' = SetImageAndDeploying(deploys, t.d, image)
           /\ \/ deploys[t.d].status = "building" /\ image = t.d
              \/ deploys[t.d].status = "deploying" /\ image = deploys[t.d].image
    <3>1. t.ref \in Nat /\ t.d \in Nat
      BY <1>1 DEF TaskType
    <3>2. CASE deploys[t.d].status = "building" /\ t.ref = 0
      BY <1>3, <3>1, <3>2 DEF Finish
    <3>3. CASE deploys[t.d].status = "deploying" /\ t.ref = deploys[t.d].image
      BY <1>1, <1>3, <3>1, <3>3 DEF Finish, RowOK
    <3>4. QED  BY <1>1, <1>3, <3>2, <3>3 DEF Finish, TaskOK
  <2>2. /\ DOMAIN deploys' = DOMAIN deploys
        /\ deploys'[t.d].status = "deploying" /\ deploys'[t.d].image = image
        /\ deploys'[t.d].from = deploys[t.d].from
        /\ deploys'[t.d].cause = deploys[t.d].cause
        /\ \A n \in DOMAIN deploys : n # t.d => deploys'[n] = deploys[n]
    BY <1>1, <2>1, SetImageRows
  <2>4. RowStep(t.d)
    BY <2>1, <2>2 DEF RowStep
  <2>5. OnlyRow(t.d) /\ mode' = mode
    BY <1>3, <2>2, <2>4 DEF OnlyRow, Finish, cluster
  <2>6. At(t, "apply").d = t.d /\ At(t, "apply").pc \in Deploying
    BY DEF At, NewTask, Deploying, PCs, BuildPCs, StepPCs
  <2>7. Become(t, At(t, "apply"))
    BY <1>3 DEF Finish, Goto
  <2>8. QED  BY <2>2, <2>5, <2>6, <2>7, DeployingMovesOn DEF Effect
<1>4. ASSUME MarkLive(t) \/ Fail(t) \/ AbortFail(t)  PROVE Effect(t)
  <2>1. deploys[t.d].status = "deploying"
    BY <1>1, <1>4 DEF MarkLive, Fail, AbortFail, TaskOK, BuildPCs
  <2>2. PICK status \in {"live", "failed"} :
           /\ deploys' = SetDeploymentStatus(deploys, t.d, status)
           /\ MarkLive(t) \/ AbortFail(t) => Stop(t)
           /\ Fail(t) => status = "failed"
           /\ UNCHANGED <<rollouts, jobs, mode>>
    BY <1>4, <2>1 DEF MarkLive, Fail, AbortFail, cluster
  <2>3. /\ DOMAIN deploys' = DOMAIN deploys
        /\ deploys'[t.d].status = status /\ deploys'[t.d].image = deploys[t.d].image
        /\ deploys'[t.d].from = deploys[t.d].from
        /\ deploys'[t.d].cause = deploys[t.d].cause
        /\ \A n \in DOMAIN deploys : n # t.d => deploys'[n] = deploys[n]
    <3>1. status \in Statuses
      BY DEF Statuses
    <3>2. QED  BY <1>1, <2>2, <3>1, SetDeploymentStatusRows
  <2>4. OnlyRow(t.d)
    BY <2>1, <2>2, <2>3 DEF OnlyRow, RowStep, Unfinished
  <2>5. deploys'[t.d].status = status /\ deploys'[t.d].from = deploys[t.d].from
    BY <1>1, <2>3 DEF RowType
  <2>6. Explained(t.d)'
    BY <2>5 DEF Explained, Unfinished
  <2>7. CASE Stop(t)
    BY <2>2, <2>4, <2>6, <2>7 DEF Effect, Leaves
  <2>8. CASE Fail(t) /\ deploys[t.d].from = 0 /\ Goto(t, "autoRollback")
    <3> DEFINE u == At(t, "autoRollback")
    <3>1. deploys'[t.d].status = "failed" /\ deploys'[t.d].from = 0
      BY <2>2, <2>5, <2>8
    <3>2. \A n \in DOMAIN deploys : deploys[n].cause # t.d
      BY <1>1, <2>1 DEF IInv, RollbackOnce, TaskOK, RowOK
    <3>3. \A n \in DOMAIN deploys' : deploys'[n].cause # t.d
      BY <1>1, <2>3, <3>2 DEF RowType
    <3>4. u.d = t.d /\ u.pc = "autoRollback"
      BY DEF At, NewTask
    <3>5. TaskOK(u)'
      BY <3>1, <3>3, <3>4 DEF TaskOK, BuildPCs, StepPCs
    <3>6. QED  BY <2>2, <2>4, <2>8, <3>4, <3>5 DEF Effect, MovesOn, Goto
  <2>9. QED  BY <1>4, <2>2, <2>7, <2>8 DEF Fail
<1>5. QED  BY <1>2, <1>3, <1>4

LEMMA TaskEffect ==
    ASSUME IInv, NEW t \in tasks, TaskStep(t), ~AutoRollback(t)
    PROVE  Effect(t)
<1>1. CASE NoRollback(t)
  <2>1. UNCHANGED <<deploys, rollouts, jobs, mode>> /\ Stop(t)
    BY <1>1 DEF NoRollback, db, cluster
  <2>2. OnlyRow(t.d)
    BY <2>1, TablesSame DEF IInv
  <2>3. Explained(t.d)'
    BY <1>1, <2>1 DEF NoRollback, IInv, TaskOK, Explained, Unfinished
  <2>4. QED  BY <2>1, <2>2, <2>3 DEF Effect, Leaves
<1>2. QED
  BY <1>1, GateEffect, DriveEffect, PhaseEffect, BuildEffect, ApplyEffect,
     StartCanaryEffect, RowEffect DEF TaskStep

--------------------------------
\* An effect keeps the invariant.

\* The row a goroutine drives has no rollback yet and nothing rolls back to it.
LEMMA NotReferred ==
    ASSUME IInv, NEW t \in tasks, NEW n \in DOMAIN deploys, deploys[n].cause # 0
    PROVE  deploys[n].cause # t.d /\ deploys[n].from # t.d
  BY DEF IInv, TaskOK, RollbackOnce, BuildPCs

LEMMA EffectRows ==
    ASSUME IInv, NEW t \in tasks, OnlyRow(t.d), NEW n \in DOMAIN deploys
    PROVE  RowOK(n)'
<1>1. /\ n \in Nat \ {0} /\ t.d \in DOMAIN deploys /\ RowOK(n)
      /\ deploys[n] \in RowType
  BY Domains DEF IInv
<1>2. CASE n # t.d
  BY <1>1, <1>2 DEF OnlyRow, RowOK
<1>3. CASE n = t.d
  BY <1>1, <1>3 DEF OnlyRow, RowStep, RowOK, Unfinished, RowType
<1>4. QED  BY <1>2, <1>3

LEMMA EffectRollbackOnce ==
    ASSUME IInv, NEW t \in tasks, OnlyRow(t.d)
    PROVE  RollbackOnce'
<1> SUFFICES ASSUME NEW n \in DOMAIN deploys, deploys'[n].cause # 0
             PROVE  LET c == deploys'[n].cause
                        from == deploys'[n].from IN
                    /\ deploys'[c].status = "failed" /\ deploys'[c].from = 0
                    /\ \A m \in DOMAIN deploys : deploys'[m].cause = c => m = n
                    /\ deploys'[from].status = "live"
                    /\ deploys'[from].image = deploys'[n].image
  BY DEF RollbackOnce, OnlyRow
<1> DEFINE c == deploys[n].cause
           from == deploys[n].from
<1>1. \A m \in DOMAIN deploys : /\ deploys'[m].cause = deploys[m].cause
                                /\ deploys'[m].from = deploys[m].from
  BY DEF OnlyRow, RowStep
<1>2. /\ c # 0 /\ RowOK(n) /\ deploys[n] \in RowType /\ n \in 1..Len(deploys)
      /\ DOMAIN deploys = 1..Len(deploys) /\ Len(deploys) \in Nat
  BY <1>1, Domains DEF IInv
<1>3. c \in DOMAIN deploys /\ from \in DOMAIN deploys /\ c # n
  BY <1>2 DEF RowOK
<1>4. c # t.d /\ from # t.d
  BY <1>2, NotReferred
<1>5. deploys'[c] = deploys[c] /\ deploys'[from] = deploys[from]
  BY <1>3, <1>4 DEF OnlyRow
<1>6. /\ deploys[c].status = "failed" /\ deploys[c].from = 0
      /\ \A m \in DOMAIN deploys : deploys[m].cause = c => m = n
      /\ deploys[from].status = "live" /\ deploys[from].image = deploys[n].image
  BY <1>2 DEF IInv, RollbackOnce
<1>7. deploys'[n].image = deploys[n].image
  <2>1. CASE n # t.d
    BY <2>1 DEF OnlyRow
  <2>2. CASE n = t.d
    <3>1. deploys[n].image # 0
      BY <1>3, <1>6 DEF IInv, RowOK
    <3>2. deploys[n].status # "building"
      BY <1>2, <3>1 DEF RowOK
    <3>3. QED  BY <2>2, <3>2 DEF OnlyRow, RowStep
  <2>3. QED  BY <2>1, <2>2
<1>8. QED  BY <1>1, <1>5, <1>6, <1>7

LEMMA EffectDrivers ==
    ASSUME IInv, NEW t \in tasks, Effect(t)
    PROVE  /\ Quiet'
           /\ OneDriver'
           /\ \A x \in tasks' : TaskOK(x)'
           /\ OrphansExplained'
<1>1. \A x \in tasks \ {t} : x.d # t.d /\ x.d \in DOMAIN deploys /\ TaskOK(x)
  BY Domains DEF IInv, OneDriver
<1>2. \A m \in DOMAIN deploys : deploys'[m].cause = deploys[m].cause
  BY DEF Effect, OnlyRow, RowStep
<1>3. ASSUME NEW x \in tasks \ {t}  PROVE TaskOK(x)'
  <2>1. deploys'[x.d] = deploys[x.d] /\ rollouts'[x.d] = rollouts[x.d]
    BY <1>1 DEF Effect, OnlyRow
  <2>2. (\A m \in DOMAIN deploys : deploys[m].cause # x.d)
          => \A m \in DOMAIN deploys' : deploys'[m].cause # x.d
    BY <1>2 DEF Effect, OnlyRow
  <2>3. QED  BY <1>1, <2>1, <2>2 DEF TaskOK
<1>4. ASSUME NEW n \in DOMAIN deploys, n # t.d, mode = "up",
             deploys'[n].status \in Unfinished
      PROVE  (\E x \in tasks \ {t} : x.d = n) \/ Explained(n)'
  <2>1. /\ deploys'[n] = deploys[n] /\ rollouts'[n] = rollouts[n]
        /\ jobs'[n] = jobs[n]
    BY <1>4 DEF Effect, OnlyRow
  <2>2. Driven(n) \/ Explained(n)
    BY <1>4, <2>1 DEF IInv, OrphansExplained, UnfinishedDeployments, Explained
  <2>3. QED  BY <1>4, <2>1, <2>2 DEF Driven, Explained
<1>5. CASE MovesOn(t)
  <2>1. PICK u : u.d = t.d /\ tasks' = (tasks \ {t}) \cup {u} /\ TaskOK(u)'
    BY <1>5 DEF MovesOn, Become
  <2>2. Quiet'
    BY <2>1 DEF Effect, Quiet, IInv
  <2>3. OneDriver'
    BY <1>1, <2>1 DEF OneDriver, IInv
  <2>4. OrphansExplained'
    BY <1>4, <2>1 DEF OrphansExplained, UnfinishedDeployments, Explained, Driven,
                      Effect, OnlyRow
  <2>5. QED  BY <1>3, <2>1, <2>2, <2>3, <2>4
<1>6. CASE Leaves(t)
  <2>1. tasks' = tasks \ {t} /\ Explained(t.d)'
    BY <1>6 DEF Leaves, Stop
  <2>2. Quiet'
    BY <2>1 DEF Effect, Quiet, IInv
  <2>3. OneDriver'
    BY <1>1, <2>1 DEF OneDriver, IInv
  <2>4. OrphansExplained'
    BY <1>4, <2>1 DEF OrphansExplained, UnfinishedDeployments, Explained, Driven,
                      Effect, OnlyRow
  <2>5. QED  BY <1>3, <2>1, <2>2, <2>3, <2>4
<1>7. QED  BY <1>5, <1>6 DEF Effect

LEMMA EffectInv ==
    ASSUME IInv, NEW t \in tasks, Effect(t), TypeOK'
    PROVE  IInv'
<1>1. OnlyRow(t.d) /\ DOMAIN deploys' = DOMAIN deploys
  BY DEF Effect, OnlyRow
<1>2. QED  BY <1>1, EffectRows, EffectRollbackOnce, EffectDrivers DEF IInv

--------------------------------
\* A new row keeps the invariant, whoever adds it.

\* What a new row may say of the deploy that caused it.
Justified(row) ==
    row.cause # 0 =>
      /\ row.cause \in DOMAIN deploys /\ row.from \in DOMAIN deploys
      /\ deploys[row.cause].status = "failed" /\ deploys[row.cause].from = 0
      /\ \A m \in DOMAIN deploys : deploys[m].cause # row.cause
      /\ deploys[row.from].status = "live"
      /\ deploys[row.from].image = row.image

\* What a new row and the goroutine that comes with it must satisfy.
Inserts(n, row) ==
    /\ n = Len(deploys) + 1 /\ row \in RowType
    /\ Insert(row) /\ mode = "up"
    /\ Justified(row) /\ RowOK(n)'
    /\ \A x \in tasks' \ tasks : x.d = n /\ TaskOK(x)'
    /\ \A x, y \in tasks' \ tasks : x = y
    /\ tasks' \subseteq tasks => Explained(n)'
    /\ \A x \in tasks \ tasks' : Explained(x.d)
    /\ \A x \in tasks \cap tasks' : x.d # row.cause

\* The rows there were stay as they are.
Longer(n, row) ==
    /\ n \in Nat \ {0} /\ n \notin DOMAIN deploys
    /\ DOMAIN deploys' = DOMAIN deploys \cup {n}
    /\ deploys'[n] = row /\ mode' = mode
    /\ \A m \in DOMAIN deploys : /\ deploys'[m] = deploys[m]
                                 /\ rollouts'[m] = rollouts[m]
                                 /\ jobs'[m] = jobs[m]
    /\ \A x \in tasks : x.d \in DOMAIN deploys

LEMMA InsertedRows ==
    ASSUME IInv, NEW n, NEW row, Inserts(n, row)
    PROVE  Longer(n, row)
<1>1. TypeOK /\ Len(deploys) \in Nat /\ DOMAIN deploys = 1..Len(deploys)
  BY Domains DEF IInv
<1>2. n = Len(deploys) + 1 /\ row \in RowType /\ Insert(row) /\ mode' = mode
  BY DEF Inserts, Insert
<1>3. /\ DOMAIN deploys' = DOMAIN deploys \cup {Len(deploys) + 1}
      /\ deploys'[Len(deploys) + 1] = row
      /\ \A m \in DOMAIN deploys :
            deploys'[m] = deploys[m] /\ rollouts'[m] = rollouts[m]
            /\ jobs'[m] = jobs[m]
  BY <1>1, <1>2, InsertRow
<1>4. \A x \in tasks : x.d \in DOMAIN deploys
  BY <1>1, Domains
<1>5. n \in Nat \ {0} /\ n \notin DOMAIN deploys
  BY <1>1, <1>2
<1>6. DOMAIN deploys' = DOMAIN deploys \cup {n} /\ deploys'[n] = row
  BY <1>2, <1>3
<1>7. QED  BY <1>2, <1>3, <1>4, <1>5, <1>6 DEF Longer

LEMMA InsertRollbackOnce ==
    ASSUME IInv, NEW n, NEW row, Inserts(n, row)
    PROVE  RollbackOnce'
<1> SUFFICES ASSUME NEW k \in DOMAIN deploys', deploys'[k].cause # 0
             PROVE  LET c == deploys'[k].cause
                        from == deploys'[k].from IN
                    /\ deploys'[c].status = "failed" /\ deploys'[c].from = 0
                    /\ \A m \in DOMAIN deploys' : deploys'[m].cause = c => m = k
                    /\ deploys'[from].status = "live"
                    /\ deploys'[from].image = deploys'[k].image
  BY DEF RollbackOnce
<1>0. Longer(n, row)
  BY InsertedRows
<1>1. CASE k = n
  <2>1. /\ deploys'[k] = row /\ Justified(row) /\ row.cause # 0
    BY <1>1, <1>0 DEF Inserts, Longer
  <2>2. QED  BY <1>1, <2>1, <1>0 DEF Justified, Longer
<1>2. CASE k \in DOMAIN deploys
  <2> DEFINE c == deploys[k].cause
             from == deploys[k].from
  <2>1. /\ deploys'[k] = deploys[k] /\ RowOK(k) /\ c # 0
        /\ DOMAIN deploys = 1..Len(deploys) /\ Len(deploys) \in Nat
    BY <1>2, <1>0, Domains DEF IInv, Longer
  <2>2. c \in DOMAIN deploys /\ from \in DOMAIN deploys
    BY <1>2, <2>1 DEF RowOK
  <2>3. /\ deploys[c].status = "failed" /\ deploys[c].from = 0
        /\ \A m \in DOMAIN deploys : deploys[m].cause = c => m = k
        /\ deploys[from].status = "live" /\ deploys[from].image = deploys[k].image
    BY <1>2, <2>1 DEF IInv, RollbackOnce
  <2>4. row.cause # c
    BY <1>2, <2>1 DEF Inserts, Justified
  <2>5. QED  BY <2>1, <2>2, <2>3, <2>4, <1>0 DEF Longer
<1>3. QED  BY <1>1, <1>2, <1>0 DEF Longer

LEMMA InsertDrivers ==
    ASSUME IInv, NEW n, NEW row, Inserts(n, row)
    PROVE  /\ Quiet'
           /\ OneDriver'
           /\ \A x \in tasks' : TaskOK(x)'
           /\ OrphansExplained'
<1>0. Longer(n, row)
  BY InsertedRows
<1>1. Quiet'
  BY <1>0 DEF Quiet, Inserts, Longer
<1>2. OneDriver'
  BY <1>0 DEF OneDriver, Inserts, IInv, Longer
<1>3. ASSUME NEW x \in tasks'  PROVE TaskOK(x)'
  <2>1. CASE x \notin tasks
    BY <2>1 DEF Inserts
  <2>2. CASE x \in tasks
    <3>1. TaskOK(x) /\ x.d \in DOMAIN deploys /\ x.d # row.cause
      BY <2>2, <1>0 DEF IInv, Inserts, Longer
    <3>2. deploys'[x.d] = deploys[x.d] /\ rollouts'[x.d] = rollouts[x.d]
      BY <3>1, <1>0 DEF Longer
    <3>3. (\A m \in DOMAIN deploys : deploys[m].cause # x.d)
            => \A m \in DOMAIN deploys' : deploys'[m].cause # x.d
      BY <3>1, <1>0 DEF Longer
    <3>4. QED  BY <3>1, <3>2, <3>3 DEF TaskOK
  <2>3. QED  BY <2>1, <2>2
<1>4. OrphansExplained'
  <2> SUFFICES ASSUME NEW k \in DOMAIN deploys', deploys'[k].status \in Unfinished
               PROVE  (\E x \in tasks' : x.d = k) \/ Explained(k)'
    BY DEF OrphansExplained, UnfinishedDeployments, Driven, Explained
  <2>1. CASE k = n
    BY <2>1 DEF Inserts
  <2>2. CASE k \in DOMAIN deploys
    <3>1. /\ deploys'[k] = deploys[k] /\ rollouts'[k] = rollouts[k]
          /\ jobs'[k] = jobs[k] /\ mode = "up"
      BY <2>2, <1>0 DEF Inserts, Longer
    <3>2. Driven(k) \/ Explained(k)
      BY <2>2, <3>1 DEF IInv, OrphansExplained, UnfinishedDeployments, Explained
    <3>3. CASE Explained(k)
      BY <3>1, <3>3 DEF Explained
    <3>4. CASE Driven(k)
      <4>1. PICK x \in tasks : x.d = k
        BY <3>4 DEF Driven
      <4>2. CASE x \in tasks'
        BY <4>1, <4>2
      <4>3. CASE x \notin tasks'
        <5>1. Explained(k)
          BY <4>1, <4>3 DEF Inserts
        <5>2. QED  BY <3>1, <5>1 DEF Explained
      <4>4. QED  BY <4>2, <4>3
    <3>5. QED  BY <3>2, <3>3, <3>4
  <2>3. QED  BY <2>1, <2>2, <1>0 DEF Longer
<1>5. QED  BY <1>1, <1>2, <1>3, <1>4

LEMMA InsertInv ==
    ASSUME IInv, TypeOK', NEW n, NEW row, Inserts(n, row)
    PROVE  IInv'
<1>0. Longer(n, row)
  BY InsertedRows
<1>1. ASSUME NEW k \in DOMAIN deploys'  PROVE RowOK(k)'
  <2>1. CASE k = n
    BY <2>1 DEF Inserts
  <2>2. CASE k \in DOMAIN deploys
    BY <2>2, <1>0 DEF RowOK, IInv, Longer
  <2>3. QED  BY <2>1, <2>2, <1>0 DEF Longer
<1>2. QED  BY <1>1, InsertRollbackOnce, InsertDrivers DEF IInv

\* A user's row: nothing caused it, and the goroutines under way stay.
LEMMA UserInsertInv ==
    ASSUME IInv, TypeOK', ~ServeEarly, ServesRequests,
           NEW n, n = Len(deploys) + 1,
           NEW row \in RowType, Insert(row), row.cause = 0,
           row.image \in 0..n, row.from \in 0..(n - 1),
           \/ /\ row.status = "building" /\ row.image = 0
              /\ tasks' = tasks \/ tasks' = tasks \cup {NewTask(n, "build", 0)}
           \/ /\ row.status = "deploying" /\ row.image # 0
              /\ tasks' = tasks \cup {NewTask(n, "apply", row.image)}
    PROVE  IInv'
<1>1. Len(deploys) \in Nat /\ \A x \in tasks : x.d \in 1..Len(deploys)
  BY Domains DEF IInv
<1>2. n \in Nat \ {0} /\ \A x \in tasks : x.d # n
  BY <1>1
<1>3. deploys'[n] = row /\ jobs'[n] = "none"
  BY InsertRow DEF IInv
<1>4. mode = "up"
  BY DEF ServesRequests
<1>5. RowOK(n)'
  BY <1>2, <1>3 DEF RowOK
<1>6. CASE tasks' = tasks /\ row.status = "building"
  <2>1. Explained(n)'
    BY <1>3, <1>6 DEF Explained
  <2>2. Inserts(n, row)
    BY <1>1, <1>2, <1>4, <1>5, <1>6, <2>1 DEF Inserts, Justified
  <2>3. QED  BY <2>2, InsertInv
<1>7. ASSUME NEW u, u.d = n, tasks' = tasks \cup {u}, TaskOK(u)'
      PROVE  IInv'
  <2>1. u \notin tasks
    BY <1>2, <1>7
  <2>2. \A x \in tasks \cap tasks' : x.d # row.cause
    BY <1>1
  <2>3. Inserts(n, row)
    BY <1>4, <1>5, <1>7, <2>1, <2>2 DEF Inserts, Justified
  <2>4. QED  BY <2>3, InsertInv
<1>8. CASE row.status = "building" /\ tasks' = tasks \cup {NewTask(n, "build", 0)}
  <2> DEFINE u == NewTask(n, "build", 0)
  <2>1. u.d = n /\ u.pc = "build" /\ u.ref = 0
    BY DEF NewTask
  <2>2. TaskOK(u)'
    BY <1>3, <1>8, <2>1 DEF TaskOK, BuildPCs, StepPCs
  <2>3. QED  BY <1>7, <1>8, <2>1, <2>2
<1>9. CASE row.status = "deploying" /\ tasks' = tasks \cup {NewTask(n, "apply", row.image)}
  <2> DEFINE u == NewTask(n, "apply", row.image)
  <2>1. u.d = n /\ u.pc = "apply"
    BY DEF NewTask
  <2>2. TaskOK(u)'
    BY <1>3, <1>9, <2>1 DEF TaskOK, BuildPCs, StepPCs
  <2>3. QED  BY <1>7, <1>9, <2>1, <2>2
<1>10. QED  BY <1>6, <1>8, <1>9

\* Auto-rollback: the goroutine of the failed deploy goes on to the new row.
LEMMA AutoRollbackInv ==
    ASSUME IInv, TypeOK', NEW t \in tasks, AutoRollback(t)
    PROVE  IInv'
<1>1. PICK m \in DOMAIN deploys :
         /\ IsNewest(m, RollbackTargets(deploys))
         /\ Insert(Row("deploying", deploys[m].image, m, t.d))
         /\ Become(t, NewTask(Len(deploys) + 1, "apply", deploys[m].image))
  BY DEF AutoRollback
<1>2. PICK n, row, u : /\ n = Len(deploys) + 1
                       /\ row = Row("deploying", deploys[m].image, m, t.d)
                       /\ u = NewTask(n, "apply", deploys[m].image)
  OBVIOUS
<1>3. /\ row.status = "deploying" /\ row.image = deploys[m].image
      /\ row.from = m /\ row.cause = t.d /\ u.d = n /\ u.pc = "apply"
  BY <1>2 DEF Row, NewTask
<1>4. Insert(row) /\ tasks' = (tasks \ {t}) \cup {u}
  BY <1>1, <1>2 DEF Become
<1>5. /\ Len(deploys) \in Nat /\ DOMAIN deploys = 1..Len(deploys)
      /\ t.d \in DOMAIN deploys /\ \A x \in tasks : x.d \in DOMAIN deploys
  BY Domains DEF IInv
<1>6. /\ deploys[m].status = "live" /\ deploys[m].image # 0
      /\ deploys[m].image \in 0..m
  BY <1>1 DEF IsNewest, RollbackTargets, LiveDeployments, IInv, RowOK
<1>7. /\ deploys[t.d].status = "failed" /\ deploys[t.d].from = 0
      /\ \A k \in DOMAIN deploys : deploys[k].cause # t.d
  BY DEF IInv, TaskOK, AutoRollback
<1>8. row \in RowType /\ Justified(row)
  BY <1>2, <1>3, <1>5, <1>6, <1>7 DEF Justified, Row, RowType, Statuses
<1>9. deploys'[n] = row
  BY <1>2, <1>4, <1>8, InsertRow DEF IInv
<1>10. RowOK(n)'
  BY <1>2, <1>3, <1>5, <1>6, <1>9 DEF RowOK
<1>11. TaskOK(u)'
  BY <1>3, <1>9 DEF TaskOK, BuildPCs, StepPCs
<1>12. u \notin tasks /\ \A x \in tasks \ {t} : x.d # t.d
  BY <1>2, <1>3, <1>5 DEF IInv, OneDriver
<1>13. Explained(t.d) /\ mode = "up"
  BY <1>7 DEF Explained, Unfinished, IInv, Quiet
<1>14. Inserts(n, row)
  BY <1>2, <1>3, <1>4, <1>8, <1>10, <1>11, <1>12, <1>13 DEF Inserts
<1>15. QED  BY <1>14, InsertInv

--------------------------------
\* Every other step, and the theorems.

\* Steps that touch neither the goroutines nor anything IInv says of the rows.
LEMMA SameRowsInv ==
    ASSUME IInv, TypeOK', UNCHANGED <<deploys, tasks, mode>>,
           \A n \in DOMAIN deploys :
             /\ rollouts[n].phase \in BeforePromotion
                  => rollouts'[n].phase \in BeforePromotion
             /\ rollouts[n].phase \in {"done", "aborted"} => rollouts'[n] = rollouts[n]
             /\ jobs[n] = "none" => jobs'[n] = "none"
    PROVE  IInv'
<1>1. Quiet' /\ OneDriver' /\ RollbackOnce' /\ \A n \in DOMAIN deploys' : RowOK(n)'
  BY DEF IInv, Quiet, OneDriver, RollbackOnce, RowOK
<1>2. ASSUME NEW t \in tasks  PROVE TaskOK(t)'
  <2>1. t.d \in DOMAIN deploys /\ TaskOK(t)
    BY Domains DEF IInv
  <2>2. QED  BY <2>1 DEF TaskOK
<1>3. OrphansExplained'
  BY DEF IInv, OrphansExplained, UnfinishedDeployments, Driven
<1>4. QED  BY <1>1, <1>2, <1>3 DEF IInv

LEMMA RequestInv ==
    ASSUME IInv, ~ServeEarly, Request
    PROVE  IInv'
<1>1. TypeOK /\ TypeOK'
  BY TypeRequest DEF IInv
<1>2. PICK n : n = Len(deploys) + 1
  OBVIOUS
<1>3. /\ Len(deploys) \in Nat /\ DOMAIN deploys = 1..Len(deploys)
      /\ n \in Nat \ {0} /\ n - 1 = Len(deploys)
  BY <1>1, <1>2, Domains
<1>4. ASSUME MayDeploy("image") \/ MayDeploy("git") \/ MayDeploy("tarball")
               \/ MayDeploy("redeploy") \/ MayDeploy("rollback")
      PROVE  ServesRequests
  BY <1>4 DEF MayDeploy
<1>5. ASSUME ServesRequests, NEW image \in 1..n, NEW from \in 0..(n - 1),
             Insert(Row("deploying", image, from, 0)), Spawn("apply", image)
      PROVE  IInv'
  <2> DEFINE row == Row("deploying", image, from, 0)
  <2>1. row \in RowType
    BY <1>3, <1>5 DEF Row, RowType, Statuses
  <2>2. /\ row.status = "deploying" /\ row.image = image
        /\ row.from = from /\ row.cause = 0 /\ Insert(row)
    BY <1>5 DEF Row
  <2>3. tasks' = tasks \cup {NewTask(n, "apply", row.image)}
    BY <1>2, <1>5, <2>2 DEF Spawn
  <2>4. row.image \in 0..n /\ row.image # 0 /\ row.from \in 0..(n - 1)
    BY <1>3, <1>5, <2>2
  <2> HIDE DEF row
  <2>5. QED  BY <1>1, <1>2, <1>5, <2>1, <2>2, <2>3, <2>4, UserInsertInv
<1>6. ASSUME ServesRequests, Insert(Row("building", 0, 0, 0)),
             Spawn("build", 0) \/ UNCHANGED tasks
      PROVE  IInv'
  <2> DEFINE row == Row("building", 0, 0, 0)
  <2>1. row \in RowType
    BY DEF Row, RowType, Statuses
  <2>2. /\ row.status = "building" /\ row.image = 0
        /\ row.from = 0 /\ row.cause = 0 /\ Insert(row)
    BY <1>6 DEF Row
  <2>3. tasks' = tasks \/ tasks' = tasks \cup {NewTask(n, "build", 0)}
    BY <1>2, <1>6 DEF Spawn
  <2>4. row.image \in 0..n /\ row.from \in 0..(n - 1)
    BY <1>3, <2>2
  <2> HIDE DEF row
  <2>5. QED  BY <1>1, <1>2, <1>6, <2>1, <2>2, <2>3, <2>4, UserInsertInv
<1>7. \A m \in DOMAIN deploys :
         deploys[m].image # 0 => deploys[m].image \in 1..n /\ m \in 0..(n - 1)
  BY <1>3 DEF IInv, RowOK
<1>8. CASE DeployImage
  <2>1. n \in 1..n /\ 0 \in 0..(n - 1)
    BY <1>3
  <2>2. /\ ServesRequests /\ Insert(Row("deploying", n, 0, 0)) /\ Spawn("apply", n)
    BY <1>2, <1>4, <1>8 DEF DeployImage
  <2>3. QED  BY <1>5, <2>1, <2>2
<1>9. CASE DeploySource
  BY <1>4, <1>6, <1>9 DEF DeploySource
<1>10. CASE UploadFails
  BY <1>4, <1>6, <1>10 DEF UploadFails
<1>11. CASE Redeploy
  <2> DEFINE image == deploys[Latest].image
  <2>1. /\ ServesRequests /\ Latest \in DOMAIN deploys /\ image # 0
        /\ Insert(Row("deploying", image, 0, 0)) /\ Spawn("apply", image)
    BY <1>3, <1>4, <1>11 DEF Redeploy, Latest, LatestDeployment
  <2>2. image \in 1..n /\ 0 \in 0..(n - 1)
    BY <1>3, <1>7, <2>1
  <2>3. QED  BY <1>5, <2>1, <2>2
<1>12. CASE Rollback
  <2>1. PICK m \in DOMAIN deploys :
           /\ deploys[m].image # 0 /\ ServesRequests
           /\ Insert(Row("deploying", deploys[m].image, m, 0))
           /\ Spawn("apply", deploys[m].image)
    BY <1>4, <1>12 DEF Rollback, WithImage
  <2>2. QED  BY <1>5, <1>7, <2>1
<1>13. CASE RequestRollout
  <2>1. PICK k \in DOMAIN rollouts, phase \in {"promote-requested", "abort-requested"} :
           /\ MayRequest(rollouts, k)
           /\ rollouts' = SetRolloutPhase(rollouts, k, phase)
    BY <1>13 DEF RequestRollout
  <2>2. /\ rollouts'[k].phase = phase
        /\ \A m \in DOMAIN rollouts : m # k => rollouts'[m] = rollouts[m]
    <3>1. phase \in Phases /\ rollouts \in Seq(RolloutType)
      BY <1>1 DEF TypeOK, Phases
    <3>2. QED  BY <2>1, <3>1, SetRolloutPhaseRows
  <2>3. UNCHANGED <<deploys, tasks, mode, jobs>>
    BY <1>13 DEF RequestRollout, cluster, process
  <2>4. QED
    BY <1>1, <2>1, <2>2, <2>3, SameRowsInv, Domains DEF MayRequest, BeforePromotion
<1>14. CASE SetPolicy \/ SyncRead \/ SyncApply
  <2>1. UNCHANGED <<deploys, rollouts, jobs, tasks, mode>>
    BY <1>14 DEF SetPolicy, SyncRead, SyncApply, db, cluster, process
  <2>2. QED  BY <1>1, <2>1, SameRowsInv
<1>15. QED
  BY <1>8, <1>9, <1>10, <1>11, <1>12, <1>13, <1>14 DEF Request

LEMMA ClusterInv ==
    ASSUME IInv, ClusterStep
    PROVE  IInv'
<1>1. TypeOK /\ TypeOK'
  BY TypeClusterStep DEF IInv
<1>2. UNCHANGED <<deploys, rollouts, tasks, mode>>
  BY DEF ClusterStep, StableReady, StableBroken, CanaryReady, CanaryBroken,
         JobEnds, JobExpires, db, process
<1>3. ASSUME NEW n \in DOMAIN deploys, jobs[n] = "none"  PROVE jobs'[n] = "none"
  <2>1. CASE jobs' = jobs
    BY <1>3, <2>1
  <2>2. ASSUME NEW k \in DOMAIN jobs, JobEnds(k) \/ JobExpires(k)
        PROVE  jobs'[n] = "none"
    <3>1. PICK end \in JobStates : jobs' = [jobs EXCEPT ![k] = end]
      BY <2>2 DEF JobEnds, JobExpires, JobStates
    <3>2. k # n
      BY <1>3, <2>2 DEF JobEnds, JobExpires
    <3>3. n \in DOMAIN jobs
      BY <1>1, Domains
    <3>4. QED  BY <1>3, <3>1, <3>2, <3>3
  <2>3. QED
    BY <2>1, <2>2 DEF ClusterStep, StableReady, StableBroken, CanaryReady, CanaryBroken
<1>4. QED  BY <1>1, <1>2, <1>3, SameRowsInv

LEMMA ServerInv ==
    ASSUME IInv, ServerStep
    PROVE  IInv'
<1>1. TypeOK /\ TypeOK' /\ UNCHANGED <<deploys, rollouts, jobs>>
  BY TypeServerStep DEF IInv, ServerStep, Crash, Restart, Reconcile, db, cluster
<1>2. RollbackOnce' /\ \A n \in DOMAIN deploys' : RowOK(n)'
  BY <1>1 DEF IInv, RollbackOnce, RowOK
<1>3. CASE Crash \/ Restart
  <2>1. tasks' = {} /\ mode' \in {"down", "starting"}
    BY <1>3 DEF Crash, Restart, IInv, Quiet
  <2>2. QED  BY <1>1, <1>2, <2>1 DEF IInv, Quiet, OneDriver, OrphansExplained
<1>4. CASE Reconcile
  <2>1. /\ mode' = "up"
        /\ tasks' = {NewTask(n, IF deploys[n].status = "building" THEN "reattach"
                                ELSE "finish", deploys[n].image) :
                       n \in UnfinishedDeployments(deploys)}
    BY <1>4 DEF Reconcile, IInv, Quiet
  <2>2. \A x \in tasks' : /\ x.d \in UnfinishedDeployments(deploys)
                          /\ x = NewTask(x.d, IF deploys[x.d].status = "building"
                                   THEN "reattach" ELSE "finish", deploys[x.d].image)
    BY <2>1 DEF NewTask
  <2>3. ASSUME NEW n \in UnfinishedDeployments(deploys)
        PROVE  \E x \in tasks' : x.d = n
    <3> DEFINE x == NewTask(n, IF deploys[n].status = "building" THEN "reattach"
                               ELSE "finish", deploys[n].image)
    <3>1. x \in tasks'
      BY <2>1
    <3>2. x.d = n
      BY DEF NewTask
    <3>3. QED  BY <3>1, <3>2
  <2>4. ASSUME NEW x \in tasks'  PROVE TaskOK(x)'
    <3>1. /\ deploys[x.d].status \in Unfinished /\ RowOK(x.d)
          /\ x.pc = IF deploys[x.d].status = "building" THEN "reattach" ELSE "finish"
          /\ x.ref = deploys[x.d].image
      BY <2>2 DEF UnfinishedDeployments, IInv, NewTask
    <3>2. TaskOK(x)
      BY <3>1 DEF TaskOK, RowOK, Unfinished, BuildPCs, StepPCs
    <3>3. QED  BY <1>1, <3>2 DEF TaskOK
  <2>5. OneDriver'
    BY <2>2 DEF OneDriver
  <2>6. OrphansExplained'
    BY <1>1, <2>3 DEF OrphansExplained, UnfinishedDeployments, Driven
  <2>7. QED  BY <1>1, <1>2, <2>1, <2>4, <2>5, <2>6 DEF IInv, Quiet
<1>5. QED  BY <1>3, <1>4 DEF ServerStep

\* The invariant holds, if requests wait for reconciliation.
THEOREM Inductive ==
    ASSUME ~ServeEarly
    PROVE  Spec => []IInv
<1>1. Init => IInv
  <2> SUFFICES ASSUME Init  PROVE IInv
    OBVIOUS
  <2>1. TypeOK
    BY InitType
  <2>2. DOMAIN deploys = {} /\ tasks = {}
    BY EmptySeq, LenProperties DEF Init
  <2>3. QED
    BY <2>1, <2>2 DEF IInv, Quiet, OneDriver, RollbackOnce, OrphansExplained,
                      UnfinishedDeployments
<1>2. IInv /\ [Next]_vars => IInv'
  <2> SUFFICES ASSUME IInv, [Next]_vars  PROVE IInv'
    OBVIOUS
  <2>1. CASE \E t \in tasks : TaskStep(t)
    <3>1. PICK t \in tasks : TaskStep(t)
      BY <2>1
    <3>2. TypeOK'
      BY <3>1, TypeTaskStep DEF IInv
    <3>3. CASE AutoRollback(t)
      BY <3>2, <3>3, AutoRollbackInv
    <3>4. CASE ~AutoRollback(t)
      BY <3>1, <3>2, <3>4, TaskEffect, EffectInv
    <3>5. QED  BY <3>3, <3>4
  <2>2. CASE UNCHANGED vars
    <3>1. TypeOK'
      BY <2>2 DEF vars, db, cluster, process, TypeOK, IInv
    <3>2. QED  BY <2>2, <3>1, SameRowsInv DEF vars, db, cluster, process
  <2>3. QED
    BY <2>1, <2>2, RequestInv, ClusterInv, ServerInv DEF Next
<1>3. QED  BY <1>1, <1>2, PTL DEF Spec

\* No two goroutines drive one deploy, through any number of crashes,
\* overlapping deploys and failing calls.
THEOREM OneDriverAlways ==
    ASSUME ~ServeEarly
    PROVE  Spec => []OneDriver
<1>1. IInv => OneDriver
  BY DEF IInv
<1>2. QED  BY <1>1, Inductive, PTL

\* The two ways in which the code loses the driver of a deploy are the only ones.
THEOREM OrphansExplainedAlways ==
    ASSUME ~ServeEarly
    PROVE  Spec => []OrphansExplained
<1>1. IInv => OrphansExplained
  BY DEF IInv
<1>2. QED  BY <1>1, Inductive, PTL

\* A failed deploy is rolled back at most once, to an image that is live, and
\* a rollback never is.
THEOREM RollbackOnceAlways ==
    ASSUME ~ServeEarly
    PROVE  Spec => []RollbackOnce
<1>1. IInv => RollbackOnce
  BY DEF IInv
<1>2. QED  BY <1>1, Inductive, PTL

--------------------------------
\* The deployments table, driven by module Deploy, implements module
\* DeployLifecycle: the step of a goroutine writes at most the row it
\* drives, as RowStep allows, and a new row starts as Lifecycle!Add says.
\* The invariant IInv is what excludes a write to a settled row.

EntryType == [status : Statuses, image : Nat]

Entry(row) == [status |-> row.status, image |-> row.image]

LEMMA HistoryRows ==
    ASSUME NEW rows \in Seq(RowType), NEW h,
           h = [n \in DOMAIN rows |-> [status |-> rows[n].status, image |-> rows[n].image]]
    PROVE  /\ h \in Seq(EntryType)
           /\ Len(h) = Len(rows) /\ DOMAIN h = DOMAIN rows
           /\ \A n \in DOMAIN rows : h[n] = Entry(rows[n])
<1>1. /\ DOMAIN rows = 1..Len(rows) /\ Len(rows) \in Nat
      /\ \A n \in DOMAIN rows : rows[n] \in RowType
  BY LenProperties
<1>2. \A n \in DOMAIN rows : Entry(rows[n]) \in EntryType
  BY <1>1 DEF Entry, EntryType, RowType
<1>3. h = [n \in 1..Len(rows) |-> Entry(rows[n])]
  BY <1>1 DEF Entry
<1>4. h \in [1..Len(rows) -> EntryType]
  BY <1>1, <1>2, <1>3
<1>5. h \in Seq(EntryType) /\ Len(h) = Len(rows)
  BY <1>1, <1>4, SeqDef, LenProperties
<1>6. QED  BY <1>1, <1>3, <1>5

\* One entry of the history replaced, or one added, is what the rows say.
LEMMA HistoryPut ==
    ASSUME TypeOK, TypeOK', DOMAIN deploys' = DOMAIN deploys,
           NEW d \in DOMAIN deploys,
           \A n \in DOMAIN deploys : n # d => deploys'[n] = deploys[n]
    PROVE  history' = [history EXCEPT ![d] = Entry(deploys'[d])]
<1> DEFINE e == Entry(deploys'[d])
           h == [history EXCEPT ![d] = e]
<1>0. deploys \in Seq(RowType) /\ deploys' \in Seq(RowType)
  BY DEF TypeOK
<1>1. /\ history \in Seq(EntryType) /\ DOMAIN history = DOMAIN deploys
      /\ Len(history) = Len(deploys)
      /\ \A n \in DOMAIN deploys : history[n] = Entry(deploys[n])
  BY <1>0, HistoryRows DEF history
<1>2. /\ history' \in Seq(EntryType) /\ DOMAIN history' = DOMAIN deploys'
      /\ Len(history') = Len(deploys')
      /\ \A n \in DOMAIN deploys' : history'[n] = Entry(deploys'[n])
  BY <1>0, HistoryRows DEF history
<1>3. e \in EntryType
  BY <1>2, LenProperties
<1> HIDE DEF e
<1>4. /\ h \in Seq(EntryType) /\ Len(h) = Len(history) /\ h[d] = e
      /\ \A n \in DOMAIN deploys : n # d => h[n] = history[n]
  BY <1>1, <1>3, PutRow
<1>5. \A n \in DOMAIN deploys : history'[n] = h[n]
  BY <1>1, <1>2, <1>4 DEF e
<1>6. Len(deploys') = Len(deploys) /\ DOMAIN deploys = 1..Len(deploys)
  BY <1>0, LenProperties
<1> HIDE DEF h
<1>7. history' = h
  BY <1>1, <1>2, <1>4, <1>5, <1>6, SeqEqual
<1>8. QED  BY <1>7 DEF h, e

LEMMA HistoryAdd ==
    ASSUME TypeOK, TypeOK', NEW n, n = Len(deploys) + 1,
           Len(deploys') = n, DOMAIN deploys' = DOMAIN deploys \cup {n},
           \A m \in DOMAIN deploys : deploys'[m] = deploys[m]
    PROVE  history' = Append(history, Entry(deploys'[n]))
<1> DEFINE e == Entry(deploys'[n])
           h == Append(history, e)
<1>0. deploys \in Seq(RowType) /\ deploys' \in Seq(RowType)
  BY DEF TypeOK
<1>1. /\ history \in Seq(EntryType) /\ DOMAIN history = DOMAIN deploys
      /\ Len(history) = Len(deploys)
      /\ \A m \in DOMAIN deploys : history[m] = Entry(deploys[m])
  BY <1>0, HistoryRows DEF history
<1>2. /\ history' \in Seq(EntryType) /\ DOMAIN history' = DOMAIN deploys'
      /\ Len(history') = Len(deploys')
      /\ \A m \in DOMAIN deploys' : history'[m] = Entry(deploys'[m])
  BY <1>0, HistoryRows DEF history
<1>3. e \in EntryType
  BY <1>2, LenProperties
<1> HIDE DEF e
<1>4. /\ h \in Seq(EntryType) /\ Len(h) = n /\ h[n] = e
      /\ \A m \in DOMAIN deploys : h[m] = history[m]
  BY <1>1, <1>3, AddRow
<1>5. \A m \in DOMAIN deploys' : history'[m] = h[m]
  BY <1>1, <1>2, <1>4 DEF e
<1>6. Len(deploys') = n /\ DOMAIN deploys' = 1..n
  BY <1>0, LenProperties
<1> HIDE DEF h
<1>7. history' = h
  BY <1>2, <1>4, <1>5, <1>6, SeqEqual
<1>8. QED  BY <1>7 DEF h, e

--------------------------------
\* A step that writes at most one row, as RowStep allows.
LEMMA OnlyRowRefines ==
    ASSUME TypeOK, TypeOK', NEW d \in DOMAIN deploys, OnlyRow(d)
    PROVE  Lifecycle!Next \/ UNCHANGED history
<1> DEFINE old == deploys[d]
           new == deploys'[d]
<1>1. /\ history' = [history EXCEPT ![d] = Entry(new)]
      /\ d \in DOMAIN history /\ history[d] = Entry(old)
      /\ history \in [DOMAIN deploys -> EntryType]
  <2>1. history' = [history EXCEPT ![d] = Entry(new)]
    BY HistoryPut DEF OnlyRow
  <2>2. deploys \in Seq(RowType)
    BY DEF TypeOK
  <2>3. /\ history \in Seq(EntryType) /\ DOMAIN history = DOMAIN deploys
        /\ history[d] = Entry(old)
    BY <2>2, HistoryRows DEF history
  <2>4. history \in [DOMAIN deploys -> EntryType]
    BY <2>3, LenProperties
  <2>5. QED  BY <2>1, <2>3, <2>4
<1>2. CASE new.status = old.status /\ new.image = old.image
  BY <1>1, <1>2 DEF Entry
<1>3. CASE /\ old.status \in Unfinished
           /\ new.status = "failed" /\ new.image = old.image
  <2>1. [history[d] EXCEPT !.status = "failed"] = Entry(new)
    BY <1>1, <1>3 DEF Entry
  <2>2. [history EXCEPT ![d].status = "failed"]
          = [history EXCEPT ![d] = [history[d] EXCEPT !.status = "failed"]]
    OBVIOUS
  <2>3. history' = [history EXCEPT ![d].status = "failed"]
    BY <1>1, <2>1, <2>2
  <2>4. history[d].status \in {"building", "deploying"}
    BY <1>1, <1>3 DEF Entry, Unfinished
  <2>5. Lifecycle!Fails(d)
    BY <2>3, <2>4 DEF Lifecycle!Fails
  <2>6. QED  BY <1>1, <2>5 DEF Lifecycle!Next
<1>4. CASE /\ old.status = "deploying"
           /\ new.status = "live" /\ new.image = old.image
  <2>1. [history[d] EXCEPT !.status = "live"] = Entry(new)
    BY <1>1, <1>4 DEF Entry
  <2>2. [history EXCEPT ![d].status = "live"]
          = [history EXCEPT ![d] = [history[d] EXCEPT !.status = "live"]]
    OBVIOUS
  <2>3. history' = [history EXCEPT ![d].status = "live"]
    BY <1>1, <2>1, <2>2
  <2>4. history[d].status = "deploying"
    BY <1>1, <1>4 DEF Entry
  <2>5. Lifecycle!GoesLive(d)
    BY <2>3, <2>4 DEF Lifecycle!GoesLive
  <2>6. QED  BY <1>1, <2>5 DEF Lifecycle!Next
<1>5. CASE /\ old.status = "building"
           /\ new.status = "deploying" /\ new.image = d
  <2>1. Lifecycle!Built(d)
    BY <1>1, <1>5 DEF Lifecycle!Built, Lifecycle!Entry, Entry
  <2>2. QED  BY <1>1, <2>1 DEF Lifecycle!Next
<1>6. QED  BY <1>2, <1>3, <1>4, <1>5 DEF OnlyRow, RowStep

\* A new row, whose image RowOK bounds.
LEMMA InsertRefines ==
    ASSUME IInv, IInv', NEW row \in RowType, Insert(row), row.status \in Unfinished
    PROVE  Lifecycle!Next
<1>1. PICK n : n = Len(deploys) + 1
  OBVIOUS
<1>2. /\ Len(deploys') = n /\ DOMAIN deploys' = DOMAIN deploys \cup {n}
      /\ deploys'[n] = row /\ n \in DOMAIN deploys'
      /\ \A m \in DOMAIN deploys : deploys'[m] = deploys[m]
  BY <1>1, InsertRow DEF IInv
<1>3. history' = Append(history, Entry(row))
  BY <1>1, <1>2, HistoryAdd DEF IInv
<1>4. Len(history) + 1 = n /\ n \in Nat
  <2>1. deploys \in Seq(RowType)
    BY DEF IInv, TypeOK
  <2>2. Len(history) = Len(deploys)
    BY <2>1, HistoryRows DEF history
  <2>3. QED  BY <1>1, <2>1, <2>2, LenProperties
<1>5. /\ row.image \in 0..n
      /\ row.status = "building" => row.image = 0
      /\ row.status = "deploying" => row.image # 0
  BY <1>2 DEF IInv, RowOK
<1>6. Lifecycle!Add
  BY <1>3, <1>4, <1>5 DEF Lifecycle!Add, Lifecycle!Entry, Entry, Unfinished
<1>7. QED  BY <1>6 DEF Lifecycle!Next

LEMMA NextRefines ==
    ASSUME IInv, IInv', [Next]_vars
    PROVE  Lifecycle!Next \/ UNCHANGED history
<1>1. CASE UNCHANGED deploys
  BY <1>1 DEF history
<1>2. ASSUME NEW row \in RowType, Insert(row), row.status \in Unfinished
      PROVE  Lifecycle!Next
  BY <1>2, InsertRefines
<1>3. CASE Request
  <2>1. \A status \in {"building", "deploying"}, image, from \in Nat :
           /\ Row(status, image, from, 0).status \in Unfinished
           /\ image \in Nat => Row(status, image, from, 0) \in RowType
    BY DEF Row, RowType, Statuses, Unfinished
  <2>2. /\ Len(deploys) \in Nat
        /\ \A m \in DOMAIN deploys : m \in Nat /\ deploys[m].image \in Nat
    BY Domains DEF IInv, RowType
  <2>3. \/ UNCHANGED deploys
        \/ \E status \in {"building", "deploying"}, image, from \in Nat :
             Insert(Row(status, image, from, 0))
    BY <1>3, <2>2
       DEF Request, DeployImage, DeploySource, UploadFails, Redeploy, Rollback,
           RequestRollout, SetPolicy, SyncRead, SyncApply, WithImage, db,
           Latest, LatestDeployment
  <2>4. QED  BY <1>1, <1>2, <2>1, <2>3
<1>4. ASSUME NEW t \in tasks, TaskStep(t)
      PROVE  Lifecycle!Next \/ UNCHANGED history
  <2>1. CASE AutoRollback(t)
    <3>1. PICK m \in DOMAIN deploys :
             Insert(Row("deploying", deploys[m].image, m, t.d))
      BY <2>1 DEF AutoRollback
    <3>2. /\ Row("deploying", deploys[m].image, m, t.d) \in RowType
          /\ Row("deploying", deploys[m].image, m, t.d).status \in Unfinished
      BY Domains DEF Row, RowType, Statuses, Unfinished, IInv
    <3>3. QED  BY <1>2, <3>1, <3>2
  <2>2. CASE ~AutoRollback(t)
    BY <1>4, <2>2, TaskEffect, OnlyRowRefines, Domains DEF Effect, IInv
  <2>3. QED  BY <2>1, <2>2
<1>5. QED
  <2>1. ClusterStep \/ ServerStep \/ UNCHANGED vars => UNCHANGED deploys
    BY DEF ClusterStep, StableReady, StableBroken, CanaryReady, CanaryBroken,
           JobEnds, JobExpires, ServerStep, Crash, Restart, Reconcile, vars, db
  <2>2. QED  BY <1>1, <1>3, <1>4, <2>1 DEF Next

\* The deployments table implements its abstract specification: whatever the
\* goroutines, the cluster and the crashes do, a reader of the history sees
\* rows added, built, going live and failing, and nothing else.
THEOREM Refinement ==
    ASSUME ~ServeEarly
    PROVE  Spec => LifecycleSpec
<1>1. Init => Lifecycle!Init
  <2>1. Init => history = <<>>
    BY HistoryRows, EmptySeq DEF Init, history
  <2>2. QED  BY <2>1 DEF Lifecycle!Init
<1>2. IInv /\ IInv' /\ [Next]_vars => [Lifecycle!Next]_history
  BY NextRefines
<1>3. QED  BY <1>1, <1>2, Inductive, PTL DEF Spec, LifecycleSpec, Lifecycle!Spec

--------------------------------
\* What the cluster and the rows say of each other.  Deploys come one at a
\* time here: a request waits for the deploy before it, and for the syncs.

OneAtATime == ~Overlap /\ ~ServeEarly /\ MaxEdits = 0

\* The pcs at which a rollout is ended one way or the other.
EndingPCs == {"promote", "cleanFail", "finishCanary", "abort", "abortClean", "abortMark", "abortFail"}

\* The copy a goroutine holds of its row's image.  Only the latest deploy's
\* may do more than find out that its rollout is over, or that it has no Job.
TurnOK(t) ==
    LET row == deploys[t.d]
        phase == rollouts[t.d].phase
    IN  /\ t.ref \in {0, row.image}
        /\ t.d # Latest => \/ t.pc = "reattach"
                           \/ t.pc \in {"finish", "apply"} /\ row.status = "deploying"
        /\ t.pc = "canaryApply" => phase \in BeforePromotion
        /\ t.pc = "promoteApply" => phase = "promoting"
        /\ t.pc \in EndingPCs => phase # "none"

\* A deploy that is going to be a canary has not reached the app's Deployment.
Untouched ==
    /\ Latest # 0 /\ deploys[Latest].status \in Unfinished
    /\ DeployStrategy(Latest) = "canary"
    /\ rollouts[Latest].phase \in {"none"} \cup BeforePromotion
    => stable.image # Latest

\* A rollout is of a deploy that is no rollback, under a policy that has canaries.
RolledOut(n) ==
    rollouts[n].phase # "none" => deploys[n].from = 0 /\ policy.strategy = "canary"

\* A sync holds the image of the latest deploy, which is live.
SyncsInTurn ==
    \A image \in syncs :
       Latest # 0 /\ deploys[Latest].status = "live" /\ image = deploys[Latest].image

TurnInv ==
    /\ \A n \in DOMAIN deploys : n # Latest => Explained(n)
    /\ \A n \in DOMAIN deploys : RolledOut(n)
    /\ SyncsInTurn
    /\ stable.image <= Latest /\ Untouched
    /\ \A t \in tasks : TurnOK(t)

--------------------------------
LEMMA TurnFacts ==
    ASSUME TypeOK
    PROVE  /\ Latest = Len(deploys) /\ Latest \in Nat /\ DOMAIN deploys = 1..Latest
           /\ DOMAIN rollouts = 1..Latest /\ DOMAIN jobs = 1..Latest
           /\ stable.image \in Nat
           /\ Latest # 0 => Latest \in DOMAIN deploys
           /\ \A t \in tasks : t \in TaskType /\ t.d \in DOMAIN deploys
           /\ \A n \in DOMAIN deploys : deploys[n] \in RowType /\ rollouts[n] \in RolloutType
  BY Domains DEF TypeOK, Latest, LatestDeployment

LEMMA TurnFactsNext ==
    ASSUME TypeOK'
    PROVE  DOMAIN deploys' = 1..Latest' /\ Latest' \in Nat
  BY LenProperties DEF TypeOK, Latest, LatestDeployment

\* A goroutine keeps its deploy and its copy of the image.
LEMMA StepKeepsCopy ==
    ASSUME IInv, NEW t \in tasks, TaskStep(t), ~AutoRollback(t)
    PROVE  /\ UNCHANGED <<policy, mode, syncs, used>>
           /\ tasks \ {t} \subseteq tasks'
           /\ \A x \in tasks' : x \in tasks \ {t} \/ (x.d = t.d /\ x.ref = t.ref)
<1>0. t \in TaskType
  BY DEF IInv, TypeOK
<1>1. ASSUME NEW u, u.d = t.d, u.ref = t.ref, Become(t, u)
      PROVE  /\ tasks \ {t} \subseteq tasks'
             /\ \A x \in tasks' : x \in tasks \ {t} \/ (x.d = t.d /\ x.ref = t.ref)
  BY <1>1 DEF Become
<1>2. ASSUME NEW pc, Goto(t, pc)
      PROVE  \E u : u.d = t.d /\ u.ref = t.ref /\ Become(t, u)
  BY <1>2 DEF Goto, At, NewTask
<1>3. ASSUME Stop(t)
      PROVE  /\ tasks \ {t} \subseteq tasks'
             /\ \A x \in tasks' : x \in tasks \ {t} \/ (x.d = t.d /\ x.ref = t.ref)
  BY <1>3 DEF Stop
<1>4. CASE ApplyBuildJob(t) \/ Reattach(t) \/ BuildSucceeds(t) \/ Finish(t) \/ CanaryApply(t) \/ ApplyRolling(t)
  <2>1. ASSUME StartGate(t)
        PROVE  \E u : u.d = t.d /\ u.ref = t.ref /\ Become(t, u)
    BY <2>1 DEF StartGate, At, NewTask
  <2>2. QED
    BY <1>1, <1>2, <1>4, <2>1 DEF ApplyBuildJob, Reattach, BuildSucceeds, Finish, CanaryApply, ApplyRolling, db, cluster
<1>5. CASE BuildFails(t) \/ ApplyFails(t) \/ MarkLive(t) \/ NoRollback(t) \/ AbortFail(t)
  BY <1>3, <1>5 DEF BuildFails, ApplyFails, FailRow, MarkLive, NoRollback, AbortFail, db, cluster
<1>6. CASE StartCanary(t)
  <2>1. UNCHANGED <<policy, mode, syncs, used>>
    BY <1>6 DEF StartCanary
  <2>2. t.d \in DOMAIN rollouts /\ rollouts[t.d].phase \in Phases
    BY Domains DEF IInv, RolloutType
  <2>3. \/ \E pc \in PCs : Goto(t, pc)
        \/ Become(t, [At(t, "promote") EXCEPT !.resumed = TRUE])
        \/ Stop(t)
    BY <1>6, <2>2 DEF StartCanary, PCs, Phases
  <2>4. ASSUME Become(t, [At(t, "promote") EXCEPT !.resumed = TRUE])
        PROVE  \E u : u.d = t.d /\ u.ref = t.ref /\ Become(t, u)
    BY <2>4 DEF At, NewTask
  <2>5. QED  BY <1>1, <1>2, <1>3, <2>1, <2>3, <2>4
<1>7. CASE GateCheck(t) \/ CleanFail(t) \/ Promote(t)
  <2>1. PICK pc \in PCs : Become(t, [t EXCEPT !.pc = pc])
    BY <1>7 DEF GateCheck, CleanFail, Promote, PCs
  <2>2. [t EXCEPT !.pc = pc].d = t.d /\ [t EXCEPT !.pc = pc].ref = t.ref
    BY <1>0 DEF TaskType
  <2>3. UNCHANGED <<policy, mode, syncs, used>>
    BY <1>7 DEF GateCheck, CleanFail, Promote, db, cluster
  <2>4. QED  BY <1>1, <2>1, <2>2, <2>3
<1>8. CASE GateSuperseded(t) \/ GateSamplesFailed(t) \/ GateFindsNothing(t)
  <2>1. PICK rb \in BOOLEAN : GateFailed(t, rb)
    BY <1>8 DEF GateSuperseded, GateSamplesFailed, GateFindsNothing
  <2>2. \E u : u.d = t.d /\ u.ref = t.ref /\ Become(t, u)
    BY <2>1 DEF GateFailed, At, NewTask
  <2>3. UNCHANGED <<policy, mode, syncs, used>>
    BY <1>8 DEF GateSuperseded, GateSamplesFailed, GateFindsNothing, db, cluster
  <2>4. QED  BY <1>1, <2>2, <2>3
<1>9. CASE GateSamplesDone(t) \/ RouteFails(t) \/ Route(t) \/ ProbeUnhealthy(t) \/ ProbeAgain(t) \/ PromoteFails(t)
           \/ FinishCanary(t) \/ Abort(t) \/ AbortClean(t) \/ AbortMark(t)
  <2>1. \E pc : Goto(t, pc)
    BY <1>9 DEF GateSamplesDone, GateDone, RouteFails, Route, ProbeUnhealthy, ProbeAgain, PromoteFails,
                FinishCanary, Abort, AbortClean, AbortMark
  <2>2. UNCHANGED <<policy, mode, syncs, used>>
    BY <1>9 DEF GateSamplesDone, RouteFails, Route, ProbeUnhealthy, ProbeAgain, PromoteFails,
                FinishCanary, Abort, AbortClean, AbortMark, db, cluster
  <2>3. QED  BY <1>1, <1>2, <2>1, <2>2
<1>10. CASE PromoteApply(t)
  <2>1. \E u : u.d = t.d /\ u.ref = t.ref /\ Become(t, u)
    BY <1>10 DEF PromoteApply, StartGate, At, NewTask
  <2>2. QED  BY <1>1, <1>10, <2>1 DEF PromoteApply, db
<1>11. CASE Fail(t)
  <2>1. (\E pc : Goto(t, pc)) \/ Stop(t)
    BY <1>11 DEF Fail
  <2>2. QED  BY <1>1, <1>2, <1>3, <1>11, <2>1 DEF Fail, cluster
<1>12. CASE Drive(t)
  <2>1. (\E pc : Goto(t, pc)) \/ Stop(t)
    <3>1. rollouts[t.d].phase \in Phases
      BY Domains DEF IInv, RolloutType
    <3>2. QED  BY <1>12, <3>1 DEF Drive
  <2>2. QED  BY <1>1, <1>2, <1>3, <1>12, <2>1 DEF Drive, db, cluster
<1>13. CASE ProbeAdvances(t)
  <2>1. \/ \E pc : Goto(t, pc)
        \/ \E next : Become(t, [At(t, "route") EXCEPT !.step = next])
    BY <1>13 DEF ProbeAdvances
  <2>2. ASSUME NEW next, Become(t, [At(t, "route") EXCEPT !.step = next])
        PROVE  \E u : u.d = t.d /\ u.ref = t.ref /\ Become(t, u)
    BY <2>2 DEF At, NewTask
  <2>3. QED  BY <1>1, <1>2, <1>13, <2>1, <2>2 DEF ProbeAdvances, db, cluster
<1>14. QED
  BY <1>4, <1>5, <1>6, <1>7, <1>8, <1>9, <1>10, <1>11, <1>12, <1>13 DEF TaskStep

--------------------------------
\* One at a time: steps that leave the rows alone.

\* A rollout stays where it is, as far as the invariant tells.
SameStage(n) ==
    /\ rollouts'[n].phase = "none" <=> rollouts[n].phase = "none"
    /\ \A S \in {BeforePromotion, {"promoting"}, {"done", "aborted"}} :
          rollouts'[n].phase \in S <=> rollouts[n].phase \in S

LEMMA TurnFrame ==
    ASSUME IInv, TurnInv, UNCHANGED <<deploys, policy>>, DOMAIN rollouts' = DOMAIN rollouts,
           \A n \in DOMAIN deploys : SameStage(n) /\ (jobs[n] = "none" => jobs'[n] = "none"),
           tasks' \subseteq tasks, SyncsInTurn',
           stable'.image = stable.image \/ stable'.image \in syncs
    PROVE  TurnInv'
<1>1. TypeOK
  BY DEF IInv
<1>2. /\ DOMAIN deploys = 1..Latest /\ Latest \in Nat /\ Latest' = Latest
      /\ Latest # 0 => Latest \in DOMAIN deploys
      /\ \A t \in tasks : t.d \in DOMAIN deploys
  BY <1>1, TurnFacts DEF Latest
<1>3. ASSUME NEW n \in DOMAIN deploys
      PROVE  /\ rollouts'[n].phase = "none" <=> rollouts[n].phase = "none"
             /\ rollouts'[n].phase \in BeforePromotion <=> rollouts[n].phase \in BeforePromotion
             /\ rollouts'[n].phase = "promoting" <=> rollouts[n].phase = "promoting"
             /\ rollouts'[n].phase \in {"done", "aborted"} <=> rollouts[n].phase \in {"done", "aborted"}
             /\ jobs[n] = "none" => jobs'[n] = "none"
  <2>1. SameStage(n) /\ (jobs[n] = "none" => jobs'[n] = "none")
    OBVIOUS
  <2>2. \A S \in {BeforePromotion, {"promoting"}, {"done", "aborted"}} :
          rollouts'[n].phase \in S <=> rollouts[n].phase \in S
    BY <2>1 DEF SameStage
  <2>3. rollouts'[n].phase = "none" <=> rollouts[n].phase = "none"
    BY <2>1 DEF SameStage
  <2>4. rollouts'[n].phase \in {"promoting"} <=> rollouts[n].phase \in {"promoting"}
    BY <2>2
  <2>5. QED  BY <2>1, <2>2, <2>3, <2>4
<1>4. \A n \in DOMAIN deploys' : n # Latest' => Explained(n)'
  BY <1>2, <1>3 DEF TurnInv, Explained
<1>5. \A n \in DOMAIN deploys' : RolledOut(n)'
  BY <1>3 DEF TurnInv, RolledOut
<1>6. \A t \in tasks' : TurnOK(t)'
  BY <1>2, <1>3 DEF TurnInv, TurnOK
<1>7. stable'.image <= Latest /\ Untouched'
  <2>1. CASE stable'.image = stable.image
    <3>1. Latest # 0 => DeployStrategy(Latest)' = DeployStrategy(Latest)
      BY <1>2, <1>3 DEF DeployStrategy, LiveDeployments
    <3>2. QED  BY <1>2, <1>3, <2>1, <3>1 DEF TurnInv, Untouched
  <2>2. CASE stable'.image \in syncs
    <3>1. /\ Latest # 0 /\ deploys[Latest].status = "live"
          /\ stable'.image = deploys[Latest].image
      BY <2>2 DEF TurnInv, SyncsInTurn
    <3>2. stable'.image <= Latest
      BY <1>2, <3>1 DEF IInv, RowOK
    <3>3. QED  BY <1>2, <3>1, <3>2 DEF Untouched, Unfinished
  <2>3. QED  BY <2>1, <2>2
<1>8. QED  BY <1>2, <1>4, <1>5, <1>6, <1>7 DEF TurnInv

LEMMA TurnCluster ==
    ASSUME IInv, TurnInv, ClusterStep
    PROVE  TurnInv'
<1>1. UNCHANGED <<deploys, rollouts, policy, tasks, syncs>>
  BY DEF ClusterStep, StableReady, StableBroken, CanaryReady, CanaryBroken,
         JobEnds, JobExpires, db, process
<1>2. stable'.image = stable.image
  <2>1. stable \in [image : Nat, stamp : Nat, state : PodStates]
    BY DEF IInv, TypeOK
  <2>2. QED  BY <2>1 DEF ClusterStep, StableReady, StableBroken, CanaryReady, CanaryBroken, JobEnds, JobExpires
<1>3. ASSUME NEW n \in DOMAIN deploys, jobs[n] = "none"  PROVE jobs'[n] = "none"
  <2>1. CASE jobs' = jobs
    BY <1>3, <2>1
  <2>2. ASSUME NEW k \in DOMAIN jobs, JobEnds(k) \/ JobExpires(k)
        PROVE  jobs'[n] = "none"
    <3>1. PICK end \in JobStates : jobs' = [jobs EXCEPT ![k] = end]
      BY <2>2 DEF JobEnds, JobExpires, JobStates
    <3>2. k # n
      BY <1>3, <2>2 DEF JobEnds, JobExpires
    <3>3. n \in DOMAIN jobs
      BY Domains DEF IInv
    <3>4. QED  BY <1>3, <3>1, <3>2, <3>3
  <2>3. QED
    BY <2>1, <2>2 DEF ClusterStep, StableReady, StableBroken, CanaryReady, CanaryBroken
<1>4. \A n \in DOMAIN deploys : SameStage(n)
  BY <1>1 DEF SameStage
<1>5. SyncsInTurn'
  BY <1>1 DEF TurnInv, SyncsInTurn, Latest
<1>6. QED  BY <1>1, <1>2, <1>3, <1>4, <1>5, TurnFrame

\* A request that adds no row.
LEMMA TurnOther ==
    ASSUME IInv, TurnInv, OneAtATime, RequestRollout \/ SetPolicy \/ SyncRead \/ SyncApply
    PROVE  TurnInv'
<1>0. TypeOK
  BY DEF IInv
<1>1. /\ DOMAIN deploys = 1..Latest /\ Latest \in Nat /\ DOMAIN rollouts = DOMAIN deploys
      /\ stable.image \in Nat
  BY <1>0, TurnFacts
<1>2. CASE RequestRollout
  <2>1. PICK k \in DOMAIN rollouts, phase \in {"promote-requested", "abort-requested"} :
           /\ MayRequest(rollouts, k)
           /\ rollouts' = SetRolloutPhase(rollouts, k, phase)
    BY <1>2 DEF RequestRollout
  <2>2. /\ rollouts'[k].phase = phase /\ DOMAIN rollouts' = DOMAIN rollouts
        /\ \A m \in DOMAIN rollouts : m # k => rollouts'[m] = rollouts[m]
    <3>1. phase \in Phases /\ rollouts \in Seq(RolloutType)
      BY <1>0 DEF TypeOK, Phases
    <3>2. QED  BY <2>1, <3>1, SetRolloutPhaseRows
  <2>3. UNCHANGED <<deploys, policy, tasks, jobs, stable, syncs>>
    BY <1>2 DEF RequestRollout, cluster, process
  <2>4. ASSUME NEW n \in DOMAIN deploys  PROVE SameStage(n)
    <3>1. CASE n = k
      BY <2>1, <2>2, <3>1 DEF SameStage, MayRequest, BeforePromotion
    <3>2. CASE n # k
      BY <1>1, <2>2, <3>2 DEF SameStage
    <3>3. QED  BY <3>1, <3>2
  <2>5. SyncsInTurn'
    BY <2>3 DEF TurnInv, SyncsInTurn, Latest
  <2>6. QED  BY <2>2, <2>3, <2>4, <2>5, TurnFrame
<1>3. CASE SetPolicy
  <2>1. used.edit \in 0..MaxEdits
    BY <1>0 DEF TypeOK
  <2>2. QED  BY <1>3, <2>1 DEF SetPolicy, OneAtATime
<1>4. ASSUME UNCHANGED <<deploys, rollouts, policy, tasks, jobs>>, SyncsInTurn',
             stable'.image = stable.image \/ stable'.image \in syncs
      PROVE  TurnInv'
  <2>1. \A n \in DOMAIN deploys : SameStage(n)
    BY <1>4 DEF SameStage
  <2>2. QED  BY <1>4, <2>1, TurnFrame
<1>5. CASE SyncRead
  <2>1. SyncsInTurn'
    BY <1>1, <1>5 DEF SyncRead, TurnInv, SyncsInTurn, Latest, db
  <2>2. QED  BY <1>4, <1>5, <2>1 DEF SyncRead, db, cluster
<1>6. CASE SyncApply
  <2>1. PICK image \in syncs : ApplyStable(image) /\ syncs' = syncs \ {image}
    BY <1>6 DEF SyncApply
  <2>2. stable'.image \in syncs
    BY <2>1 DEF ApplyStable
  <2>3. SyncsInTurn'
    BY <1>6, <2>1 DEF SyncApply, TurnInv, SyncsInTurn, Latest, db
  <2>4. QED  BY <1>4, <1>6, <2>2, <2>3 DEF SyncApply, db
<1>7. QED  BY <1>2, <1>3, <1>5, <1>6

\* Death takes the goroutines and the syncs; reconciliation resumes each row
\* where its status says.
LEMMA TurnServer ==
    ASSUME IInv, TurnInv, ServerStep
    PROVE  TurnInv'
<1>1. UNCHANGED <<deploys, rollouts, policy, jobs, stable>>
  BY DEF ServerStep, Crash, Restart, Reconcile, db, cluster
<1>2. /\ \A n \in DOMAIN deploys : SameStage(n)
      /\ SyncsInTurn'
  BY <1>1 DEF SameStage, ServerStep, Crash, Restart, Reconcile, TurnInv, SyncsInTurn, Latest
<1>3. CASE Crash \/ Restart
  <2>1. tasks' \subseteq tasks
    BY <1>3 DEF Crash, Restart
  <2>2. QED  BY <1>1, <1>2, <2>1, TurnFrame
<1>4. CASE Reconcile
  <2>1. \A x \in tasks' :
           /\ x.d \in UnfinishedDeployments(deploys)
           /\ x = NewTask(x.d, IF deploys[x.d].status = "building" THEN "reattach"
                               ELSE "finish", deploys[x.d].image)
    BY <1>4 DEF Reconcile, IInv, Quiet, NewTask
  <2>2. \A x \in tasks' : TurnOK(x)'
    <3> SUFFICES ASSUME NEW x \in tasks'  PROVE TurnOK(x)'
      OBVIOUS
    <3>1. /\ x.d \in DOMAIN deploys /\ x.ref = deploys[x.d].image
          /\ \/ x.pc = "reattach"
             \/ x.pc = "finish" /\ deploys[x.d].status = "deploying"
      BY <2>1 DEF UnfinishedDeployments, Unfinished, NewTask
    <3>2. QED  BY <1>1, <3>1 DEF TurnOK, Latest, EndingPCs
  <2>3. Latest' = Latest /\ Untouched'
    BY <1>1 DEF TurnInv, Untouched, DeployStrategy, Latest
  <2>4. QED  BY <1>1, <1>2, <2>2, <2>3 DEF TurnInv, Explained, RolledOut
<1>5. QED  BY <1>3, <1>4 DEF ServerStep

--------------------------------
\* One at a time: the steps of the goroutines.

\* What x, which t becomes, may rely on.
Turns(t, x) ==
    /\ t.d # Latest => x.pc = "apply" /\ deploys'[t.d].status = "deploying"
    /\ x.pc = "canaryApply" => rollouts'[t.d].phase \in BeforePromotion
    /\ x.pc = "promoteApply" => rollouts'[t.d].phase = "promoting"
    /\ x.pc \in EndingPCs => rollouts'[t.d].phase # "none"

LEMMA TurnStep ==
    ASSUME IInv, TurnInv, TypeOK', NEW t \in tasks, TaskStep(t), ~AutoRollback(t),
           \A x \in tasks' : x \in tasks \ {t} \/ Turns(t, x),
           t.d # Latest => Explained(t.d)',
           RolledOut(t.d)', stable'.image <= Latest, Untouched'
    PROVE  TurnInv'
<1>1. /\ TypeOK /\ OnlyRow(t.d) /\ TaskOK(t) /\ TurnOK(t)
      /\ \A x \in tasks : TurnOK(x) /\ TaskOK(x)
  BY TaskEffect DEF IInv, TurnInv, Effect
<1>2. /\ UNCHANGED <<policy, mode, syncs, used>>
      /\ \A x \in tasks' : x \in tasks \ {t} \/ (x.d = t.d /\ x.ref = t.ref)
  BY StepKeepsCopy
<1>3. /\ DOMAIN deploys = 1..Latest /\ Latest \in Nat /\ t.d \in DOMAIN deploys
      /\ DOMAIN deploys' = 1..Latest' /\ Latest' \in Nat
      /\ \A x \in tasks : x.d \in DOMAIN deploys
      /\ deploys[t.d] \in RowType
  BY <1>1, TurnFacts, TurnFactsNext
<1>4. Latest' = Latest /\ DOMAIN deploys' = DOMAIN deploys
  BY <1>1, <1>3 DEF OnlyRow
<1>5. /\ \A n \in DOMAIN deploys :
           n # t.d => /\ deploys'[n] = deploys[n]
                      /\ rollouts'[n] = rollouts[n] /\ jobs'[n] = jobs[n]
      /\ RowStep(t.d)
  BY <1>1 DEF OnlyRow
<1>6. \A n \in DOMAIN deploys' : n # Latest' => Explained(n)'
  BY <1>4, <1>5 DEF TurnInv, Explained
<1>7. \A n \in DOMAIN deploys' : RolledOut(n)'
  BY <1>2, <1>4, <1>5 DEF TurnInv, RolledOut
<1>8. SyncsInTurn'
  <2>1. CASE syncs = {}
    BY <1>2, <2>1 DEF SyncsInTurn
  <2>2. CASE syncs # {}
    <3>1. Latest # 0 /\ deploys[Latest].status = "live"
      BY <2>2 DEF TurnInv, SyncsInTurn
    <3>2. deploys[t.d].status # "live"
      BY <1>1 DEF TaskOK, BuildPCs
    <3>3. deploys'[Latest] = deploys[Latest]
      BY <1>3, <1>5, <3>1, <3>2
    <3>4. QED  BY <1>2, <1>4, <3>3 DEF TurnInv, SyncsInTurn
  <2>3. QED  BY <2>1, <2>2
<1>9. ASSUME NEW x \in tasks'  PROVE TurnOK(x)'
  <2>1. CASE x \in tasks \ {t}
    <3>1. x.d # t.d
      BY <2>1 DEF IInv, OneDriver
    <3>2. QED  BY <1>1, <1>3, <1>4, <1>5, <2>1, <3>1 DEF TurnOK
  <2>2. CASE x.d = t.d /\ x.ref = t.ref /\ Turns(t, x)
    <3>1. t.ref \in {0, deploys'[t.d].image}
      <4>1. CASE deploys'[t.d].image = deploys[t.d].image
        BY <1>1, <4>1 DEF TurnOK
      <4>2. CASE deploys[t.d].status = "building"
        BY <1>1, <4>2 DEF TaskOK
      <4>3. QED  BY <1>5, <4>1, <4>2 DEF RowStep
    <3>2. QED  BY <1>4, <2>2, <3>1 DEF Turns, TurnOK
  <2>3. QED  BY <1>2, <2>1, <2>2
<1>10. QED  BY <1>4, <1>6, <1>7, <1>8, <1>9 DEF TurnInv

LEMMA UntouchedKept ==
    ASSUME IInv, TurnInv, TypeOK', NEW t \in tasks, OnlyRow(t.d), policy' = policy,
           stable'.image = stable.image,
           t.d # Latest => deploys'[t.d].status # "live",
           rollouts'[t.d].phase \in {"none"} \cup BeforePromotion
             => rollouts[t.d].phase \in {"none"} \cup BeforePromotion,
           rollouts'[t.d].phase # "none"
             => rollouts[t.d].phase # "none" \/ DeployStrategy(t.d) = "canary"
    PROVE  Untouched' /\ stable'.image <= Latest
<1>1. /\ TypeOK /\ TaskOK(t)
      /\ DOMAIN deploys = 1..Latest /\ Latest \in Nat /\ t.d \in DOMAIN deploys
      /\ DOMAIN deploys' = 1..Latest' /\ Latest' \in Nat
      /\ deploys[t.d] \in RowType
  BY TurnFacts, TurnFactsNext DEF IInv
<1>2. Latest' = Latest /\ DOMAIN deploys' = DOMAIN deploys
  BY <1>1 DEF OnlyRow
<1>3. /\ \A n \in DOMAIN deploys :
           n # t.d => deploys'[n] = deploys[n] /\ rollouts'[n] = rollouts[n]
      /\ RowStep(t.d)
  BY DEF OnlyRow
<1> SUFFICES ASSUME Latest # 0, deploys'[Latest].status \in Unfinished,
                    DeployStrategy(Latest)' = "canary",
                    rollouts'[Latest].phase \in {"none"} \cup BeforePromotion
             PROVE  stable.image # Latest
  BY <1>2 DEF Untouched, TurnInv
<1>4. Latest \in DOMAIN deploys
  BY <1>1
<1>5. deploys[Latest].status \in Unfinished
  BY <1>3, <1>4 DEF RowStep, Unfinished
<1>6. rollouts[Latest].phase \in {"none"} \cup BeforePromotion
  BY <1>3, <1>4
<1>7. LiveDeployments(deploys') \ {Latest} = LiveDeployments(deploys) \ {Latest}
  <2>1. deploys[t.d].status # "live"
    BY <1>1 DEF TaskOK, BuildPCs
  <2>2. \A n \in DOMAIN deploys : n # Latest =>
           (deploys'[n].status = "live" <=> deploys[n].status = "live")
    BY <1>3, <2>1
  <2>3. QED  BY <1>2, <2>2 DEF LiveDeployments
<1>8. DeployStrategy(Latest) = "canary"
  <2>1. deploys'[Latest].from = deploys[Latest].from
    BY <1>3, <1>4 DEF RowStep
  <2>2. policy'.strategy = "canary" /\ deploys'[Latest].from = 0
        /\ (rollouts'[Latest].phase # "none" \/ LiveDeployments(deploys') \ {Latest} # {})
    BY <1>2 DEF DeployStrategy
  <2>3. CASE rollouts'[Latest].phase # "none"
    BY <1>3, <1>4, <2>1, <2>2, <2>3 DEF DeployStrategy
  <2>4. CASE LiveDeployments(deploys') \ {Latest} # {}
    BY <1>7, <2>1, <2>2, <2>4 DEF DeployStrategy
  <2>5. QED  BY <2>2, <2>3, <2>4
<1>9. QED  BY <1>5, <1>6, <1>8 DEF TurnInv, Untouched

\* The goroutine moves, and ends at none of the pcs that need more than it has.
Plain(t, x) ==
    /\ x.pc \notin {"canaryApply", "promoteApply"}
    /\ x.pc \in EndingPCs => rollouts[t.d].phase # "none"

LEMMA TurnMoves ==
    ASSUME IInv, TurnInv, TypeOK', NEW t \in tasks, TaskStep(t), ~AutoRollback(t), t.d = Latest,
           UNCHANGED rollouts, stable'.image = stable.image,
           \A x \in tasks' : x \in tasks \ {t} \/ Plain(t, x)
    PROVE  TurnInv'
<1>1. OnlyRow(t.d) /\ policy' = policy /\ TypeOK /\ t.d \in DOMAIN deploys
  BY TaskEffect, StepKeepsCopy, TurnFacts DEF Effect, IInv
<1>2. Untouched' /\ stable'.image <= Latest
  BY <1>1, UntouchedKept
<1>3. RolledOut(t.d)'
  BY <1>1 DEF TurnInv, RolledOut, OnlyRow, RowStep
<1>4. \A x \in tasks' : x \in tasks \ {t} \/ Turns(t, x)
  BY DEF Turns, Plain
<1>5. QED  BY <1>2, <1>3, <1>4, TurnStep

LEMMA TurnMoving ==
    ASSUME IInv, TurnInv, TypeOK', NEW t \in tasks,
           \/ ApplyBuildJob(t) \/ Reattach(t) \/ BuildSucceeds(t) \/ CanaryApply(t)
           \/ GateCheck(t) \/ GateSuperseded(t) \/ GateSamplesDone(t)
           \/ GateSamplesFailed(t) \/ GateFindsNothing(t) \/ NoRollback(t)
           \/ Drive(t) \/ RouteFails(t) \/ ProbeUnhealthy(t) \/ ProbeAdvances(t) \/ ProbeAgain(t)
           \/ PromoteFails(t) \/ Abort(t) \/ AbortClean(t)
           \/ MarkLive(t) \/ Fail(t) \/ AbortFail(t)
    PROVE  TurnInv'
<1>1. TaskStep(t) /\ t \in TaskType /\ t.d \in DOMAIN deploys /\ TaskOK(t) /\ TurnOK(t)
  BY TurnFacts DEF TaskStep, IInv, TurnInv
<1>2. t.pc # "autoRollback" \/ NoRollback(t)
  BY DEF ApplyBuildJob, Reattach, BuildSucceeds, CanaryApply, GateCheck, GateSuperseded, GateSamplesDone,
         GateSamplesFailed, GateFindsNothing, Drive, RouteFails, ProbeUnhealthy, ProbeAdvances, ProbeAgain,
         PromoteFails, Abort, AbortClean, MarkLive, Fail, AbortFail
<1>3. CASE AutoRollback(t)
  <2>1. t.pc = "autoRollback" /\ NoRollback(t)
    BY <1>2, <1>3 DEF AutoRollback
  <2>2. FALSE
    <3>1. Len(deploys') = Len(deploys)
      BY <2>1 DEF NoRollback, db
    <3>2. PICK row : Insert(row)
      BY <1>3 DEF AutoRollback
    <3>3. deploys' = Append(deploys, row) /\ deploys \in Seq(RowType)
      BY <3>2 DEF Insert, IInv, TypeOK
    <3>4. deploys' = deploys
      BY <2>1 DEF NoRollback, db
    <3>5. deploys' \in Seq(RowType) /\ Len(deploys) \in Nat
      BY <3>3, <3>4, LenProperties
    <3>6. QED  BY <3>1, <3>3, <3>5, AppendProperties
  <2>3. QED  BY <2>2
<1>4. ASSUME ~AutoRollback(t)  PROVE TurnInv'
  <2>1. t.d = Latest
    <3>1. CASE Reattach(t)
      BY <1>1, <3>1 DEF Reattach, TurnInv, Explained, TaskOK, BuildPCs, Unfinished
    <3>2. CASE ~Reattach(t)
      <4>1. t.pc \notin {"reattach", "finish", "apply"}
        BY <3>2 DEF ApplyBuildJob, BuildSucceeds, CanaryApply, GateCheck, GateSuperseded, GateSamplesDone,
            GateSamplesFailed, GateFindsNothing, NoRollback, Drive, RouteFails, ProbeUnhealthy, ProbeAdvances, ProbeAgain,
            PromoteFails, Abort, AbortClean, MarkLive, Fail, AbortFail
      <4>2. QED  BY <1>1, <4>1 DEF TurnOK
    <3>3. QED  BY <3>1, <3>2
  <2>2. UNCHANGED rollouts /\ stable'.image = stable.image
    BY DEF ApplyBuildJob, Reattach, BuildSucceeds, CanaryApply, GateCheck, GateSuperseded, GateSamplesDone,
            GateSamplesFailed, GateFindsNothing, NoRollback, Drive, RouteFails, ProbeUnhealthy, ProbeAdvances, ProbeAgain,
            PromoteFails, Abort, AbortClean, MarkLive, Fail, AbortFail, db, cluster
  <2>3. \A x \in tasks' : x \in tasks \ {t} \/ Plain(t, x)
    <3>0. t.pc \in StepPCs \cup EndingPCs \cup {"promoteApply"} => rollouts[t.d].phase # "none"
      BY <1>1 DEF TaskOK, TurnOK, BeforePromotion
    <3>1. ASSUME NEW pc, Goto(t, pc), pc \notin {"canaryApply", "promoteApply"},
                 pc \in EndingPCs => rollouts[t.d].phase # "none"
          PROVE  \A x \in tasks' : x \in tasks \ {t} \/ Plain(t, x)
      BY <3>1 DEF Goto, Become, At, NewTask, Plain
    <3>2. ASSUME Stop(t)
          PROVE  \A x \in tasks' : x \in tasks \ {t} \/ Plain(t, x)
      BY <3>2 DEF Stop
    <3>3. CASE ApplyBuildJob(t) \/ Reattach(t) \/ BuildSucceeds(t) \/ ProbeAgain(t)
      <4>1. \E pc : pc \notin {"canaryApply", "promoteApply"} \cup EndingPCs /\ Goto(t, pc)
        BY <3>3 DEF ApplyBuildJob, Reattach, BuildSucceeds, ProbeAgain, EndingPCs
      <4>2. QED  BY <3>1, <4>1
    <3>4. CASE RouteFails(t) \/ ProbeUnhealthy(t) \/ PromoteFails(t) \/ Abort(t) \/ AbortClean(t)
      <4>1. rollouts[t.d].phase # "none"
        BY <3>0, <3>4 DEF RouteFails, ProbeUnhealthy, PromoteFails, Abort, AbortClean, StepPCs, EndingPCs
      <4>2. \E pc : pc \notin {"canaryApply", "promoteApply"} /\ Goto(t, pc)
        BY <3>4 DEF RouteFails, ProbeUnhealthy, PromoteFails, Abort, AbortClean
      <4>3. QED  BY <3>1, <4>1, <4>2
    <3>5. CASE NoRollback(t) \/ MarkLive(t) \/ AbortFail(t)
      BY <3>2, <3>5 DEF NoRollback, MarkLive, AbortFail
    <3>6. CASE CanaryApply(t)
      BY <3>6 DEF CanaryApply, StartGate, Become, At, NewTask, Plain, EndingPCs
    <3>7. CASE GateCheck(t)
      BY <1>1, <3>7 DEF GateCheck, Become, TaskType, Plain, EndingPCs
    <3>8. CASE GateSuperseded(t) \/ GateSamplesFailed(t) \/ GateFindsNothing(t)
      <4>1. PICK rb \in BOOLEAN : GateFailed(t, rb)
        BY <3>8 DEF GateSuperseded, GateSamplesFailed, GateFindsNothing
      <4>2. QED  BY <4>1 DEF GateFailed, Become, At, NewTask, Plain, EndingPCs, BeforePromotion
    <3>9. CASE GateSamplesDone(t)
      BY <3>1, <3>9 DEF GateSamplesDone, GateDone, EndingPCs
    <3>10. CASE Drive(t)
      <4>1. rollouts[t.d].phase \in Phases /\ rollouts[t.d].phase # "none"
        BY <3>0, <3>10, Domains DEF IInv, RolloutType, Drive, StepPCs
      <4>2. \/ Stop(t)
            \/ \E pc : pc \notin {"canaryApply", "promoteApply"} /\ Goto(t, pc)
        BY <3>10, <4>1 DEF Drive
      <4>3. QED  BY <3>1, <3>2, <4>1, <4>2
    <3>11. CASE ProbeAdvances(t)
      <4>1. \/ Goto(t, "promote")
            \/ \E next : Become(t, [At(t, "route") EXCEPT !.step = next])
        BY <3>11 DEF ProbeAdvances
      <4>2. rollouts[t.d].phase # "none"
        BY <3>0, <3>11 DEF ProbeAdvances, StepPCs
      <4>3. ASSUME NEW next, Become(t, [At(t, "route") EXCEPT !.step = next])
            PROVE  \A x \in tasks' : x \in tasks \ {t} \/ Plain(t, x)
        BY <4>3 DEF Become, At, NewTask, Plain, EndingPCs
      <4>4. QED  BY <3>1, <4>1, <4>2, <4>3
    <3>12. CASE Fail(t)
      BY <3>1, <3>2, <3>12 DEF Fail, EndingPCs
    <3>13. QED
      BY <3>3, <3>4, <3>5, <3>6, <3>7, <3>8, <3>9, <3>10, <3>11, <3>12
  <2>4. QED  BY <1>1, <1>4, <2>1, <2>2, <2>3, TurnMoves
<1>5. QED  BY <1>3, <1>4

\* A row that a crash or an upload left behind ends, or goes the way of its rollout.
LEMMA TurnRows ==
    ASSUME IInv, TurnInv, TypeOK', NEW t \in tasks, BuildFails(t) \/ ApplyFails(t) \/ Finish(t)
    PROVE  TurnInv'
<1>1. /\ TaskStep(t) /\ t.d \in DOMAIN deploys /\ TaskOK(t) /\ TurnOK(t) /\ TypeOK
      /\ deploys \in Seq(RowType) /\ RowOK(t.d)
  BY TurnFacts DEF TaskStep, IInv, TurnInv, TypeOK
<1>2. ~AutoRollback(t)
  BY DEF BuildFails, ApplyFails, Finish, AutoRollback
<1>3. OnlyRow(t.d) /\ policy' = policy
  BY <1>1, <1>2, TaskEffect, StepKeepsCopy DEF Effect
<1>4. UNCHANGED <<rollouts, stable, jobs>>
  BY DEF BuildFails, ApplyFails, Finish, FailRow, cluster
<1>5. deploys'[t.d].status # "live"
  <2>1. CASE BuildFails(t) \/ ApplyFails(t)
    <3>1. deploys' = SetDeploymentStatus(deploys, t.d, "failed") /\ "failed" \in Statuses
      BY <2>1 DEF BuildFails, ApplyFails, FailRow, Statuses
    <3>2. QED  BY <1>1, <3>1, SetDeploymentStatusRows
  <2>2. CASE Finish(t)
    <3>1. PICK image \in Nat : deploys' = SetImageAndDeploying(deploys, t.d, image)
      BY <1>1, <2>2, TurnFacts DEF Finish, TaskType
    <3>2. QED  BY <1>1, <3>1, SetImageRows
  <2>3. QED  BY <2>1, <2>2
<1>6. Untouched' /\ stable'.image <= Latest
  BY <1>3, <1>4, <1>5, UntouchedKept
<1>7. RolledOut(t.d)'
  BY <1>1, <1>3, <1>4 DEF TurnInv, RolledOut, OnlyRow, RowStep
<1>8. CASE BuildFails(t) \/ ApplyFails(t)
  <2>1. Stop(t) /\ deploys' = SetDeploymentStatus(deploys, t.d, "failed") /\ "failed" \in Statuses
    BY <1>8 DEF BuildFails, ApplyFails, FailRow, Statuses
  <2>2. deploys'[t.d].status = "failed"
    BY <1>1, <2>1, SetDeploymentStatusRows
  <2>3. Explained(t.d)'
    BY <2>2 DEF Explained, Unfinished
  <2>4. \A x \in tasks' : x \in tasks \ {t}
    BY <2>1 DEF Stop
  <2>5. QED  BY <1>1, <1>2, <1>6, <1>7, <2>3, <2>4, TurnStep
<1>9. CASE Finish(t)
  <2>1. Goto(t, "apply")
    BY <1>9 DEF Finish
  <2>2. PICK image \in Nat : deploys' = SetImageAndDeploying(deploys, t.d, image)
    BY <1>1, <1>9, TurnFacts DEF Finish, TaskType
  <2>3. deploys'[t.d].status = "deploying"
    BY <1>1, <2>2, SetImageRows
  <2>4. t.d # Latest => Explained(t.d)'
    <3> SUFFICES ASSUME t.d # Latest  PROVE Explained(t.d)'
      OBVIOUS
    <3>1. deploys[t.d].status = "deploying"
      BY <1>1, <1>9 DEF TurnOK, Finish
    <3>2. Explained(t.d)
      BY <1>1 DEF TurnInv
    <3>3. QED  BY <1>4, <2>3, <3>1, <3>2 DEF Explained, Unfinished
  <2>5. \A x \in tasks' : x \in tasks \ {t} \/ Turns(t, x)
    BY <2>1, <2>3 DEF Goto, Become, At, NewTask, Turns, EndingPCs
  <2>6. QED  BY <1>1, <1>2, <1>6, <1>7, <2>4, <2>5, TurnStep
<1>10. QED  BY <1>8, <1>9

\* An older deploy finds that its rollout is over.
LEMMA TurnStartCanary ==
    ASSUME IInv, TurnInv, TypeOK', NEW t \in tasks, StartCanary(t)
    PROVE  TurnInv'
<1> DEFINE phase == rollouts[t.d].phase
<1>1. /\ TaskStep(t) /\ t.d \in DOMAIN deploys /\ TaskOK(t) /\ TurnOK(t) /\ TypeOK
      /\ rollouts \in Seq(RolloutType) /\ t.d \in DOMAIN rollouts /\ phase \in Phases
      /\ deploys[t.d].status = "deploying"
  BY TurnFacts, DrivesDeploying DEF TaskStep, IInv, TurnInv, TypeOK, RolloutType, StartCanary, Deploying, PCs, BuildPCs, StepPCs
<1>2. ~AutoRollback(t) /\ t.pc = "apply" /\ DeployStrategy(t.d) = "canary"
  BY DEF StartCanary, AutoRollback
<1>3. OnlyRow(t.d) /\ UNCHANGED <<policy, deploys, jobs, stable>>
  BY <1>1, <1>2, TaskEffect DEF Effect, StartCanary, cluster
<1>4. /\ phase = "none" => rollouts'[t.d].phase = "starting"
      /\ phase # "none" => rollouts' = rollouts
  <2>1. "starting" \in Phases /\ 0 \in Nat
    BY DEF Phases
  <2>2. phase = "none" => rollouts' = [rollouts EXCEPT ![t.d] = Rollout("starting", 0)]
    BY DEF StartCanary
  <2>3. phase # "none" => rollouts' = rollouts
    BY DEF StartCanary
  <2>4. QED  BY <1>1, <2>1, <2>2, <2>3, PutRollout
<1>5. Untouched' /\ stable'.image <= Latest
  <2>1. deploys'[t.d].status # "live"
    BY <1>1, <1>3
  <2>2. rollouts'[t.d].phase \in {"none"} \cup BeforePromotion => phase \in {"none"} \cup BeforePromotion
    BY <1>4
  <2>3. QED  BY <1>2, <1>3, <2>1, <2>2, UntouchedKept
<1>6. RolledOut(t.d)'
  BY <1>2, <1>3 DEF DeployStrategy, RolledOut
<1>7. t.d # Latest => Explained(t.d)' /\ phase \in {"done", "aborted"}
  BY <1>1, <1>3, <1>4 DEF TurnInv, Explained, Unfinished
<1>8. \A x \in tasks' : x \in tasks \ {t} \/ Turns(t, x)
  <2>1. CASE phase \in {"none", "starting"}
    <3>1. Goto(t, "canaryApply") /\ rollouts'[t.d].phase = "starting"
      BY <1>4, <2>1 DEF StartCanary
    <3>2. t.d = Latest
      BY <1>7, <2>1
    <3>3. QED  BY <3>1, <3>2 DEF Goto, Become, At, NewTask, Turns, BeforePromotion, EndingPCs
  <2>2. CASE phase = "promoting"
    BY <1>4, <1>7, <2>2 DEF StartCanary, Become, At, NewTask, Turns
  <2>3. CASE phase \in {"done", "aborted"}
    BY <2>3 DEF StartCanary, Stop
  <2>4. CASE phase \in BeforePromotion \ {"starting"}
    <3>1. Goto(t, "drive")
      BY <2>4 DEF StartCanary, BeforePromotion
    <3>2. QED  BY <1>7, <2>4, <3>1 DEF Goto, Become, At, NewTask, Turns, BeforePromotion, EndingPCs
  <2>5. QED  BY <1>1, <2>1, <2>2, <2>3, <2>4 DEF Phases, BeforePromotion
<1>9. QED  BY <1>1, <1>2, <1>5, <1>6, <1>7, <1>8, TurnStep

\* The latest deploy's rollout goes on.
LEMMA TurnPhases ==
    ASSUME IInv, TurnInv, TypeOK', NEW t \in tasks,
           Route(t) \/ Promote(t) \/ CleanFail(t) \/ FinishCanary(t) \/ AbortMark(t)
    PROVE  TurnInv'
<1> DEFINE phase == rollouts[t.d].phase
<1>1. /\ TaskStep(t) /\ t.d \in DOMAIN deploys /\ TaskOK(t) /\ TurnOK(t) /\ TypeOK /\ t \in TaskType
      /\ rollouts \in Seq(RolloutType) /\ t.d \in DOMAIN rollouts
      /\ RolledOut(t.d) /\ Latest \in Nat
  BY TurnFacts DEF TaskStep, IInv, TurnInv, TypeOK
<1>2. ~AutoRollback(t) /\ t.d = Latest
  BY <1>1 DEF Route, Promote, CleanFail, FinishCanary, AbortMark, AutoRollback, TurnOK
<1>3. OnlyRow(t.d) /\ UNCHANGED <<policy, deploys, stable>>
  BY <1>1, <1>2, TaskEffect DEF Effect, Route, Promote, CleanFail, FinishCanary, AbortMark, cluster
<1>4. \/ Route(t) /\ rollouts'[t.d].phase = "stepping"
      \/ Promote(t) /\ rollouts'[t.d].phase = "promoting"
      \/ (CleanFail(t) \/ AbortMark(t)) /\ rollouts'[t.d].phase = "aborted"
      \/ FinishCanary(t) /\ rollouts'[t.d].phase = "done"
  <2>1. {"stepping", "promoting", "aborted", "done"} \subseteq Phases
    BY DEF Phases
  <2>2. CASE Route(t)
    <3>1. rollouts' = [rollouts EXCEPT ![t.d] = Rollout("stepping", t.step)] /\ t.step \in Nat
      BY <1>1, <2>2 DEF Route, SetRolloutStep, TaskType
    <3>2. QED  BY <1>1, <2>1, <2>2, <3>1, PutRollout
  <2>3. CASE Promote(t)
    <3>1. rollouts' = SetRolloutPhase(rollouts, t.d, "promoting") /\ "promoting" \in Phases
      BY <2>1, <2>3 DEF Promote
    <3>2. QED  BY <1>1, <2>3, <3>1, SetRolloutPhaseRows
  <2>4. CASE CleanFail(t) \/ AbortMark(t)
    <3>1. rollouts' = SetRolloutPhase(rollouts, t.d, "aborted") /\ "aborted" \in Phases
      BY <2>1, <2>4 DEF CleanFail, AbortMark
    <3>2. rollouts'[t.d].phase = "aborted"
      BY <1>1, <3>1, SetRolloutPhaseRows
    <3>3. QED  BY <2>4, <3>2
  <2>5. CASE FinishCanary(t)
    <3>1. rollouts' = SetRolloutPhase(rollouts, t.d, "done") /\ "done" \in Phases
      BY <2>1, <2>5 DEF FinishCanary
    <3>2. rollouts'[t.d].phase = "done"
      BY <1>1, <3>1, SetRolloutPhaseRows
    <3>3. QED  BY <2>5, <3>2
  <2>6. QED  BY <2>2, <2>3, <2>4, <2>5
<1>5. phase # "none"
  <2>1. CASE Route(t)
    BY <1>1, <2>1 DEF Route, TaskOK, StepPCs, BeforePromotion
  <2>2. CASE ~Route(t)
    BY <1>1, <2>2 DEF Promote, CleanFail, FinishCanary, AbortMark, TurnOK, EndingPCs
  <2>3. QED  BY <2>1, <2>2
<1>6. RolledOut(t.d)'
  BY <1>1, <1>3, <1>5 DEF RolledOut
<1>7. Untouched' /\ stable'.image <= Latest
  <2>1. rollouts'[t.d].phase \in {"none"} \cup BeforePromotion => phase \in {"none"} \cup BeforePromotion
    <3>1. CASE Route(t)
      BY <1>1, <3>1 DEF Route, TaskOK, StepPCs
    <3>2. CASE ~Route(t)
      BY <1>4, <3>2 DEF BeforePromotion
    <3>3. QED  BY <3>1, <3>2
  <2>2. QED  BY <1>2, <1>3, <1>5, <2>1, UntouchedKept
<1>8. \A x \in tasks' : x \in tasks \ {t} \/ Turns(t, x)
  <2>1. CASE Promote(t)
    <3>1. Become(t, [t EXCEPT !.pc = "promoteApply"]) /\ rollouts'[t.d].phase = "promoting"
      BY <1>4, <2>1 DEF Promote, CleanFail, AbortMark, FinishCanary, Route
    <3>2. [t EXCEPT !.pc = "promoteApply"].pc = "promoteApply"
      BY <1>1 DEF TaskType
    <3>3. QED  BY <1>2, <3>1, <3>2 DEF Become, Turns, EndingPCs
  <2>2. CASE CleanFail(t)
    <3>1. Become(t, [t EXCEPT !.pc = "fail"])
      BY <2>2 DEF CleanFail
    <3>2. [t EXCEPT !.pc = "fail"].pc = "fail"
      BY <1>1 DEF TaskType
    <3>3. QED  BY <1>2, <3>1, <3>2 DEF Become, Turns, EndingPCs
  <2>3. CASE Route(t) \/ FinishCanary(t) \/ AbortMark(t)
    <3>1. \E pc : pc \notin {"canaryApply", "promoteApply"} /\ Goto(t, pc)
      BY <2>3 DEF Route, FinishCanary, AbortMark
    <3>2. rollouts'[t.d].phase # "none"
      BY <1>4
    <3>3. QED  BY <1>2, <3>1, <3>2 DEF Goto, Become, At, NewTask, Turns
  <2>4. QED  BY <2>1, <2>2, <2>3
<1>9. QED  BY <1>1, <1>2, <1>6, <1>7, <1>8, TurnStep

\* Only the latest deploy reaches the app's Deployment.
LEMMA TurnApplies ==
    ASSUME IInv, TurnInv, TypeOK', NEW t \in tasks, ApplyRolling(t) \/ PromoteApply(t)
    PROVE  TurnInv'
<1>1. /\ TaskStep(t) /\ t.d \in DOMAIN deploys /\ TaskOK(t) /\ TurnOK(t) /\ TypeOK
      /\ RolledOut(t.d) /\ Latest \in Nat /\ RowOK(t.d)
      /\ deploys[t.d].status = "deploying" /\ t.d \in 1..Latest /\ deploys[t.d] \in RowType
  BY TurnFacts, DrivesDeploying DEF TaskStep, IInv, TurnInv, ApplyRolling, PromoteApply, Deploying, PCs, BuildPCs, StepPCs
<1>2. ~AutoRollback(t) /\ UNCHANGED <<policy, deploys, rollouts>>
  BY DEF ApplyRolling, PromoteApply, AutoRollback, db
<1>3. t.d = Latest
  <2>1. CASE PromoteApply(t)
    BY <1>1, <2>1 DEF TurnOK, PromoteApply
  <2>2. CASE ApplyRolling(t) /\ t.d # Latest
    <3>1. rollouts[t.d].phase \in {"done", "aborted"}
      BY <1>1, <2>2 DEF TurnInv, Explained, Unfinished
    <3>2. DeployStrategy(t.d) = "canary"
      BY <1>1, <3>1 DEF RolledOut, DeployStrategy
    <3>3. QED  BY <2>2, <3>2 DEF ApplyRolling
  <2>3. QED  BY <2>1, <2>2
<1>4. /\ stable'.image = deploys[t.d].image
      /\ \/ ApplyRolling(t) /\ DeployStrategy(t.d) = "rolling"
         \/ PromoteApply(t) /\ rollouts[t.d].phase = "promoting"
  <2>1. CASE ApplyRolling(t)
    BY <2>1 DEF ApplyRolling, ApplyStable
  <2>2. CASE PromoteApply(t)
    BY <1>1, <2>2 DEF PromoteApply, ApplyStable, TurnOK
  <2>3. QED  BY <2>1, <2>2
<1>5. stable'.image <= Latest
  BY <1>1, <1>3, <1>4 DEF RowOK
<1>6. Latest' = Latest /\ DeployStrategy(Latest)' = DeployStrategy(Latest)
  BY <1>2 DEF Latest, DeployStrategy
<1>7. Untouched'
  BY <1>2, <1>3, <1>4, <1>6 DEF Untouched, BeforePromotion
<1>8. RolledOut(t.d)'
  BY <1>1, <1>2 DEF RolledOut
<1>9. \A x \in tasks' : x \in tasks \ {t} \/ Turns(t, x)
  BY <1>3 DEF ApplyRolling, PromoteApply, StartGate, Become, At, NewTask, Turns, EndingPCs
<1>10. QED  BY <1>1, <1>2, <1>3, <1>5, <1>7, <1>8, <1>9, TurnStep

--------------------------------
\* One at a time: new rows, and the invariant.

LEMMA TurnInsert ==
    ASSUME IInv, TurnInv, TypeOK', NEW row \in RowType, Insert(row), syncs = {},
           Latest # 0 => Explained(Latest),
           \A x \in tasks' : \/ x \in tasks /\ x.d # Latest
                             \/ x.d = Len(deploys) + 1 /\ x.pc \in {"build", "apply"}
                                /\ x.ref \in {0, row.image}
    PROVE  TurnInv'
<1>1. /\ TypeOK /\ Latest = Len(deploys) /\ Latest \in Nat /\ DOMAIN deploys = 1..Latest
      /\ Latest' = Len(deploys')
      /\ \A x \in tasks : x.d \in DOMAIN deploys /\ TurnOK(x)
  BY TurnFacts DEF IInv, TurnInv, Latest, LatestDeployment
<1>2. /\ Len(deploys') = Latest + 1 /\ DOMAIN deploys' = DOMAIN deploys \cup {Latest + 1}
      /\ deploys'[Latest + 1] = row /\ rollouts'[Latest + 1] = NoRollout
      /\ \A n \in DOMAIN deploys :
            deploys'[n] = deploys[n] /\ rollouts'[n] = rollouts[n] /\ jobs'[n] = jobs[n]
      /\ UNCHANGED <<policy, stable, syncs>>
  BY <1>1, InsertRow DEF Insert
<1>3. Latest' = Latest + 1
  BY <1>1, <1>2
<1>4. ASSUME NEW n \in DOMAIN deploys', n # Latest'  PROVE Explained(n)'
  <2>1. n \in DOMAIN deploys
    BY <1>2, <1>3, <1>4
  <2>2. Explained(n)
    BY <1>1, <2>1 DEF TurnInv
  <2>3. QED  BY <1>2, <2>1, <2>2 DEF Explained
<1>5. ASSUME NEW n \in DOMAIN deploys'  PROVE RolledOut(n)'
  <2>1. CASE n \in DOMAIN deploys
    BY <1>2, <2>1 DEF TurnInv, RolledOut
  <2>2. CASE n = Latest + 1
    BY <1>2, <2>2 DEF RolledOut, NoRollout, Rollout
  <2>3. QED  BY <1>2, <2>1, <2>2
<1>6. SyncsInTurn'
  BY <1>2 DEF SyncsInTurn
<1>7. stable'.image <= Latest' /\ Untouched'
  <2>1. stable.image \in Nat /\ stable.image <= Latest
    BY TurnFacts DEF IInv, TurnInv
  <2>2. QED  BY <1>1, <1>2, <1>3, <2>1 DEF Untouched
<1>8. ASSUME NEW x \in tasks'  PROVE TurnOK(x)'
  <2>1. CASE x \in tasks /\ x.d # Latest
    <3>1. x.d \in DOMAIN deploys /\ TurnOK(x)
      BY <1>1, <2>1
    <3>2. QED  BY <1>2, <2>1, <3>1 DEF TurnOK, EndingPCs
  <2>2. CASE x.d = Latest + 1 /\ x.pc \in {"build", "apply"} /\ x.ref \in {0, row.image}
    BY <1>2, <1>3, <2>2 DEF TurnOK, EndingPCs
  <2>3. QED  BY <1>1, <2>1, <2>2
<1>9. QED  BY <1>4, <1>5, <1>6, <1>7, <1>8 DEF TurnInv

\* A user's row comes when nothing is under way.
LEMMA TurnUser ==
    ASSUME IInv, TurnInv, OneAtATime, DeployImage \/ DeploySource \/ UploadFails \/ Redeploy \/ Rollback
    PROVE  TurnInv'
<1>1. TypeOK /\ TypeOK'
  BY TypeRequest DEF IInv, Request
<1>2. tasks = {} /\ syncs = {} /\ mode = "up"
  BY DEF DeployImage, DeploySource, UploadFails, Redeploy, Rollback, MayDeploy, OneAtATime, ServesRequests
<1>3. Latest # 0 => Explained(Latest)
  <2>1. Latest # 0 => Latest \in DOMAIN deploys
    BY <1>1, TurnFacts
  <2>2. QED  BY <1>2, <2>1 DEF IInv, OrphansExplained, UnfinishedDeployments, Driven, Explained
<1>4. PICK row, pc, ref :
         /\ row \in RowType /\ Insert(row) /\ pc \in {"build", "apply"} /\ ref \in {0, row.image}
         /\ Spawn(pc, ref) \/ UNCHANGED tasks
  <2>1. \A image \in Nat, from \in Nat :
           Row("deploying", image, from, 0) \in RowType /\ Row("deploying", image, from, 0).image = image
    BY DEF Row, RowType, Statuses
  <2>2. Row("building", 0, 0, 0) \in RowType
    BY DEF Row, RowType, Statuses
  <2>3. CASE DeployImage
    <3>1. Len(deploys) + 1 \in Nat
      BY <1>1, LenProperties DEF TypeOK
    <3>2. QED  BY <2>1, <2>3, <3>1 DEF DeployImage
  <2>4. CASE DeploySource \/ UploadFails
    BY <2>2, <2>4 DEF DeploySource, UploadFails
  <2>5. CASE Redeploy
    <3>1. deploys[Latest].image \in Nat
      BY <1>1, <2>5, TurnFacts DEF Redeploy, RowType
    <3>2. QED  BY <2>1, <2>5, <3>1 DEF Redeploy
  <2>6. CASE Rollback
    <3>1. PICK m \in WithImage(deploys) :
             /\ Insert(Row("deploying", deploys[m].image, m, 0)) /\ Spawn("apply", deploys[m].image)
      BY <2>6 DEF Rollback
    <3>2. m \in Nat /\ deploys[m].image \in Nat
      BY <1>1, <3>1, TurnFacts DEF WithImage, RowType
    <3>3. QED  BY <2>1, <3>1, <3>2
  <2>7. QED  BY <2>3, <2>4, <2>5, <2>6
<1>5. \A x \in tasks' : x.d = Len(deploys) + 1 /\ x.pc = pc /\ x.ref = ref
  BY <1>2, <1>4 DEF Spawn, NewTask
<1>6. QED  BY <1>1, <1>2, <1>3, <1>4, <1>5, TurnInsert

LEMMA TurnAutoRollback ==
    ASSUME IInv, TurnInv, TypeOK', NEW t \in tasks, AutoRollback(t)
    PROVE  TurnInv'
<1>1. PICK m \in DOMAIN deploys :
         /\ Insert(Row("deploying", deploys[m].image, m, t.d))
         /\ Become(t, NewTask(Len(deploys) + 1, "apply", deploys[m].image))
  BY DEF AutoRollback
<1>2. PICK row : row = Row("deploying", deploys[m].image, m, t.d)
  OBVIOUS
<1>3. /\ TypeOK /\ m \in Nat /\ deploys[m].image \in Nat /\ t.d \in Nat
      /\ TaskOK(t) /\ TurnOK(t) /\ \A x \in tasks \ {t} : x.d # t.d
  BY TurnFacts DEF IInv, TurnInv, RowType, OneDriver
<1>4. row \in RowType /\ row.image = deploys[m].image
  BY <1>2, <1>3 DEF Row, RowType, Statuses
<1>5. t.d = Latest /\ deploys[t.d].status = "failed"
  BY <1>3 DEF TurnOK, TaskOK, AutoRollback
<1>6. Explained(Latest) /\ syncs = {}
  BY <1>5 DEF Explained, Unfinished, TurnInv, SyncsInTurn
<1>7. \A x \in tasks' : \/ x \in tasks /\ x.d # Latest
                        \/ x.d = Len(deploys) + 1 /\ x.pc \in {"build", "apply"}
                           /\ x.ref \in {0, row.image}
  BY <1>1, <1>3, <1>4, <1>5 DEF Become, NewTask
<1>8. QED  BY <1>1, <1>2, <1>4, <1>6, <1>7, TurnInsert

LEMMA TurnTask ==
    ASSUME IInv, TurnInv, NEW t \in tasks, TaskStep(t)
    PROVE  TurnInv'
<1>1. TypeOK'
  BY TypeTaskStep DEF IInv
<1>2. QED
  BY <1>1, TurnMoving, TurnRows, TurnStartCanary, TurnPhases, TurnApplies, TurnAutoRollback DEF TaskStep

LEMMA TurnInit ==
    ASSUME Init
    PROVE  TurnInv
<1>1. DOMAIN deploys = {} /\ Latest = 0 /\ stable.image = 0 /\ tasks = {} /\ syncs = {}
  BY EmptySeq, LenProperties DEF Init, Latest, LatestDeployment
<1>2. QED  BY <1>1 DEF TurnInv, SyncsInTurn, Untouched

LEMMA TurnNext ==
    ASSUME IInv, TurnInv, OneAtATime, [Next]_vars
    PROVE  TurnInv'
<1>1. CASE Next
  BY <1>1, TurnTask, TurnCluster, TurnOther, TurnUser, TurnServer DEF Next, Request
<1>2. CASE UNCHANGED vars
  BY <1>2 DEF vars, db, cluster, process, TurnInv, Explained, RolledOut, SyncsInTurn, Untouched, DeployStrategy,
              TurnOK, Latest
<1>3. QED  BY <1>1, <1>2

--------------------------------
\* One at a time: canaries.

Swept == canary = NoPods /\ split = 0

\* Before a rollout is marked aborted its canary is gone, or is another's.
StrayInv ==
    /\ ~Swept => ActiveRollouts(rollouts) # {}
    /\ \A t \in tasks : t.pc = "abortMark" =>
          Swept \/ \E m \in ActiveRollouts(rollouts) : m # t.d

LEMMA StrayKept ==
    ASSUME StrayInv, ActiveRollouts(rollouts) \subseteq ActiveRollouts(rollouts'), Swept => Swept',
           \A x \in tasks' : x \in tasks \/ x.pc # "abortMark"
    PROVE  StrayInv'
  BY DEF StrayInv

LEMMA InsertKeepsActive ==
    ASSUME TypeOK, NEW row, Insert(row)
    PROVE  ActiveRollouts(rollouts) \subseteq ActiveRollouts(rollouts')
<1>1. NoRollout \in RolloutType
  BY DEF NoRollout, Rollout, RolloutType, Phases
<1>2. rollouts' = Append(rollouts, NoRollout) /\ rollouts \in Seq(RolloutType)
  BY DEF Insert, TypeOK
<1>3. QED  BY <1>1, <1>2, AddRow DEF ActiveRollouts

\* Nobody is about to mark a rollout aborted while another goroutine has the turn.
LEMMA OnlyOneMarks ==
    ASSUME IInv, TurnInv, NEW t \in tasks, t.d = Latest, NEW x \in tasks, x.pc = "abortMark"
    PROVE  x = t
<1>1. x.d = Latest
  BY DEF TurnInv, TurnOK
<1>2. QED  BY <1>1 DEF IInv, OneDriver

LEMMA StrayEnds ==
    ASSUME IInv, TurnInv, StrayInv, ~Faults, NEW t \in tasks,
           \/ CanaryApply(t) \/ Route(t) \/ CleanFail(t) \/ FinishCanary(t)
           \/ Abort(t) \/ AbortClean(t) \/ AbortMark(t)
    PROVE  StrayInv'
<1>1. /\ TurnOK(t) /\ TaskOK(t) /\ t \in TaskType /\ t.d \in DOMAIN rollouts
      /\ rollouts \in Seq(RolloutType)
  BY TurnFacts, Domains DEF IInv, TurnInv, TypeOK
<1>2. t.d = Latest
  BY <1>1 DEF CanaryApply, Route, CleanFail, FinishCanary, Abort, AbortClean, AbortMark, TurnOK
<1>3. \A x \in tasks \ {t} : x.pc # "abortMark"
  BY <1>2, OnlyOneMarks
<1>4. CASE CanaryApply(t)
  <2>1. UNCHANGED rollouts /\ t.d \in ActiveRollouts(rollouts)
    BY <1>1, <1>4 DEF CanaryApply, db, TurnOK, ActiveRollouts, RolloutActive, BeforePromotion
  <2>2. \A x \in tasks' : x.pc # "abortMark"
    BY <1>3, <1>4 DEF CanaryApply, StartGate, Become, At, NewTask
  <2>3. QED  BY <2>1, <2>2 DEF StrayInv
<1>5. CASE Route(t)
  <2>1. rollouts' = [rollouts EXCEPT ![t.d] = Rollout("stepping", t.step)] /\ t.step \in Nat
    BY <1>1, <1>5 DEF Route, SetRolloutStep, TaskType
  <2>2. DOMAIN rollouts' = DOMAIN rollouts /\ rollouts'[t.d].phase = "stepping"
    <3>1. "stepping" \in Phases
      BY DEF Phases
    <3>2. QED  BY <1>1, <2>1, <3>1, PutRollout
  <2>3. t.d \in ActiveRollouts(rollouts')
    BY <1>1, <2>2 DEF ActiveRollouts, RolloutActive
  <2>4. \A x \in tasks' : x.pc # "abortMark"
    BY <1>3, <1>5 DEF Route, Goto, Become, At, NewTask
  <2>5. QED  BY <2>3, <2>4 DEF StrayInv
<1>6. CASE CleanFail(t) \/ FinishCanary(t) \/ AbortClean(t)
  <2>1. Swept'
    BY <1>6 DEF CleanFail, FinishCanary, AbortClean, CleanupCanary, Swept
  <2>2. QED  BY <2>1 DEF StrayInv
<1>7. CASE Abort(t)
  <2>1. UNCHANGED <<rollouts, canary, split>>
    BY <1>7 DEF Abort, db, cluster
  <2>2. CASE Goto(t, "abortClean")
    <3>1. \A x \in tasks' : x \in tasks \/ x.pc # "abortMark"
      BY <2>2 DEF Goto, Become, At, NewTask
    <3>2. QED  BY <2>1, <3>1, StrayKept DEF Swept
  <2>3. CASE Goto(t, "abortMark") /\ ActiveRollouts(rollouts) # {} /\ ~IsNewest(t.d, ActiveRollouts(rollouts))
    <3>1. PICK m \in ActiveRollouts(rollouts) : m # t.d
      <4>1. t.d \in Nat
        BY <1>1 DEF TaskType
      <4>2. QED  BY <2>3, <4>1 DEF IsNewest
    <3>2. \A x \in tasks' : x.pc = "abortMark" => x.d = t.d
      BY <1>3, <2>3 DEF Goto, Become, At, NewTask
    <3>3. QED  BY <2>1, <3>1, <3>2 DEF StrayInv, Swept
  <2>4. QED  BY <1>7, <2>2, <2>3 DEF Abort
<1>8. CASE AbortMark(t)
  <2>1. Swept \/ \E m \in ActiveRollouts(rollouts) : m # t.d
    BY <1>8 DEF AbortMark, StrayInv
  <2>2. UNCHANGED <<canary, split>> /\ rollouts' = SetRolloutPhase(rollouts, t.d, "aborted")
    BY <1>8 DEF AbortMark, cluster
  <2>3. /\ DOMAIN rollouts' = DOMAIN rollouts
        /\ \A m \in DOMAIN rollouts : m # t.d => rollouts'[m] = rollouts[m]
    <3>1. "aborted" \in Phases
      BY DEF Phases
    <3>2. QED  BY <1>1, <2>2, <3>1, SetRolloutPhaseRows
  <2>4. \A m \in ActiveRollouts(rollouts) : m # t.d => m \in ActiveRollouts(rollouts')
    BY <2>3 DEF ActiveRollouts
  <2>5. \A x \in tasks' : x.pc # "abortMark"
    BY <1>3, <1>8 DEF AbortMark, Goto, Become, At, NewTask
  <2>6. QED  BY <2>1, <2>2, <2>4, <2>5 DEF StrayInv, Swept
<1>9. QED  BY <1>4, <1>5, <1>6, <1>7, <1>8

\* The other steps of a goroutine leave the canary alone.
LEMMA StrayTask ==
    ASSUME IInv, TurnInv, StrayInv, ~Faults, NEW t \in tasks, TaskStep(t)
    PROVE  StrayInv'
<1>1. /\ t \in TaskType /\ t.d \in DOMAIN rollouts /\ rollouts \in Seq(RolloutType)
      /\ rollouts[t.d].phase \in Phases /\ TypeOK
  BY TurnFacts, Domains DEF IInv, TypeOK, RolloutType
<1>2. CASE \/ CanaryApply(t) \/ Route(t) \/ CleanFail(t) \/ FinishCanary(t)
           \/ Abort(t) \/ AbortClean(t) \/ AbortMark(t)
  BY <1>2, StrayEnds
<1>3. ASSUME UNCHANGED <<rollouts, canary, split>>, NEW u, u.pc # "abortMark", Become(t, u) \/ Stop(t)
      PROVE  StrayInv'
  <2>1. \A x \in tasks' : x \in tasks \/ x.pc # "abortMark"
    BY <1>3 DEF Become, Stop
  <2>2. QED  BY <1>3, <2>1, StrayKept DEF Swept
<1>4. ASSUME UNCHANGED <<rollouts, canary, split>>, NEW pc, pc # "abortMark", Goto(t, pc)
      PROVE  StrayInv'
  <2>1. At(t, pc).pc # "abortMark" /\ Become(t, At(t, pc))
    BY <1>4 DEF Goto, At, NewTask
  <2>2. QED  BY <1>3, <1>4, <2>1
<1>5. ASSUME UNCHANGED <<rollouts, canary, split>>, Stop(t)
      PROVE  StrayInv'
  <2>1. NewTask(1, "live", 1).pc # "abortMark"
    BY DEF NewTask
  <2>2. QED  BY <1>3, <1>5, <2>1
<1>6. CASE ApplyBuildJob(t) \/ Reattach(t) \/ BuildSucceeds(t) \/ Finish(t)
           \/ RouteFails(t) \/ ProbeUnhealthy(t) \/ ProbeAgain(t) \/ PromoteFails(t) \/ GateSamplesDone(t)
  <2>1. UNCHANGED <<rollouts, canary, split>>
    BY <1>6 DEF ApplyBuildJob, Reattach, BuildSucceeds, Finish, RouteFails, ProbeUnhealthy, ProbeAgain, PromoteFails,
                GateSamplesDone, db, cluster
  <2>2. \E pc : pc # "abortMark" /\ Goto(t, pc)
    BY <1>6 DEF ApplyBuildJob, Reattach, BuildSucceeds, Finish, RouteFails, ProbeUnhealthy, ProbeAgain, PromoteFails,
                GateSamplesDone, GateDone
  <2>3. QED  BY <1>4, <2>1, <2>2
<1>7. CASE BuildFails(t) \/ ApplyFails(t) \/ MarkLive(t) \/ NoRollback(t) \/ AbortFail(t)
  BY <1>5, <1>7 DEF BuildFails, ApplyFails, FailRow, MarkLive, NoRollback, AbortFail, db, cluster
<1>8. CASE ApplyRolling(t) \/ PromoteApply(t)
  <2>1. UNCHANGED <<rollouts, canary, split>>
    BY <1>8 DEF ApplyRolling, PromoteApply, db
  <2>2. \E u : u.pc # "abortMark" /\ Become(t, u)
    BY <1>8 DEF ApplyRolling, PromoteApply, StartGate, At, NewTask
  <2>3. QED  BY <1>3, <2>1, <2>2
<1>9. CASE GateCheck(t)
  <2>1. [t EXCEPT !.pc = "sample"].pc # "abortMark"
    BY <1>1 DEF TaskType
  <2>2. QED  BY <1>3, <1>9, <2>1 DEF GateCheck, db, cluster
<1>10. CASE GateSuperseded(t) \/ GateSamplesFailed(t) \/ GateFindsNothing(t)
  <2>1. PICK rb \in BOOLEAN : GateFailed(t, rb)
    BY <1>10 DEF GateSuperseded, GateSamplesFailed, GateFindsNothing
  <2>2. \E u : u.pc # "abortMark" /\ Become(t, u)
    BY <2>1 DEF GateFailed, At, NewTask
  <2>3. UNCHANGED <<rollouts, canary, split>>
    BY <1>10 DEF GateSuperseded, GateSamplesFailed, GateFindsNothing, db, cluster
  <2>4. QED  BY <1>3, <2>2, <2>3
<1>11. CASE Fail(t)
  BY <1>4, <1>5, <1>11 DEF Fail, cluster
<1>12. CASE Drive(t)
  <2>1. Stop(t) \/ \E pc : pc # "abortMark" /\ Goto(t, pc)
    BY <1>1, <1>12 DEF Drive
  <2>2. QED  BY <1>4, <1>5, <1>12, <2>1 DEF Drive, db, cluster
<1>13. CASE ProbeAdvances(t)
  <2>1. \/ \E pc : pc # "abortMark" /\ Goto(t, pc)
        \/ \E next : Become(t, [At(t, "route") EXCEPT !.step = next])
    BY <1>13 DEF ProbeAdvances
  <2>2. \A next : [At(t, "route") EXCEPT !.step = next].pc # "abortMark"
    BY DEF At, NewTask
  <2>3. QED  BY <1>3, <1>4, <1>13, <2>1, <2>2 DEF ProbeAdvances, db, cluster
<1>14. CASE Promote(t) \/ StartCanary(t)
  <2>1. UNCHANGED <<canary, split>>
    BY <1>14 DEF Promote, StartCanary, cluster
  <2>2. \A x \in tasks' : x \in tasks \/ x.pc # "abortMark"
    <3>1. CASE Promote(t)
      BY <1>1, <3>1 DEF Promote, Become, TaskType
    <3>2. CASE StartCanary(t)
      BY <1>1, <3>2 DEF StartCanary, Goto, Become, Stop, At, NewTask, Phases
    <3>3. QED  BY <1>14, <3>1, <3>2
  <2>3. ActiveRollouts(rollouts) \subseteq ActiveRollouts(rollouts')
    <3>1. {"promoting", "starting"} \subseteq Phases /\ 0 \in Nat
      BY DEF Phases
    <3>2. \/ rollouts' = rollouts
          \/ rollouts' = SetRolloutPhase(rollouts, t.d, "promoting")
          \/ rollouts' = [rollouts EXCEPT ![t.d] = Rollout("starting", 0)]
      BY <1>14 DEF Promote, StartCanary
    <3>3. \/ rollouts' = rollouts
          \/ /\ DOMAIN rollouts' = DOMAIN rollouts /\ rollouts'[t.d].phase \in {"promoting", "starting"}
             /\ \A m \in DOMAIN rollouts : m # t.d => rollouts'[m] = rollouts[m]
      <4>1. CASE rollouts' = SetRolloutPhase(rollouts, t.d, "promoting")
        BY <1>1, <3>1, <4>1, SetRolloutPhaseRows
      <4>2. CASE rollouts' = [rollouts EXCEPT ![t.d] = Rollout("starting", 0)]
        BY <1>1, <3>1, <4>2, PutRollout
      <4>3. QED  BY <3>2, <4>1, <4>2
    <3>4. QED  BY <3>3 DEF ActiveRollouts, RolloutActive
  <2>4. QED  BY <2>1, <2>2, <2>3, StrayKept DEF Swept
<1>15. CASE AutoRollback(t)
  <2>1. PICK row, u : Insert(row) /\ u.pc # "abortMark" /\ Become(t, u)
    BY <1>15 DEF AutoRollback, NewTask
  <2>2. ActiveRollouts(rollouts) \subseteq ActiveRollouts(rollouts') /\ UNCHANGED <<canary, split>>
    BY <1>1, <2>1, InsertKeepsActive DEF Insert
  <2>3. \A x \in tasks' : x \in tasks \/ x.pc # "abortMark"
    BY <2>1 DEF Become
  <2>4. QED  BY <2>2, <2>3, StrayKept DEF Swept
<1>16. QED
  BY <1>2, <1>6, <1>7, <1>8, <1>9, <1>10, <1>11, <1>12, <1>13, <1>14, <1>15 DEF TaskStep

LEMMA StrayNext ==
    ASSUME IInv, TurnInv, StrayInv, ~Faults, [Next]_vars
    PROVE  StrayInv'
<1>1. TypeOK
  BY DEF IInv
<1>2. CASE \E t \in tasks : TaskStep(t)
  BY <1>2, StrayTask
<1>3. CASE ClusterStep
  <2>1. UNCHANGED <<rollouts, tasks, split>>
    BY <1>3 DEF ClusterStep, StableReady, StableBroken, CanaryReady, CanaryBroken, JobEnds, JobExpires, db, process
  <2>2. canary = NoPods => canary' = NoPods
    BY <1>3 DEF ClusterStep, StableReady, StableBroken, CanaryReady, CanaryBroken, JobEnds, JobExpires, NoPods
  <2>3. QED  BY <2>1, <2>2, StrayKept DEF Swept
<1>4. CASE DeployImage \/ DeploySource \/ UploadFails \/ Redeploy \/ Rollback
  <2>1. PICK row : Insert(row)
    BY <1>4 DEF DeployImage, DeploySource, UploadFails, Redeploy, Rollback
  <2>2. ActiveRollouts(rollouts) \subseteq ActiveRollouts(rollouts') /\ UNCHANGED <<canary, split>>
    BY <1>1, <2>1, InsertKeepsActive DEF Insert
  <2>3. \A x \in tasks' : x \in tasks \/ x.pc # "abortMark"
    BY <1>4 DEF DeployImage, DeploySource, UploadFails, Redeploy, Rollback, Spawn, NewTask
  <2>4. QED  BY <2>2, <2>3, StrayKept DEF Swept
<1>5. CASE RequestRollout
  <2>1. PICK k \in DOMAIN rollouts, phase \in {"promote-requested", "abort-requested"} :
           rollouts' = SetRolloutPhase(rollouts, k, phase)
    BY <1>5 DEF RequestRollout
  <2>2. /\ rollouts'[k].phase = phase /\ DOMAIN rollouts' = DOMAIN rollouts
        /\ \A m \in DOMAIN rollouts : m # k => rollouts'[m] = rollouts[m]
    <3>1. phase \in Phases /\ rollouts \in Seq(RolloutType)
      BY <1>1 DEF TypeOK, Phases
    <3>2. QED  BY <2>1, <3>1, SetRolloutPhaseRows
  <2>3. ActiveRollouts(rollouts) \subseteq ActiveRollouts(rollouts')
    BY <2>2 DEF ActiveRollouts, RolloutActive
  <2>4. UNCHANGED <<canary, split, tasks>>
    BY <1>5 DEF RequestRollout, cluster, process
  <2>5. QED  BY <2>3, <2>4, StrayKept DEF Swept
<1>6. CASE SetPolicy \/ SyncRead \/ SyncApply \/ Crash \/ Restart \/ Reconcile \/ UNCHANGED vars
  <2>1. UNCHANGED <<rollouts, canary, split>>
    BY <1>6 DEF SetPolicy, SyncRead, SyncApply, Crash, Restart, Reconcile, db, cluster, vars
  <2>2. \A x \in tasks' : x \in tasks \/ x.pc # "abortMark"
    BY <1>6 DEF SetPolicy, SyncRead, SyncApply, Crash, Restart, Reconcile, process, vars, NewTask
  <2>3. QED  BY <2>1, <2>2, StrayKept DEF Swept
<1>7. QED  BY <1>2, <1>3, <1>4, <1>5, <1>6 DEF Next, Request, ServerStep

\* A canary is not in the app's Deployment before it is promoted.
LEMMA KeepsStable ==
    ASSUME IInv, TurnInv
    PROVE  CanaryKeepsStable
<1> SUFFICES ASSUME NEW n \in DOMAIN deploys, deploys[n].status = "deploying",
                    rollouts[n].phase \in BeforePromotion
             PROVE  stable.image # n
  BY DEF CanaryKeepsStable
<1>1. n = Latest
  BY DEF TurnInv, Explained, Unfinished, BeforePromotion
<1>2. RolledOut(n) /\ rollouts[n].phase # "none" /\ Latest # 0
  BY <1>1, TurnFacts DEF TurnInv, BeforePromotion, IInv
<1>3. DeployStrategy(n) = "canary"
  BY <1>2 DEF RolledOut, DeployStrategy
<1>4. QED  BY <1>1, <1>2, <1>3 DEF TurnInv, Untouched, Unfinished

--------------------------------
\* One at a time: the image that is applied.

\* And nobody asks for a promotion, calls do not fail, failures roll back.
Undisturbed ==
    OneAtATime /\ ~Faults /\ MaxAsks = 0 /\ \A p \in Policies : p.autoRollback

\* The app's Deployment asks for the newest live image, or a rollback has
\* failed since that image went live.
NewestApplied ==
    \A n \in DOMAIN deploys :
        IsNewest(n, LiveDeployments(deploys)) =>
            \/ stable.image = deploys[n].image
            \/ \E m \in DOMAIN deploys :
                  m > n /\ deploys[m].from # 0 /\ deploys[m].status = "failed"

Applied(t) == stable.image = deploys[t.d].image

\* The pcs of a canary that has not reached the app's Deployment.
CanaryPCs == StepPCs \cup {"promote", "abort", "abortClean", "abortMark", "abortFail"}

\* Before the app's Deployment is written it has the newest live image; then
\* it has the deploy's own, until the deploy is live or is rolled back.
CourseOK(t) ==
    LET phase == rollouts[t.d].phase
        from == deploys[t.d].from
    IN  /\ t.d = Latest /\ t.pc # "reattach" /\ ~t.resumed
        /\ t.pc \in {"build", "wait", "finish"} => phase = "none" /\ from = 0 /\ NewestApplied
        /\ t.pc = "apply" => phase = "none" /\ (NewestApplied \/ from # 0)
        /\ t.pc = "canaryApply" => phase = "starting" /\ NewestApplied
        /\ t.pc \in CanaryPCs \cup {"promoteApply"} => NewestApplied
        /\ t.pc \in {"gate", "sample"} =>
              IF t.target = "canary" THEN phase = "starting" /\ NewestApplied
              ELSE phase \in {"none", "promoting"} /\ Applied(t)
        /\ t.pc \in {"live", "finishCanary"} => Applied(t)
        /\ t.pc \in {"cleanFail", "fail"} => t.rb

CrashFree ==
    /\ mode = "up"
    /\ \A n \in UnfinishedDeployments(deploys) : Driven(n)
    /\ \A t \in tasks : CourseOK(t)
    /\ tasks = {} => NewestApplied

NewestInv ==
    /\ stable.image # 0 => stable.state # "none"
    /\ used.crash = 0 => CrashFree

--------------------------------
\* What the newest live image is does not change, nor what is applied.
LEMMA NewestKept ==
    ASSUME IInv, NEW t \in tasks, OnlyRow(t.d), deploys'[t.d].status # "live",
           stable'.image = stable.image, NewestApplied
    PROVE  NewestApplied'
<1>1. deploys[t.d].status # "live"
  BY DEF IInv, TaskOK, BuildPCs
<1>2. /\ DOMAIN deploys' = DOMAIN deploys /\ RowStep(t.d)
      /\ \A n \in DOMAIN deploys : n # t.d => deploys'[n] = deploys[n]
  BY DEF OnlyRow
<1>3. LiveDeployments(deploys') = LiveDeployments(deploys)
  BY <1>1, <1>2 DEF LiveDeployments
<1> SUFFICES ASSUME NEW n \in DOMAIN deploys, IsNewest(n, LiveDeployments(deploys))
             PROVE  \/ stable.image = deploys'[n].image
                    \/ \E m \in DOMAIN deploys :
                          m > n /\ deploys'[m].from # 0 /\ deploys'[m].status = "failed"
  BY <1>2, <1>3 DEF NewestApplied
<1>4. deploys'[n] = deploys[n]
  BY <1>1, <1>2 DEF IsNewest, LiveDeployments
<1>5. \A m \in DOMAIN deploys : deploys[m].from # 0 /\ deploys[m].status = "failed"
         => deploys'[m].from # 0 /\ deploys'[m].status = "failed"
  BY <1>2 DEF RowStep, Unfinished
<1>6. QED  BY <1>4, <1>5 DEF NewestApplied

LEMMA NewestFrame ==
    ASSUME UNCHANGED deploys, stable'.image = stable.image
    PROVE  NewestApplied' <=> NewestApplied
  BY DEF NewestApplied

LEMMA NewestInserted ==
    ASSUME TypeOK, NewestApplied, NEW row \in RowType, Insert(row), row.status # "live"
    PROVE  NewestApplied'
<1>1. /\ DOMAIN deploys' = DOMAIN deploys \cup {Len(deploys) + 1}
      /\ deploys'[Len(deploys) + 1] = row
      /\ \A n \in DOMAIN deploys : deploys'[n] = deploys[n]
      /\ stable' = stable
  BY InsertRow DEF Insert
<1>2. LiveDeployments(deploys') = LiveDeployments(deploys)
  <2>1. Len(deploys) + 1 \notin DOMAIN deploys
    BY Domains
  <2>2. QED  BY <1>1, <2>1 DEF LiveDeployments
<1>3. QED  BY <1>1, <1>2 DEF NewestApplied, IsNewest, LiveDeployments

\* The latest deploy is live with what is applied, or is a rollback that failed.
LEMMA NewestEnds ==
    ASSUME TypeOK', Latest' # 0, deploys'[Latest'].status = "live",
           stable'.image = deploys'[Latest'].image
    PROVE  NewestApplied'
<1>1. DOMAIN deploys' = 1..Latest' /\ Latest' \in Nat
  BY TurnFactsNext
<1>2. \A n \in DOMAIN deploys' : IsNewest(n, LiveDeployments(deploys')) => n = Latest'
  BY <1>1 DEF IsNewest, LiveDeployments
<1>3. QED  BY <1>2 DEF NewestApplied

LEMMA NewestFails ==
    ASSUME TypeOK', Latest' # 0, deploys'[Latest'].status = "failed", deploys'[Latest'].from # 0
    PROVE  NewestApplied'
<1>1. DOMAIN deploys' = 1..Latest' /\ Latest' \in Nat
  BY TurnFactsNext
<1>2. \A n \in DOMAIN deploys' : IsNewest(n, LiveDeployments(deploys')) => n < Latest'
  BY <1>1 DEF IsNewest, LiveDeployments
<1>3. QED  BY <1>1, <1>2 DEF NewestApplied

\* There is one goroutine, of the latest deploy.
LEMMA CourseFacts ==
    ASSUME IInv, TurnInv, CrashFree, NEW t \in tasks
    PROVE  /\ tasks = {t} /\ t.d = Latest /\ Latest # 0 /\ CourseOK(t) /\ TaskOK(t) /\ TurnOK(t)
           /\ t \in TaskType /\ t.d \in DOMAIN deploys /\ TypeOK /\ mode = "up"
           /\ UnfinishedDeployments(deploys) \subseteq {t.d}
           /\ rollouts[t.d].phase \in Phases
<1>1. \A x \in tasks : CourseOK(x) /\ x.d = Latest
  BY DEF CrashFree, CourseOK
<1>2. tasks = {t}
  BY <1>1 DEF IInv, OneDriver
<1>3. /\ TypeOK /\ t \in TaskType /\ t.d \in DOMAIN deploys /\ TaskOK(t) /\ TurnOK(t) /\ mode = "up"
      /\ rollouts[t.d] \in RolloutType
  BY TurnFacts DEF IInv, TurnInv, CrashFree
<1>4. UnfinishedDeployments(deploys) \subseteq {t.d}
  BY <1>2 DEF CrashFree, Driven
<1>5. QED  BY <1>1, <1>2, <1>3, <1>4, TurnFacts DEF RolloutType

\* The goroutine goes on, or ends.
LEMMA CourseGoesOn ==
    ASSUME IInv, TurnInv, CrashFree, TypeOK', NEW t \in tasks, OnlyRow(t.d), mode' = mode,
           NEW u, u.d = t.d, Become(t, u), CourseOK(u)'
    PROVE  CrashFree'
<1>1. tasks' = {u} /\ mode' = "up"
  BY CourseFacts DEF Become
<1>2. UnfinishedDeployments(deploys') \subseteq {t.d}
  BY CourseFacts DEF OnlyRow, UnfinishedDeployments
<1>3. QED  BY <1>1, <1>2 DEF CrashFree, Driven

LEMMA CourseEnds ==
    ASSUME IInv, TurnInv, CrashFree, TypeOK', NEW t \in tasks, OnlyRow(t.d), mode' = mode,
           Stop(t), deploys'[t.d].status \in Settled, NewestApplied'
    PROVE  CrashFree'
<1>1. tasks' = {} /\ mode' = "up"
  BY CourseFacts DEF Stop
<1>2. UnfinishedDeployments(deploys') = {}
  BY CourseFacts DEF OnlyRow, UnfinishedDeployments, Unfinished, Settled
<1>3. QED  BY <1>1, <1>2 DEF CrashFree

\* The number of the latest deploy, and what a goroutine knows after its step.
LEMMA CourseNext ==
    ASSUME IInv, TurnInv, CrashFree, TypeOK', NEW t \in tasks, OnlyRow(t.d)
    PROVE  Latest' = Latest
<1>1. DOMAIN deploys' = 1..Latest' /\ Latest' \in Nat /\ DOMAIN deploys = 1..Latest /\ Latest \in Nat
  BY TurnFacts, TurnFactsNext DEF IInv
<1>2. 1..Latest' = 1..Latest
  BY <1>1 DEF OnlyRow
<1>3. QED  BY <1>1, <1>2

\* A step that leaves the rows, and what is applied, alone.
LEMMA CourseMoves ==
    ASSUME IInv, TurnInv, CrashFree, TypeOK', NEW t \in tasks,
           UNCHANGED <<deploys, rollouts, mode>>, OnlyRow(t.d), stable'.image = stable.image,
           NEW u, u.d = t.d, Become(t, u), CourseOK(u)
    PROVE  CrashFree'
<1>1. Latest' = Latest /\ (NewestApplied' <=> NewestApplied)
  BY NewestFrame DEF Latest
<1>2. CourseOK(u)'
  BY <1>1 DEF CourseOK, Applied
<1>3. QED  BY <1>2, CourseGoesOn

\* The steps that only move the goroutine.
LEMMA CourseMoving ==
    ASSUME IInv, TurnInv, StrayInv, NewestInv, CrashFree, TypeOK', NEW t \in tasks,
           \/ ApplyBuildJob(t) \/ Reattach(t) \/ BuildSucceeds(t) \/ CanaryApply(t)
           \/ GateCheck(t) \/ GateSuperseded(t) \/ GateSamplesDone(t)
           \/ GateSamplesFailed(t) \/ GateFindsNothing(t)
           \/ Drive(t) \/ RouteFails(t) \/ ProbeUnhealthy(t) \/ ProbeAdvances(t) \/ ProbeAgain(t)
           \/ PromoteFails(t) \/ Abort(t) \/ AbortClean(t)
    PROVE  CrashFree'
<1> DEFINE phase == rollouts[t.d].phase
<1>1. /\ CourseOK(t) /\ TaskOK(t) /\ TurnOK(t) /\ t \in TaskType /\ t.d = Latest
      /\ phase \in Phases /\ TypeOK /\ t.d \in DOMAIN deploys
  BY CourseFacts
<1>2. UNCHANGED <<deploys, rollouts, mode>> /\ stable'.image = stable.image
  BY DEF ApplyBuildJob, Reattach, BuildSucceeds, CanaryApply, GateCheck, GateSuperseded, GateSamplesDone,
         GateSamplesFailed, GateFindsNothing, Drive, RouteFails, ProbeUnhealthy, ProbeAdvances, ProbeAgain,
         PromoteFails, Abort, AbortClean, db, cluster
<1>3. TaskStep(t) /\ ~AutoRollback(t)
  BY DEF TaskStep, AutoRollback, ApplyBuildJob, Reattach, BuildSucceeds, CanaryApply, GateCheck, GateSuperseded,
         GateSamplesDone, GateSamplesFailed, GateFindsNothing, Drive, RouteFails, ProbeUnhealthy, ProbeAdvances,
         ProbeAgain, PromoteFails, Abort, AbortClean
<1>4. OnlyRow(t.d)
  BY <1>3, TaskEffect DEF Effect
<1>5. ASSUME NEW u, u.d = t.d, CourseOK(u), Become(t, u)  PROVE CrashFree'
  BY <1>2, <1>4, <1>5, CourseMoves
<1>6. ASSUME NEW pc, Goto(t, pc), CourseOK(At(t, pc))  PROVE CrashFree'
  BY <1>5, <1>6 DEF Goto, At, NewTask
<1>7. ASSUME NEW pc \in CanaryPCs, NewestApplied  PROVE CourseOK(At(t, pc))
  BY <1>1, <1>7 DEF CourseOK, At, NewTask, CanaryPCs, StepPCs
<1>8. CASE ApplyBuildJob(t) \/ BuildSucceeds(t)
  <2>1. \E pc \in {"wait", "finish"} : Goto(t, pc)
    BY <1>8 DEF ApplyBuildJob, BuildSucceeds
  <2>2. \A pc \in {"wait", "finish"} : CourseOK(At(t, pc))
    BY <1>1, <1>8 DEF ApplyBuildJob, BuildSucceeds, CourseOK, At, NewTask, CanaryPCs, StepPCs
  <2>3. QED  BY <1>6, <2>1, <2>2
<1>9. CASE Reattach(t) \/ GateSuperseded(t)
  BY <1>1, <1>9 DEF Reattach, GateSuperseded, CourseOK
<1>10. CASE CanaryApply(t)
  <2>1. phase = "starting" /\ NewestApplied
    BY <1>1, <1>10 DEF CanaryApply, CourseOK
  <2>2. PICK u : u = [At(t, "gate") EXCEPT !.target = "canary"]
    OBVIOUS
  <2>3. u.d = t.d /\ u.pc = "gate" /\ u.target = "canary" /\ ~u.resumed
    BY <2>2 DEF At, NewTask
  <2>4. CourseOK(u)
    BY <1>1, <2>1, <2>3 DEF CourseOK, CanaryPCs, StepPCs
  <2>5. Become(t, u)
    BY <1>10, <2>1, <2>2 DEF CanaryApply, StartGate
  <2>6. QED  BY <1>5, <2>3, <2>4, <2>5
<1>11. CASE GateCheck(t)
  <2>1. PICK u : u = [t EXCEPT !.pc = "sample"]
    OBVIOUS
  <2>2. u.d = t.d /\ u.pc = "sample" /\ u.target = t.target /\ u.resumed = t.resumed
    BY <1>1, <2>1 DEF TaskType
  <2>3. /\ ~t.resumed
        /\ IF t.target = "canary" THEN phase = "starting" /\ NewestApplied
           ELSE phase \in {"none", "promoting"} /\ Applied(t)
    BY <1>1, <1>11 DEF GateCheck, CourseOK
  <2>4. CourseOK(u)
    BY <1>1, <2>2, <2>3 DEF CourseOK, Applied, CanaryPCs, StepPCs
  <2>5. QED  BY <1>5, <1>11, <2>1, <2>2, <2>4 DEF GateCheck
<1>12. CASE GateSamplesDone(t)
  <2>1. IF t.target = "canary" THEN phase = "starting" /\ NewestApplied
        ELSE phase \in {"none", "promoting"} /\ Applied(t)
    BY <1>1, <1>12 DEF GateSamplesDone, CourseOK
  <2>2. \/ Goto(t, "drive") /\ NewestApplied
        \/ Goto(t, "finishCanary") /\ Applied(t)
        \/ Goto(t, "live") /\ Applied(t)
    BY <1>12, <2>1 DEF GateSamplesDone, GateDone
  <2>3. Applied(t) => CourseOK(At(t, "live")) /\ CourseOK(At(t, "finishCanary"))
    BY <1>1 DEF CourseOK, Applied, At, NewTask, CanaryPCs, StepPCs
  <2>4. QED  BY <1>6, <1>7, <2>2, <2>3 DEF CanaryPCs, StepPCs
<1>13. CASE GateSamplesFailed(t) \/ GateFindsNothing(t)
  <2>1. /\ t.pc = "sample"
        /\ IF t.target = "canary" THEN phase = "starting" /\ NewestApplied
           ELSE phase \in {"none", "promoting"} /\ Applied(t)
    BY <1>1, <1>13 DEF GateSamplesFailed, GateFindsNothing, CourseOK
  <2>2. CASE t.target = "canary"
    <3>1. PICK rb \in BOOLEAN : GateFailed(t, rb)
      BY <1>13 DEF GateSamplesFailed, GateFindsNothing
    <3>2. Goto(t, "abort")
      BY <2>1, <2>2, <3>1 DEF GateFailed, Goto, BeforePromotion
    <3>3. QED  BY <1>6, <1>7, <2>1, <2>2, <3>2 DEF CanaryPCs
  <2>3. CASE t.target # "canary"
    <3>1. GateSamplesFailed(t)
      <4>1. deploys[t.d].status = "deploying" /\ RowOK(t.d)
        BY <1>1, <2>1, DrivesDeploying DEF Deploying, PCs, BuildPCs, StepPCs, IInv
      <4>2. stable.state # "none"
        BY <2>1, <2>3, <4>1 DEF Applied, RowOK, NewestInv
      <4>3. QED  BY <1>13, <2>3, <4>2 DEF GateFindsNothing, Watched
    <3>2. \E pc \in {"cleanFail", "fail"} : Become(t, [At(t, pc) EXCEPT !.rb = TRUE])
      BY <2>1, <2>3, <3>1 DEF GateSamplesFailed, GateFailed, BeforePromotion
    <3>3. ASSUME NEW pc \in {"cleanFail", "fail"}, Become(t, [At(t, pc) EXCEPT !.rb = TRUE])
          PROVE  CrashFree'
      <4>1. PICK u : u = [At(t, pc) EXCEPT !.rb = TRUE]
        OBVIOUS
      <4>2. u.d = t.d /\ u.pc = pc /\ u.rb /\ ~u.resumed
        BY <4>1 DEF At, NewTask
      <4>3. CourseOK(u)
        BY <1>1, <3>3, <4>2 DEF CourseOK, CanaryPCs, StepPCs
      <4>4. QED  BY <1>5, <3>3, <4>1, <4>2, <4>3
    <3>4. QED  BY <3>2, <3>3
  <2>4. QED  BY <2>2, <2>3
<1>14. CASE Drive(t)
  <2>1. phase \in BeforePromotion /\ NewestApplied
    BY <1>1, <1>14 DEF Drive, TaskOK, CourseOK, CanaryPCs, StepPCs
  <2>2. \E pc \in CanaryPCs : Goto(t, pc)
    BY <1>1, <1>14, <2>1 DEF Drive, BeforePromotion, CanaryPCs, StepPCs
  <2>3. QED  BY <1>6, <1>7, <2>1, <2>2
<1>15. CASE RouteFails(t) \/ ProbeUnhealthy(t) \/ ProbeAgain(t) \/ PromoteFails(t) \/ Abort(t) \/ AbortClean(t)
  <2>1. NewestApplied
    BY <1>1, <1>15 DEF RouteFails, ProbeUnhealthy, ProbeAgain, PromoteFails, Abort, AbortClean, CourseOK,
                       CanaryPCs, StepPCs
  <2>2. \E pc \in CanaryPCs : Goto(t, pc)
    BY <1>15 DEF RouteFails, ProbeUnhealthy, ProbeAgain, PromoteFails, Abort, AbortClean, CanaryPCs, StepPCs
  <2>3. QED  BY <1>6, <1>7, <2>1, <2>2
<1>16. CASE ProbeAdvances(t)
  <2>1. NewestApplied
    BY <1>1, <1>16 DEF ProbeAdvances, CourseOK, CanaryPCs, StepPCs
  <2>2. \/ Goto(t, "promote")
        \/ \E next : Become(t, [At(t, "route") EXCEPT !.step = next])
    BY <1>16 DEF ProbeAdvances
  <2>3. ASSUME NEW next, Become(t, [At(t, "route") EXCEPT !.step = next])
        PROVE  CrashFree'
    <3>1. PICK u : u = [At(t, "route") EXCEPT !.step = next]
      OBVIOUS
    <3>2. u.d = t.d /\ u.pc = "route" /\ ~u.resumed
      BY <3>1 DEF At, NewTask
    <3>3. CourseOK(u)
      BY <1>1, <2>1, <3>2 DEF CourseOK, CanaryPCs, StepPCs
    <3>4. QED  BY <1>5, <2>3, <3>1, <3>2, <3>3
  <2>4. QED  BY <1>6, <1>7, <2>1, <2>2, <2>3 DEF CanaryPCs
<1>17. QED
  BY <1>8, <1>9, <1>10, <1>11, <1>12, <1>13, <1>14, <1>15, <1>16

\* The rollout goes on, or the app's Deployment is written.
LEMMA CoursePhases ==
    ASSUME IInv, TurnInv, CrashFree, TypeOK', NEW t \in tasks,
           \/ StartCanary(t) \/ Route(t) \/ Promote(t) \/ CleanFail(t) \/ FinishCanary(t) \/ AbortMark(t)
    PROVE  CrashFree'
<1> DEFINE phase == rollouts[t.d].phase
<1>1. /\ CourseOK(t) /\ TaskOK(t) /\ TurnOK(t) /\ t \in TaskType /\ t.d = Latest
      /\ phase \in Phases /\ TypeOK /\ t.d \in DOMAIN deploys
      /\ t.d \in DOMAIN rollouts /\ rollouts \in Seq(RolloutType)
  BY CourseFacts, TurnFacts DEF TypeOK
<1>2. /\ UNCHANGED <<deploys, mode, stable>> /\ Latest' = Latest
      /\ NewestApplied' <=> NewestApplied
  <2>1. UNCHANGED <<deploys, mode, stable>>
    BY DEF StartCanary, Route, Promote, CleanFail, FinishCanary, AbortMark, cluster
  <2>2. QED  BY <2>1, NewestFrame DEF Latest
<1>3. TaskStep(t) /\ ~AutoRollback(t)
  BY DEF TaskStep, AutoRollback, StartCanary, Route, Promote, CleanFail, FinishCanary, AbortMark
<1>4. OnlyRow(t.d)
  BY <1>3, TaskEffect DEF Effect
<1>5. ASSUME NEW u, u.d = t.d, CourseOK(u)', Become(t, u)  PROVE CrashFree'
  BY <1>2, <1>4, <1>5, CourseGoesOn
<1>6. ASSUME NEW pc, Goto(t, pc), CourseOK(At(t, pc))'  PROVE CrashFree'
  BY <1>5, <1>6 DEF Goto, At, NewTask
<1>7. ASSUME NEW pc \in CanaryPCs, NewestApplied  PROVE CourseOK(At(t, pc))'
  BY <1>1, <1>2, <1>7 DEF CourseOK, At, NewTask, CanaryPCs, StepPCs
<1>8. CASE StartCanary(t)
  <2>1. phase = "none" /\ t.pc = "apply" /\ deploys[t.d].from = 0 /\ NewestApplied
    BY <1>1, <1>8 DEF StartCanary, CourseOK, DeployStrategy
  <2>2. rollouts' = [rollouts EXCEPT ![t.d] = Rollout("starting", 0)] /\ Goto(t, "canaryApply")
    BY <1>8, <2>1 DEF StartCanary
  <2>3. rollouts'[t.d].phase = "starting"
    <3>1. "starting" \in Phases /\ 0 \in Nat
      BY DEF Phases
    <3>2. QED  BY <1>1, <2>2, <3>1, PutRollout
  <2>4. CourseOK(At(t, "canaryApply"))'
    BY <1>1, <1>2, <2>1, <2>3 DEF CourseOK, At, NewTask, CanaryPCs, StepPCs
  <2>5. QED  BY <1>6, <2>2, <2>4
<1>9. CASE Route(t) \/ AbortMark(t)
  <2>1. NewestApplied
    BY <1>1, <1>9 DEF Route, AbortMark, CourseOK, CanaryPCs, StepPCs
  <2>2. \E pc \in CanaryPCs : Goto(t, pc)
    BY <1>9 DEF Route, AbortMark, CanaryPCs, StepPCs
  <2>3. QED  BY <1>6, <1>7, <2>1, <2>2
<1>10. CASE Promote(t)
  <2>1. NewestApplied /\ ~t.resumed
    BY <1>1, <1>10 DEF Promote, CourseOK, CanaryPCs
  <2>2. PICK u : u = [t EXCEPT !.pc = "promoteApply"]
    OBVIOUS
  <2>3. u.d = t.d /\ u.pc = "promoteApply" /\ u.resumed = t.resumed
    BY <1>1, <2>2 DEF TaskType
  <2>4. CourseOK(u)'
    BY <1>1, <1>2, <2>1, <2>3 DEF CourseOK, CanaryPCs, StepPCs
  <2>5. QED  BY <1>5, <1>10, <2>2, <2>3, <2>4 DEF Promote
<1>11. CASE CleanFail(t)
  <2>1. t.rb /\ ~t.resumed
    BY <1>1, <1>11 DEF CleanFail, CourseOK
  <2>2. PICK u : u = [t EXCEPT !.pc = "fail"]
    OBVIOUS
  <2>3. u.d = t.d /\ u.pc = "fail" /\ u.resumed = t.resumed /\ u.rb = t.rb
    BY <1>1, <2>2 DEF TaskType
  <2>4. CourseOK(u)'
    BY <1>1, <1>2, <2>1, <2>3 DEF CourseOK, CanaryPCs, StepPCs
  <2>5. QED  BY <1>5, <1>11, <2>2, <2>3, <2>4 DEF CleanFail
<1>12. CASE FinishCanary(t)
  <2>1. Applied(t)
    BY <1>1, <1>12 DEF FinishCanary, CourseOK
  <2>2. CourseOK(At(t, "live"))'
    BY <1>1, <1>2, <2>1 DEF CourseOK, Applied, At, NewTask, CanaryPCs, StepPCs
  <2>3. QED  BY <1>6, <1>12, <2>2 DEF FinishCanary
<1>13. QED  BY <1>8, <1>9, <1>10, <1>11, <1>12

LEMMA CourseApplies ==
    ASSUME IInv, TurnInv, CrashFree, TypeOK', NEW t \in tasks, ApplyRolling(t) \/ PromoteApply(t)
    PROVE  CrashFree'
<1> DEFINE phase == rollouts[t.d].phase
<1>1. /\ CourseOK(t) /\ TurnOK(t) /\ t.d = Latest
  BY CourseFacts
<1>2. UNCHANGED <<deploys, rollouts, mode>> /\ Latest' = Latest
  BY DEF ApplyRolling, PromoteApply, db, Latest
<1>3. TaskStep(t) /\ ~AutoRollback(t)
  BY DEF TaskStep, AutoRollback, ApplyRolling, PromoteApply
<1>4. OnlyRow(t.d)
  BY <1>3, TaskEffect DEF Effect
<1>5. phase \in {"none", "promoting"} /\ stable'.image = deploys[t.d].image
  <2>1. CASE ApplyRolling(t)
    BY <1>1, <2>1 DEF ApplyRolling, ApplyStable, CourseOK
  <2>2. CASE PromoteApply(t)
    BY <1>1, <2>2 DEF PromoteApply, ApplyStable, TurnOK
  <2>3. QED  BY <2>1, <2>2
<1>6. PICK u : u = [At(t, "gate") EXCEPT !.target = "stable"]
  OBVIOUS
<1>7. u.d = t.d /\ u.pc = "gate" /\ u.target = "stable" /\ ~u.resumed
  BY <1>6 DEF At, NewTask
<1>8. Become(t, u)
  BY <1>5, <1>6 DEF ApplyRolling, PromoteApply, StartGate
<1>9. CourseOK(u)'
  BY <1>1, <1>2, <1>5, <1>7 DEF CourseOK, Applied, CanaryPCs, StepPCs
<1>10. QED  BY <1>2, <1>4, <1>7, <1>8, <1>9, CourseGoesOn

\* The row is written.
LEMMA CourseRows ==
    ASSUME IInv, TurnInv, CrashFree, ~Faults, \A p \in Policies : p.autoRollback, TypeOK', NEW t \in tasks,
           \/ Finish(t) \/ BuildFails(t) \/ ApplyFails(t) \/ MarkLive(t) \/ Fail(t) \/ AbortFail(t)
           \/ NoRollback(t)
    PROVE  CrashFree'
<1> DEFINE row == deploys[t.d]
<1>1. /\ CourseOK(t) /\ TaskOK(t) /\ TurnOK(t) /\ t \in TaskType /\ t.d = Latest /\ Latest # 0
      /\ TypeOK /\ t.d \in DOMAIN deploys /\ RowOK(t.d) /\ deploys \in Seq(RowType)
      /\ row \in RowType
  BY CourseFacts, TurnFacts DEF TypeOK, IInv
<1>2. UNCHANGED <<rollouts, mode, stable>>
  BY DEF Finish, BuildFails, ApplyFails, FailRow, MarkLive, Fail, AbortFail, NoRollback, cluster, db
<1>3. TaskStep(t) /\ (~AutoRollback(t) \/ NoRollback(t))
  BY DEF TaskStep, AutoRollback, Finish, BuildFails, ApplyFails, MarkLive, Fail, AbortFail
<1>4. OnlyRow(t.d)
  <2>1. CASE NoRollback(t)
    BY <1>1, <2>1, TablesSame DEF NoRollback, db, cluster
  <2>2. CASE ~NoRollback(t)
    BY <1>3, <2>2, TaskEffect DEF Effect
  <2>3. QED  BY <2>1, <2>2
<1>5. Latest' = Latest /\ deploys'[t.d].from = row.from
  BY <1>4, CourseNext DEF OnlyRow, RowStep
<1>6. CASE Finish(t)
  <2>1. row.from = 0 /\ NewestApplied /\ rollouts[t.d].phase = "none"
    BY <1>1, <1>6 DEF Finish, CourseOK
  <2>2. PICK image \in Nat : deploys' = SetImageAndDeploying(deploys, t.d, image)
    BY <1>1, <1>6, TurnFacts DEF Finish, TaskType
  <2>3. deploys'[t.d].status = "deploying"
    BY <1>1, <2>2, SetImageRows
  <2>4. NewestApplied'
    BY <1>2, <1>4, <2>1, <2>3, NewestKept
  <2>5. CourseOK(At(t, "apply"))'
    BY <1>1, <1>2, <1>5, <2>1, <2>4 DEF CourseOK, At, NewTask, CanaryPCs, StepPCs
  <2>6. At(t, "apply").d = t.d /\ Become(t, At(t, "apply"))
    BY <1>6 DEF Finish, Goto, At, NewTask
  <2>7. QED  BY <1>2, <1>4, <2>5, <2>6, CourseGoesOn
<1>7. CASE BuildFails(t) \/ ApplyFails(t)
  <2>1. deploys' = SetDeploymentStatus(deploys, t.d, "failed") /\ "failed" \in Statuses /\ Stop(t)
    BY <1>7 DEF BuildFails, ApplyFails, FailRow, Statuses
  <2>2. deploys'[t.d].status = "failed"
    BY <1>1, <2>1, SetDeploymentStatusRows
  <2>3. NewestApplied
    BY <1>1, <1>7 DEF BuildFails, ApplyFails, CourseOK
  <2>4. NewestApplied'
    BY <1>2, <1>4, <2>2, <2>3, NewestKept
  <2>5. QED  BY <1>2, <1>4, <2>1, <2>2, <2>4, CourseEnds DEF Settled
<1>8. CASE MarkLive(t)
  <2>1. deploys' = SetDeploymentStatus(deploys, t.d, "live") /\ "live" \in Statuses /\ Stop(t)
    BY <1>8 DEF MarkLive, Statuses
  <2>2. deploys'[t.d].status = "live" /\ deploys'[t.d].image = row.image
    BY <1>1, <2>1, SetDeploymentStatusRows
  <2>3. Applied(t)
    BY <1>1, <1>8 DEF MarkLive, CourseOK
  <2>4. NewestApplied'
    BY <1>1, <1>2, <1>5, <2>2, <2>3, NewestEnds DEF Applied
  <2>5. QED  BY <1>2, <1>4, <2>1, <2>2, <2>4, CourseEnds DEF Settled
<1>9. CASE Fail(t)
  <2>1. deploys' = SetDeploymentStatus(deploys, t.d, "failed") /\ "failed" \in Statuses
    BY <1>9 DEF Fail, Statuses
  <2>2. deploys'[t.d].status = "failed"
    BY <1>1, <2>1, SetDeploymentStatusRows
  <2>3. t.rb /\ policy.autoRollback
    BY <1>1, <1>9 DEF Fail, CourseOK, TypeOK
  <2>4. CASE row.from = 0
    <3>1. CourseOK(At(t, "autoRollback"))'
      BY <1>1, <1>5 DEF CourseOK, At, NewTask, CanaryPCs, StepPCs
    <3>2. At(t, "autoRollback").d = t.d /\ Become(t, At(t, "autoRollback"))
      BY <1>9, <2>3, <2>4 DEF Fail, Goto, At, NewTask
    <3>3. QED  BY <1>2, <1>4, <3>1, <3>2, CourseGoesOn
  <2>5. CASE row.from # 0
    <3>1. Stop(t)
      BY <1>9, <2>5 DEF Fail
    <3>2. NewestApplied'
      BY <1>1, <1>5, <2>2, <2>5, NewestFails
    <3>3. QED  BY <1>2, <1>4, <2>2, <3>1, <3>2, CourseEnds DEF Settled
  <2>6. QED  BY <2>4, <2>5
<1>10. CASE AbortFail(t)
  <2>1. row.status = "deploying" /\ NewestApplied
    BY <1>1, <1>10, DrivesDeploying DEF AbortFail, CourseOK, CanaryPCs, Deploying, PCs, BuildPCs, StepPCs
  <2>2. deploys' = SetDeploymentStatus(deploys, t.d, "failed") /\ "failed" \in Statuses /\ Stop(t)
    BY <1>10, <2>1 DEF AbortFail, Statuses
  <2>3. deploys'[t.d].status = "failed"
    BY <1>1, <2>2, SetDeploymentStatusRows
  <2>4. NewestApplied'
    BY <1>2, <1>4, <2>1, <2>3, NewestKept
  <2>5. QED  BY <1>2, <1>4, <2>2, <2>3, <2>4, CourseEnds DEF Settled
<1>11. CASE NoRollback(t)
  <2>1. RollbackTargets(deploys) = {} /\ Stop(t) /\ deploys' = deploys
    BY <1>11 DEF NoRollback, db
  <2>2. row.status = "failed"
    BY <1>1, <1>11 DEF NoRollback, TaskOK
  <2>3. LiveDeployments(deploys) = {}
    <3>1. \A n \in LiveDeployments(deploys) : deploys[n].image # 0 /\ n # Latest
      BY <1>1, <2>2 DEF LiveDeployments, IInv, RowOK
    <3>2. QED  BY <2>1, <3>1 DEF RollbackTargets, Latest
  <2>4. NewestApplied'
    BY <2>1, <2>3 DEF NewestApplied, IsNewest
  <2>5. QED  BY <1>2, <1>4, <2>1, <2>2, <2>4, CourseEnds DEF Settled
<1>12. QED  BY <1>6, <1>7, <1>8, <1>9, <1>10, <1>11

LEMMA CourseAutoRollback ==
    ASSUME IInv, TurnInv, CrashFree, TypeOK', NEW t \in tasks, AutoRollback(t)
    PROVE  CrashFree'
<1>1. PICK m \in DOMAIN deploys :
         /\ IsNewest(m, RollbackTargets(deploys))
         /\ Insert(Row("deploying", deploys[m].image, m, t.d))
         /\ Become(t, NewTask(Len(deploys) + 1, "apply", deploys[m].image))
  BY DEF AutoRollback
<1>2. PICK row : row = Row("deploying", deploys[m].image, m, t.d)
  OBVIOUS
<1>3. PICK u : u = NewTask(Len(deploys) + 1, "apply", deploys[m].image)
  OBVIOUS
<1>4. /\ TypeOK /\ m \in Nat \ {0} /\ deploys[m].image \in Nat /\ t.d \in Nat
      /\ t.d = Latest /\ TaskOK(t) /\ tasks = {t} /\ mode = "up"
      /\ UnfinishedDeployments(deploys) \subseteq {t.d}
      /\ Latest = Len(deploys) /\ Latest \in Nat /\ DOMAIN deploys = 1..Latest
  BY CourseFacts, TurnFacts DEF RowType
<1>5. row \in RowType /\ row.from = m
  BY <1>2, <1>4 DEF Row, RowType, Statuses
<1>6. /\ Len(deploys') = Latest + 1 /\ DOMAIN deploys' = DOMAIN deploys \cup {Latest + 1}
      /\ deploys'[Latest + 1] = row /\ rollouts'[Latest + 1] = NoRollout
      /\ \A n \in DOMAIN deploys : deploys'[n] = deploys[n]
      /\ mode' = "up"
  BY <1>1, <1>2, <1>4, <1>5, InsertRow DEF Insert
<1>7. Latest' = Latest + 1
  BY <1>6 DEF Latest, LatestDeployment
<1>8. u.d = Latest + 1 /\ u.pc = "apply" /\ ~u.resumed /\ tasks' = {u}
  BY <1>1, <1>3, <1>4 DEF NewTask, Become
<1>9. CourseOK(u)'
  BY <1>4, <1>5, <1>6, <1>7, <1>8 DEF CourseOK, NoRollout, Rollout, CanaryPCs, StepPCs
<1>10. \A n \in UnfinishedDeployments(deploys') : n = Latest + 1
  <2>1. deploys[t.d].status = "failed"
    BY <1>4 DEF TaskOK, AutoRollback
  <2>2. UnfinishedDeployments(deploys) = {}
    BY <1>4, <2>1 DEF UnfinishedDeployments, Unfinished
  <2>3. QED  BY <1>6, <2>2 DEF UnfinishedDeployments
<1>11. QED  BY <1>6, <1>8, <1>9, <1>10 DEF CrashFree, Driven

\* A step of the cluster, or one that only reads.
LEMMA CourseFrame ==
    ASSUME CrashFree, UNCHANGED <<deploys, rollouts, tasks, mode>>, stable'.image = stable.image
    PROVE  CrashFree'
<1>1. Latest' = Latest /\ (NewestApplied' <=> NewestApplied)
  BY NewestFrame DEF Latest
<1>2. \A t \in tasks : CourseOK(t) <=> CourseOK(t)'
  BY <1>1 DEF CourseOK, Applied
<1>3. QED  BY <1>1, <1>2 DEF CrashFree, Driven

LEMMA CourseInsert ==
    ASSUME IInv, CrashFree, TypeOK', tasks = {}, NEW row \in RowType, Insert(row), row.status # "live",
           NEW pc, NEW ref, Spawn(pc, ref), pc = "apply" \/ (pc = "build" /\ row.from = 0)
    PROVE  CrashFree'
<1>1. PICK u : u = NewTask(Len(deploys) + 1, pc, ref)
  OBVIOUS
<1>2. /\ TypeOK /\ mode = "up" /\ NewestApplied /\ UnfinishedDeployments(deploys) = {}
      /\ Latest = Len(deploys) /\ Latest \in Nat /\ DOMAIN deploys = 1..Latest
  BY TurnFacts DEF IInv, CrashFree, Driven
<1>3. /\ Len(deploys') = Latest + 1 /\ DOMAIN deploys' = DOMAIN deploys \cup {Latest + 1}
      /\ deploys'[Latest + 1] = row /\ rollouts'[Latest + 1] = NoRollout
      /\ \A n \in DOMAIN deploys : deploys'[n] = deploys[n]
      /\ mode' = "up"
  BY <1>2, InsertRow DEF Insert
<1>4. Latest' = Latest + 1 /\ NewestApplied'
  BY <1>2, <1>3, NewestInserted DEF Latest, LatestDeployment
<1>5. u.d = Latest + 1 /\ u.pc = pc /\ ~u.resumed /\ tasks' = {u}
  BY <1>1, <1>2 DEF NewTask, Spawn
<1>6. CourseOK(u)'
  BY <1>2, <1>3, <1>4, <1>5 DEF CourseOK, NoRollout, Rollout, CanaryPCs, StepPCs
<1>7. \A n \in UnfinishedDeployments(deploys') : n = Latest + 1
  BY <1>2, <1>3 DEF UnfinishedDeployments
<1>8. QED  BY <1>3, <1>5, <1>6, <1>7 DEF CrashFree, Driven

LEMMA CourseUser ==
    ASSUME IInv, CrashFree, OneAtATime, ~Faults, TypeOK',
           DeployImage \/ DeploySource \/ UploadFails \/ Redeploy \/ Rollback
    PROVE  CrashFree'
<1>1. TypeOK /\ tasks = {}
  BY DEF IInv, DeployImage, DeploySource, UploadFails, Redeploy, Rollback, MayDeploy, OneAtATime
<1>2. \A image \in Nat, from \in Nat :
         /\ Row("deploying", image, from, 0) \in RowType
         /\ Row("deploying", image, from, 0).status = "deploying"
  BY DEF Row, RowType, Statuses
<1>3. CASE DeployImage
  <2>1. Len(deploys) + 1 \in Nat
    BY <1>1, LenProperties DEF TypeOK
  <2>2. QED  BY <1>1, <1>2, <1>3, <2>1, CourseInsert DEF DeployImage
<1>4. CASE DeploySource \/ UploadFails
  <2>1. /\ Row("building", 0, 0, 0) \in RowType
        /\ Row("building", 0, 0, 0).status = "building" /\ Row("building", 0, 0, 0).from = 0
    BY DEF Row, RowType, Statuses
  <2>2. QED  BY <1>1, <1>4, <2>1, CourseInsert DEF DeploySource, UploadFails
<1>5. CASE Redeploy
  <2>1. deploys[Latest].image \in Nat
    BY <1>1, <1>5, TurnFacts DEF Redeploy, RowType
  <2>2. QED  BY <1>1, <1>2, <1>5, <2>1, CourseInsert DEF Redeploy
<1>6. CASE Rollback
  <2>1. PICK m \in WithImage(deploys) :
           /\ Insert(Row("deploying", deploys[m].image, m, 0)) /\ Spawn("apply", deploys[m].image)
    BY <1>6 DEF Rollback
  <2>2. m \in Nat /\ deploys[m].image \in Nat
    BY <1>1, <2>1, TurnFacts DEF WithImage, RowType
  <2>3. QED  BY <1>1, <1>2, <2>1, <2>2, CourseInsert
<1>7. QED  BY <1>3, <1>4, <1>5, <1>6

\* A sync applies the image of the latest deploy, which is live.
LEMMA CourseSync ==
    ASSUME IInv, TurnInv, CrashFree, TypeOK', SyncApply
    PROVE  CrashFree'
<1>1. PICK image \in syncs : ApplyStable(image)
  BY DEF SyncApply
<1>2. /\ Latest # 0 /\ deploys[Latest].status = "live" /\ stable'.image = deploys[Latest].image
      /\ UNCHANGED <<deploys, tasks, mode>>
  BY <1>1 DEF TurnInv, SyncsInTurn, ApplyStable, SyncApply, db
<1>3. tasks = {}
  <2>1. ASSUME NEW t \in tasks  PROVE FALSE
    BY <1>2, CourseFacts DEF TaskOK, BuildPCs
  <2>2. QED  BY <2>1
<1>4. NewestApplied'
  BY <1>2, NewestEnds DEF Latest
<1>5. QED  BY <1>2, <1>3, <1>4 DEF CrashFree, Driven

LEMMA CourseTask ==
    ASSUME IInv, TurnInv, StrayInv, NewestInv, CrashFree, Undisturbed, TypeOK', NEW t \in tasks, TaskStep(t)
    PROVE  CrashFree'
  BY CourseMoving, CoursePhases, CourseApplies, CourseRows, CourseAutoRollback DEF TaskStep, Undisturbed

\* An object that has been applied has pods to wait for.
LEMMA PodsOfStable ==
    ASSUME TypeOK, stable.image # 0 => stable.state # "none", [Next]_vars
    PROVE  stable'.image # 0 => stable'.state # "none"
<1>0. stable \in [image : Nat, stamp : Nat, state : PodStates]
  BY DEF TypeOK
<1>1. ASSUME NEW image, ApplyStable(image)
      PROVE  stable'.image # 0 => stable'.state # "none"
  BY <1>1 DEF ApplyStable
<1>2. CASE StableReady \/ StableBroken
  BY <1>0, <1>2 DEF StableReady, StableBroken
<1>3. CASE SyncApply
  BY <1>1, <1>3 DEF SyncApply
<1>4. CASE CanaryReady \/ CanaryBroken \/ \E n \in DOMAIN jobs : JobEnds(n) \/ JobExpires(n)
  BY <1>4 DEF CanaryReady, CanaryBroken, JobEnds, JobExpires
<1>5. CASE DeployImage \/ DeploySource \/ UploadFails \/ Redeploy \/ Rollback
  BY <1>5 DEF DeployImage, DeploySource, UploadFails, Redeploy, Rollback, Insert
<1>6. CASE RequestRollout \/ SetPolicy \/ SyncRead \/ ServerStep \/ UNCHANGED vars
  BY <1>6 DEF RequestRollout, SetPolicy, SyncRead, ServerStep, Crash, Restart, Reconcile, vars, cluster
<1>7. ASSUME NEW t \in tasks, TaskStep(t)
      PROVE  stable'.image # 0 => stable'.state # "none"
  <2>1. CASE ApplyRolling(t) \/ PromoteApply(t)
    BY <1>1, <2>1 DEF ApplyRolling, PromoteApply
  <2>2. CASE ~(ApplyRolling(t) \/ PromoteApply(t))
    <3>1. stable' = stable
      BY <1>7, <2>2 DEF TaskStep, ApplyBuildJob, Reattach, BuildSucceeds, BuildFails, Finish, ApplyFails,
          FailRow, StartCanary, CanaryApply, GateCheck, GateSuperseded, GateSamplesDone, GateSamplesFailed,
          GateFindsNothing, MarkLive, CleanFail, Fail, AutoRollback, Insert, NoRollback, Drive, Route, RouteFails,
          ProbeUnhealthy, ProbeAdvances, ProbeAgain, Promote, PromoteFails, FinishCanary, Abort, AbortClean,
          AbortMark, AbortFail, cluster
    <3>2. QED  BY <3>1
  <2>3. QED  BY <2>1, <2>2
<1>8. QED
  BY <1>2, <1>3, <1>4, <1>5, <1>6, <1>7 DEF Next, ClusterStep, Request

LEMMA NewestNext ==
    ASSUME IInv, TurnInv, StrayInv, NewestInv, Undisturbed, TypeOK', [Next]_vars
    PROVE  NewestInv'
<1>1. TypeOK /\ OneAtATime /\ ~Faults /\ MaxAsks = 0
      /\ used \in [crash : 0..MaxCrashes, ask : 0..MaxAsks, edit : 0..MaxEdits, sync : 0..MaxSyncs]
      /\ BoundsAssumption
  BY BoundsAssumption DEF IInv, Undisturbed, TypeOK
<1>2. stable'.image # 0 => stable'.state # "none"
  BY <1>1, PodsOfStable DEF NewestInv
<1>3. SUFFICES ASSUME used'.crash = 0  PROVE CrashFree'
  BY <1>2 DEF NewestInv
<1>4. ~Crash /\ ~RequestRollout /\ ~SetPolicy
  BY <1>1, <1>3 DEF Crash, RequestRollout, SetPolicy, Spend, OneAtATime, BoundsAssumption
<1>5. used.crash = 0
  <2>1. CASE SyncRead
    BY <1>1, <1>3, <2>1 DEF SyncRead, Spend
  <2>2. CASE ~SyncRead
    <3>1. used' = used
      <4>1. CASE ClusterStep
        BY <4>1 DEF ClusterStep, StableReady, StableBroken, CanaryReady, CanaryBroken, JobEnds, JobExpires
      <4>2. CASE Request
        BY <1>4, <2>2, <4>2 DEF Request, DeployImage, DeploySource, UploadFails, Redeploy, Rollback, Insert, SyncApply
      <4>3. CASE ServerStep \/ UNCHANGED vars
        BY <1>4, <4>3 DEF ServerStep, Restart, Reconcile, vars
      <4>4. ASSUME NEW t \in tasks, TaskStep(t)  PROVE used' = used
        <5>1. CASE AutoRollback(t)
          BY <5>1 DEF AutoRollback, Insert
        <5>2. CASE ~AutoRollback(t)
          BY <1>1, <4>4, <5>2, StepKeepsCopy
        <5>3. QED  BY <5>1, <5>2
      <4>5. QED  BY <4>1, <4>2, <4>3, <4>4 DEF Next
    <3>2. QED  BY <1>3, <3>1
  <2>3. QED  BY <2>1, <2>2
<1>6. CrashFree
  BY <1>5 DEF NewestInv
<1>7. CASE ClusterStep \/ SyncRead \/ UNCHANGED vars
  <2>1. UNCHANGED <<deploys, rollouts, tasks, mode>>
    BY <1>7 DEF ClusterStep, StableReady, StableBroken, CanaryReady, CanaryBroken, JobEnds, JobExpires,
                SyncRead, vars, db, process
  <2>2. stable'.image = stable.image
    <3>1. stable \in [image : Nat, stamp : Nat, state : PodStates]
      BY <1>1 DEF TypeOK
    <3>2. QED  BY <1>7, <3>1 DEF ClusterStep, StableReady, StableBroken, CanaryReady, CanaryBroken, JobEnds,
                JobExpires, SyncRead, vars, cluster
  <2>3. QED  BY <1>6, <2>1, <2>2, CourseFrame
<1>8. CASE DeployImage \/ DeploySource \/ UploadFails \/ Redeploy \/ Rollback
  BY <1>1, <1>6, <1>8, CourseUser
<1>9. CASE SyncApply
  BY <1>6, <1>9, CourseSync
<1>10. CASE ServerStep
  BY <1>4, <1>6, <1>10 DEF ServerStep, Restart, Reconcile, CrashFree
<1>11. CASE \E t \in tasks : TaskStep(t)
  BY <1>6, <1>11, CourseTask
<1>12. QED  BY <1>4, <1>7, <1>8, <1>9, <1>10, <1>11 DEF Next, Request

--------------------------------
LEMMA NewestInit ==
    ASSUME Init
    PROVE  StrayInv /\ NewestInv
<1>1. DOMAIN deploys = {} /\ stable.image = 0 /\ tasks = {} /\ mode = "up" /\ Swept
  BY EmptySeq DEF Init, Swept
<1>2. NewestApplied
  BY <1>1 DEF NewestApplied
<1>3. UnfinishedDeployments(deploys) = {}
  BY <1>1 DEF UnfinishedDeployments
<1>4. QED  BY <1>1, <1>2, <1>3 DEF StrayInv, NewestInv, CrashFree

LEMMA TurnAlways ==
    ASSUME OneAtATime
    PROVE  Spec => []TurnInv
<1>1. Spec => []IInv
  BY Inductive DEF OneAtATime
<1>2. Init => TurnInv
  BY TurnInit
<1>3. IInv /\ TurnInv /\ [Next]_vars => TurnInv'
  BY TurnNext
<1>4. QED  BY <1>1, <1>2, <1>3, PTL DEF Spec

\* A canary leaves the app's own Deployment alone until it is promoted, through
\* crashes, failing calls, and requests to promote or abort it (canary.go:5-6).
THEOREM CanaryKeepsStableAlways ==
    ASSUME OneAtATime
    PROVE  Spec => []CanaryKeepsStable
<1>1. Spec => []IInv
  BY Inductive DEF OneAtATime
<1>2. Spec => []TurnInv
  BY TurnAlways
<1>3. IInv /\ TurnInv => CanaryKeepsStable
  BY KeepsStable
<1>4. QED  BY <1>1, <1>2, <1>3, PTL

\* A leftover canary belongs to a rollout whose row still says so (abortCanary),
\* when no deletion of one has failed.
THEOREM CanariesKeptAlways ==
    ASSUME OneAtATime, ~Faults
    PROVE  Spec => []CanariesKept
<1>1. Spec => []IInv
  BY Inductive DEF OneAtATime
<1>2. Spec => []TurnInv
  BY TurnAlways
<1>3. Init => StrayInv
  BY NewestInit
<1>4. IInv /\ TurnInv /\ StrayInv /\ [Next]_vars => StrayInv'
  BY StrayNext
<1>5. Spec => []StrayInv
  BY <1>1, <1>2, <1>3, <1>4, PTL DEF Spec
<1>6. IInv /\ TurnInv /\ StrayInv => CanariesKept
  BY KeepsStable DEF CanariesKept, NoStrayCanary, StrayInv, Swept
<1>7. QED  BY <1>1, <1>2, <1>5, <1>6, PTL

\* The cluster runs what the rows say: besides, with nothing under way the
\* app's Deployment asks for the newest live image, or keeps that of a
\* rollback that failed since (gateFailed, failDeploy).
THEOREM ClusterMatchesRowsAlways ==
    ASSUME Undisturbed
    PROVE  Spec => []ClusterMatchesRows
<1>1. OneAtATime /\ ~Faults
  BY DEF Undisturbed
<1>2. Spec => []IInv
  BY <1>1, Inductive DEF OneAtATime
<1>3. Spec => []TurnInv
  BY <1>1, TurnAlways
<1>4. Init => StrayInv /\ NewestInv
  BY NewestInit
<1>5. IInv /\ TurnInv /\ StrayInv /\ [Next]_vars => StrayInv'
  BY <1>1, StrayNext
<1>6. IInv /\ IInv' /\ TurnInv /\ StrayInv /\ NewestInv /\ [Next]_vars => NewestInv'
  BY NewestNext DEF IInv
<1>7. Spec => []StrayInv
  BY <1>2, <1>3, <1>4, <1>5, PTL DEF Spec
<1>8. Spec => []NewestInv
  BY <1>2, <1>3, <1>4, <1>6, <1>7, PTL DEF Spec
<1>9. IInv /\ TurnInv /\ StrayInv /\ NewestInv => ClusterMatchesRows
  <2>1. IInv /\ TurnInv /\ StrayInv => CanariesKept
    BY KeepsStable DEF CanariesKept, NoStrayCanary, StrayInv, Swept
  <2>2. NewestInv => StableIsNewestLive
    BY DEF NewestInv, CrashFree, NewestApplied, StableIsNewestLive
  <2>3. QED  BY <2>1, <2>2 DEF ClusterMatchesRows
<1>10. QED  BY <1>2, <1>3, <1>7, <1>8, <1>9, PTL

--------------------------------
\* One at a time: what serves when a deploy is marked live.

\* A gate watches the Deployment that its rollout has reached, and is over
\* when the pods of the deploy's own image serve.
ServeOK(t) ==
    LET phase == rollouts[t.d].phase IN
    /\ t.pc = "canaryApply" => phase = "starting"
    /\ t.pc \in {"gate", "sample"} =>
          IF t.target = "canary" THEN phase = "starting" ELSE Applied(t)
    /\ t.pc \in {"live", "finishCanary"} => Applied(t) /\ serving = stable.image

ServeInv ==
    /\ stable.state = "ready" => serving = stable.image
    /\ \A t \in tasks : ServeOK(t)

ServePCs == {"canaryApply", "gate", "sample", "live", "finishCanary"}

LEMMA ServeFrame ==
    ASSUME ServeInv, UNCHANGED <<deploys, rollouts, serving>>, tasks' \subseteq tasks,
           stable'.image = stable.image, stable'.state = "ready" => stable.state = "ready"
    PROVE  ServeInv'
  BY DEF ServeInv, ServeOK, Applied

LEMMA ServeInsert ==
    ASSUME IInv, ServeInv, NEW row \in RowType, Insert(row), \A x \in tasks' : x \in tasks \/ x.pc \notin ServePCs
    PROVE  ServeInv'
<1>1. /\ \A x \in tasks : x.d \in DOMAIN deploys
      /\ \A n \in DOMAIN deploys : deploys'[n] = deploys[n] /\ rollouts'[n] = rollouts[n]
      /\ UNCHANGED <<stable, serving>>
  BY TurnFacts, InsertRow DEF IInv, Insert
<1>2. ASSUME NEW x \in tasks'  PROVE ServeOK(x)'
  <2>1. CASE x \in tasks
    BY <1>1, <2>1 DEF ServeInv, ServeOK, Applied
  <2>2. CASE x.pc \notin ServePCs
    BY <2>2 DEF ServeOK, ServePCs
  <2>3. QED  BY <2>1, <2>2
<1>3. QED  BY <1>1, <1>2 DEF ServeInv

LEMMA ServeStep ==
    ASSUME IInv, ServeInv, NEW t \in tasks, OnlyRow(t.d), UNCHANGED <<stable, serving>>,
           \A x \in tasks' : x \in tasks \ {t} \/ x.pc \notin ServePCs \/ ServeOK(x)'
    PROVE  ServeInv'
<1>1. ASSUME NEW x \in tasks'  PROVE ServeOK(x)'
  <2>1. CASE x \in tasks \ {t}
    <3>1. x.d # t.d /\ x.d \in DOMAIN deploys
      BY <2>1, TurnFacts DEF IInv, OneDriver
    <3>2. deploys'[x.d] = deploys[x.d] /\ rollouts'[x.d] = rollouts[x.d] /\ ServeOK(x)
      BY <2>1, <3>1 DEF OnlyRow, ServeInv
    <3>3. QED  BY <3>2 DEF ServeOK, Applied
  <2>2. CASE x.pc \notin ServePCs
    BY <2>2 DEF ServeOK, ServePCs
  <2>3. QED  BY <2>1, <2>2
<1>2. QED  BY <1>1 DEF ServeInv

\* The steps that end the wait for pods, or come nowhere near it.
LEMMA ServePlain ==
    ASSUME IInv, ServeInv, NEW t \in tasks,
           \/ ApplyBuildJob(t) \/ Reattach(t) \/ BuildSucceeds(t) \/ BuildFails(t) \/ Finish(t) \/ ApplyFails(t)
           \/ GateSuperseded(t) \/ GateSamplesFailed(t) \/ GateFindsNothing(t)
           \/ MarkLive(t) \/ CleanFail(t) \/ Fail(t) \/ NoRollback(t)
           \/ Drive(t) \/ Route(t) \/ RouteFails(t) \/ ProbeUnhealthy(t) \/ ProbeAdvances(t) \/ ProbeAgain(t)
           \/ Promote(t) \/ PromoteFails(t) \/ Abort(t) \/ AbortClean(t) \/ AbortMark(t) \/ AbortFail(t)
    PROVE  ServeInv'
<1>1. /\ TaskStep(t) /\ t \in TaskType /\ TypeOK /\ rollouts[t.d].phase \in Phases
  BY TurnFacts DEF TaskStep, IInv, RolloutType
<1>2. UNCHANGED <<stable, serving>>
  BY DEF ApplyBuildJob, Reattach, BuildSucceeds, BuildFails, Finish, ApplyFails, FailRow, GateSuperseded,
         GateSamplesFailed, GateFindsNothing, MarkLive, CleanFail, Fail, NoRollback, Drive, Route, RouteFails,
         ProbeUnhealthy, ProbeAdvances, ProbeAgain, Promote, PromoteFails, Abort, AbortClean, AbortMark, AbortFail,
         db, cluster
<1>3. OnlyRow(t.d)
  <2>1. CASE NoRollback(t)
    BY <1>1, <2>1, TablesSame DEF NoRollback, db, cluster
  <2>2. CASE ~NoRollback(t)
    <3>1. ~AutoRollback(t)
      BY <2>2 DEF AutoRollback, ApplyBuildJob, Reattach, BuildSucceeds, BuildFails, Finish, ApplyFails, GateSuperseded,
         GateSamplesFailed, GateFindsNothing, MarkLive, CleanFail, Fail, Drive, Route, RouteFails,
         ProbeUnhealthy, ProbeAdvances, ProbeAgain, Promote, PromoteFails, Abort, AbortClean, AbortMark, AbortFail
    <3>2. QED  BY <1>1, <3>1, TaskEffect DEF Effect
  <2>3. QED  BY <2>1, <2>2
<1>4. SUFFICES \A x \in tasks' : x \in tasks \ {t} \/ x.pc \notin ServePCs
  BY <1>2, <1>3, ServeStep
<1>5. ASSUME NEW pc, Goto(t, pc), pc \notin ServePCs
      PROVE  \A x \in tasks' : x \in tasks \ {t} \/ x.pc \notin ServePCs
  BY <1>5 DEF Goto, Become, At, NewTask
<1>6. CASE Stop(t)
  BY <1>6 DEF Stop
<1>7. CASE \/ ApplyBuildJob(t) \/ Reattach(t) \/ BuildSucceeds(t) \/ Finish(t) \/ Route(t) \/ RouteFails(t)
           \/ ProbeUnhealthy(t) \/ ProbeAgain(t) \/ PromoteFails(t) \/ Abort(t) \/ AbortClean(t) \/ AbortMark(t)
  <2>1. \E pc : pc \notin ServePCs /\ Goto(t, pc)
    BY <1>7 DEF ApplyBuildJob, Reattach, BuildSucceeds, Finish, Route, RouteFails, ProbeUnhealthy, ProbeAgain,
                PromoteFails, Abort, AbortClean, AbortMark, ServePCs
  <2>2. QED  BY <1>5, <2>1
<1>8. CASE BuildFails(t) \/ ApplyFails(t) \/ MarkLive(t) \/ NoRollback(t) \/ AbortFail(t)
  BY <1>6, <1>8 DEF BuildFails, ApplyFails, FailRow, MarkLive, NoRollback, AbortFail
<1>9. CASE Fail(t)
  BY <1>5, <1>6, <1>9 DEF Fail, ServePCs
<1>10. CASE Drive(t)
  <2>1. Stop(t) \/ \E pc : pc \notin ServePCs /\ Goto(t, pc)
    BY <1>1, <1>10 DEF Drive, ServePCs
  <2>2. QED  BY <1>5, <1>6, <2>1
<1>11. CASE GateSuperseded(t) \/ GateSamplesFailed(t) \/ GateFindsNothing(t)
  <2>1. PICK rb \in BOOLEAN : GateFailed(t, rb)
    BY <1>11 DEF GateSuperseded, GateSamplesFailed, GateFindsNothing
  <2>2. QED  BY <2>1 DEF GateFailed, Become, At, NewTask, ServePCs
<1>12. CASE ProbeAdvances(t)
  <2>1. \/ Goto(t, "promote")
        \/ \E next : Become(t, [At(t, "route") EXCEPT !.step = next])
    BY <1>12 DEF ProbeAdvances
  <2>2. QED  BY <1>5, <2>1 DEF Become, At, NewTask, ServePCs
<1>13. CASE CleanFail(t) \/ Promote(t)
  BY <1>1, <1>13 DEF CleanFail, Promote, Become, TaskType, ServePCs
<1>14. QED  BY <1>7, <1>8, <1>9, <1>10, <1>11, <1>12, <1>13

\* The gate's own steps, and those that lead to it.
LEMMA ServeGate ==
    ASSUME IInv, ServeInv, NEW t \in tasks,
           StartCanary(t) \/ CanaryApply(t) \/ GateCheck(t) \/ GateSamplesDone(t) \/ FinishCanary(t)
    PROVE  ServeInv'
<1> DEFINE phase == rollouts[t.d].phase
<1>1. /\ TaskStep(t) /\ t \in TaskType /\ TypeOK /\ phase \in Phases /\ ServeOK(t)
      /\ t.d \in DOMAIN rollouts /\ rollouts \in Seq(RolloutType)
  BY TurnFacts DEF TaskStep, IInv, RolloutType, ServeInv, TypeOK
<1>2. UNCHANGED <<deploys, stable, serving>>
  BY DEF StartCanary, CanaryApply, GateCheck, GateSamplesDone, FinishCanary, db, cluster
<1>3. OnlyRow(t.d)
  <2>1. ~AutoRollback(t)
    BY DEF AutoRollback, StartCanary, CanaryApply, GateCheck, GateSamplesDone, FinishCanary
  <2>2. QED  BY <1>1, <2>1, TaskEffect DEF Effect
<1>4. ASSUME NEW u, Become(t, u), u.pc \notin ServePCs \/ ServeOK(u)'  PROVE ServeInv'
  BY <1>2, <1>3, <1>4, ServeStep DEF Become
<1>5. CASE StartCanary(t)
  <2>1. CASE phase \in {"none", "starting"}
    <3>1. Goto(t, "canaryApply")
      BY <1>5, <2>1 DEF StartCanary
    <3>2. rollouts'[t.d].phase = "starting"
      <4>1. "starting" \in Phases /\ 0 \in Nat
        BY DEF Phases
      <4>2. CASE phase = "starting"
        BY <1>5, <4>2 DEF StartCanary
      <4>3. CASE phase = "none"
        <5>1. rollouts' = [rollouts EXCEPT ![t.d] = Rollout("starting", 0)]
          BY <1>5, <4>3 DEF StartCanary
        <5>2. QED  BY <1>1, <4>1, <5>1, PutRollout
      <4>4. QED  BY <2>1, <4>2, <4>3
    <3>3. ServeOK(At(t, "canaryApply"))'
      BY <3>2 DEF ServeOK, At, NewTask
    <3>4. QED  BY <1>4, <3>1, <3>3 DEF Goto
  <2>2. CASE phase \notin {"none", "starting"}
    <3>1. \A x \in tasks' : x \in tasks \ {t} \/ x.pc \notin ServePCs
      BY <1>1, <1>5, <2>2 DEF StartCanary, Goto, Become, Stop, At, NewTask, ServePCs, Phases
    <3>2. QED  BY <1>2, <1>3, <3>1, ServeStep
  <2>3. QED  BY <2>1, <2>2
<1>6. CASE CanaryApply(t)
  <2>1. phase = "starting" /\ rollouts' = rollouts
    BY <1>1, <1>6 DEF CanaryApply, ServeOK, db
  <2>2. PICK u : u = [At(t, "gate") EXCEPT !.target = "canary"]
    OBVIOUS
  <2>3. u.d = t.d /\ u.pc = "gate" /\ u.target = "canary"
    BY <2>2 DEF At, NewTask
  <2>4. ServeOK(u)'
    BY <2>1, <2>3 DEF ServeOK
  <2>5. QED  BY <1>4, <1>6, <2>1, <2>2, <2>4 DEF CanaryApply, StartGate
<1>7. CASE GateCheck(t)
  <2>1. PICK u : u = [t EXCEPT !.pc = "sample"]
    OBVIOUS
  <2>2. u.d = t.d /\ u.pc = "sample" /\ u.target = t.target
    BY <1>1, <2>1 DEF TaskType
  <2>3. IF t.target = "canary" THEN phase = "starting" ELSE Applied(t)
    BY <1>1, <1>7 DEF GateCheck, ServeOK
  <2>4. rollouts' = rollouts
    BY <1>7 DEF GateCheck, db
  <2>5. ServeOK(u)'
    BY <1>2, <2>2, <2>3, <2>4 DEF ServeOK, Applied
  <2>6. QED  BY <1>4, <1>7, <2>1, <2>5 DEF GateCheck
<1>8. CASE GateSamplesDone(t)
  <2>1. /\ rollouts' = rollouts
        /\ IF t.target = "canary" THEN phase = "starting" ELSE Applied(t) /\ serving = stable.image
    BY <1>1, <1>8 DEF GateSamplesDone, Watched, ServeOK, ServeInv, db
  <2>2. CASE phase = "starting"
    <3>1. Goto(t, "drive") /\ At(t, "drive").pc \notin ServePCs
      BY <1>8, <2>2 DEF GateSamplesDone, GateDone, At, NewTask, ServePCs
    <3>2. QED  BY <1>4, <3>1 DEF Goto
  <2>3. CASE phase # "starting"
    <3>1. PICK pc \in {"live", "finishCanary"} : Goto(t, pc)
      BY <1>8, <2>3 DEF GateSamplesDone, GateDone
    <3>2. ServeOK(At(t, pc))'
      BY <1>2, <2>1, <2>3 DEF ServeOK, Applied, At, NewTask
    <3>3. QED  BY <1>4, <3>1, <3>2 DEF Goto
  <2>4. QED  BY <2>2, <2>3
<1>9. CASE FinishCanary(t)
  <2>1. Applied(t) /\ serving = stable.image
    BY <1>1, <1>9 DEF FinishCanary, ServeOK
  <2>2. ServeOK(At(t, "live"))'
    BY <1>2, <2>1 DEF ServeOK, Applied, At, NewTask
  <2>3. QED  BY <1>4, <1>9, <2>2 DEF FinishCanary, Goto
<1>10. QED  BY <1>5, <1>6, <1>7, <1>8, <1>9

\* The app's Deployment is written by the latest deploy, or with its image.
LEMMA ServeApplies ==
    ASSUME IInv, TurnInv, ServeInv, NEW t \in tasks, ApplyRolling(t) \/ PromoteApply(t)
    PROVE  ServeInv'
<1>1. /\ TaskOK(t) /\ TurnOK(t) /\ TypeOK /\ RolledOut(t.d) /\ t.d \in DOMAIN deploys
      /\ deploys[t.d].status = "deploying"
  BY TurnFacts, DrivesDeploying DEF IInv, TurnInv, ApplyRolling, PromoteApply, Deploying, PCs, BuildPCs, StepPCs
<1>2. UNCHANGED <<deploys, rollouts, serving>>
  BY DEF ApplyRolling, PromoteApply, db
<1>3. t.d = Latest
  <2>1. CASE PromoteApply(t)
    BY <1>1, <2>1 DEF TurnOK, PromoteApply
  <2>2. CASE ApplyRolling(t) /\ t.d # Latest
    <3>1. rollouts[t.d].phase \in {"done", "aborted"}
      BY <1>1, <2>2 DEF TurnInv, Explained, Unfinished
    <3>2. DeployStrategy(t.d) = "canary"
      BY <1>1, <3>1 DEF RolledOut, DeployStrategy
    <3>3. QED  BY <2>2, <3>2 DEF ApplyRolling
  <2>3. QED  BY <2>1, <2>2
<1>4. /\ stable'.image = deploys[t.d].image
      /\ stable' = stable \/ stable'.state = "rolling"
      /\ rollouts[t.d].phase # "starting"
  <2>1. CASE ApplyRolling(t)
    <3>1. rollouts[t.d].phase = "none"
      BY <1>1, <2>1 DEF ApplyRolling, RolledOut, DeployStrategy
    <3>2. QED  BY <2>1, <3>1 DEF ApplyRolling, ApplyStable
  <2>2. CASE PromoteApply(t)
    BY <1>1, <2>2 DEF PromoteApply, ApplyStable, TurnOK
  <2>3. QED  BY <2>1, <2>2
<1>5. PICK u : u = [At(t, "gate") EXCEPT !.target = "stable"]
  OBVIOUS
<1>6. u.d = t.d /\ u.pc = "gate" /\ u.target = "stable" /\ tasks' = (tasks \ {t}) \cup {u}
  BY <1>4, <1>5 DEF ApplyRolling, PromoteApply, StartGate, Become, At, NewTask
<1>7. ServeOK(u)'
  BY <1>2, <1>4, <1>6 DEF ServeOK, Applied
<1>8. ASSUME NEW x \in tasks \ {t}  PROVE ServeOK(x)'
  <2>1. x.d # Latest /\ TurnOK(x)
    BY <1>3 DEF IInv, OneDriver, TurnInv
  <2>2. QED  BY <2>1 DEF TurnOK, ServeOK
<1>9. QED  BY <1>2, <1>4, <1>6, <1>7, <1>8 DEF ServeInv

LEMMA ServeSync ==
    ASSUME IInv, TurnInv, ServeInv, SyncApply
    PROVE  ServeInv'
<1>1. PICK image \in syncs : ApplyStable(image)
  BY DEF SyncApply
<1>2. /\ Latest # 0 /\ deploys[Latest].status = "live" /\ UNCHANGED <<deploys, rollouts, serving, tasks>>
      /\ stable' = stable \/ stable'.state = "rolling"
  BY <1>1 DEF TurnInv, SyncsInTurn, ApplyStable, SyncApply, db
<1>3. ASSUME NEW x \in tasks'  PROVE ServeOK(x)'
  <2>1. x \in tasks /\ TurnOK(x) /\ TaskOK(x)
    BY <1>2 DEF IInv, TurnInv
  <2>2. x.d # Latest
    BY <1>2, <2>1 DEF TaskOK, BuildPCs
  <2>3. QED  BY <2>1, <2>2 DEF TurnOK, ServeOK
<1>4. QED  BY <1>2, <1>3 DEF ServeInv

LEMMA ServeNext ==
    ASSUME IInv, TurnInv, ServeInv, MaxAsks = 0, [Next]_vars
    PROVE  ServeInv'
<1>1. /\ TypeOK /\ stable \in [image : Nat, stamp : Nat, state : PodStates]
      /\ used \in [crash : 0..MaxCrashes, ask : 0..MaxAsks, edit : 0..MaxEdits, sync : 0..MaxSyncs]
  BY DEF IInv, TypeOK
<1>2. ~RequestRollout
  BY <1>1 DEF RequestRollout
<1>3. CASE StableReady
  <2>1. serving' = stable.image /\ stable'.image = stable.image /\ UNCHANGED <<deploys, rollouts, tasks>>
    BY <1>1, <1>3 DEF StableReady, db, process
  <2>2. \A x \in tasks' : ServeOK(x)'
    BY <2>1 DEF ServeInv, ServeOK, Applied
  <2>3. QED  BY <2>1, <2>2 DEF ServeInv
<1>4. CASE \/ StableBroken \/ CanaryReady \/ CanaryBroken \/ (\E n \in DOMAIN jobs : JobEnds(n) \/ JobExpires(n))
           \/ SetPolicy \/ SyncRead \/ Crash \/ Restart \/ UNCHANGED vars
  <2>1. UNCHANGED <<deploys, rollouts, serving>> /\ tasks' \subseteq tasks
    BY <1>4 DEF StableBroken, CanaryReady, CanaryBroken, JobEnds, JobExpires, SetPolicy, SyncRead, Crash, Restart,
                vars, db, cluster, process
  <2>2. stable'.image = stable.image /\ (stable'.state = "ready" => stable.state = "ready")
    BY <1>1, <1>4 DEF StableBroken, CanaryReady, CanaryBroken, JobEnds, JobExpires, SetPolicy, SyncRead, Crash, Restart,
                vars, cluster
  <2>3. QED  BY <2>1, <2>2, ServeFrame
<1>5. CASE Reconcile
  <2>1. \A x \in tasks' : x \in tasks \/ x.pc \notin ServePCs
    BY <1>5 DEF Reconcile, NewTask, ServePCs
  <2>2. UNCHANGED <<deploys, rollouts, serving, stable>>
    BY <1>5 DEF Reconcile, db, cluster
  <2>3. \A x \in tasks' : ServeOK(x)'
    <3> SUFFICES ASSUME NEW x \in tasks'  PROVE ServeOK(x)'
      OBVIOUS
    <3>1. CASE x \in tasks
      BY <2>2, <3>1 DEF ServeInv, ServeOK, Applied
    <3>2. CASE x.pc \notin ServePCs
      BY <3>2 DEF ServeOK, ServePCs
    <3>3. QED  BY <2>1, <3>1, <3>2
  <2>4. QED  BY <2>2, <2>3 DEF ServeInv
<1>6. CASE DeployImage \/ DeploySource \/ UploadFails \/ Redeploy \/ Rollback
  <2>1. \A image \in Nat, from \in Nat : Row("deploying", image, from, 0) \in RowType
    BY DEF Row, RowType, Statuses
  <2>2. Row("building", 0, 0, 0) \in RowType
    BY DEF Row, RowType, Statuses
  <2>3. \E row \in RowType : Insert(row)
    <3>1. CASE DeployImage
      <4>1. Len(deploys) + 1 \in Nat
        BY <1>1, LenProperties DEF TypeOK
      <4>2. QED  BY <2>1, <3>1, <4>1 DEF DeployImage
    <3>2. CASE DeploySource \/ UploadFails
      BY <2>2, <3>2 DEF DeploySource, UploadFails
    <3>3. CASE Redeploy
      <4>1. deploys[Latest].image \in Nat
        BY <1>1, <3>3, TurnFacts DEF Redeploy, RowType
      <4>2. QED  BY <2>1, <3>3, <4>1 DEF Redeploy
    <3>4. CASE Rollback
      <4>1. PICK m \in WithImage(deploys) : Insert(Row("deploying", deploys[m].image, m, 0))
        BY <3>4 DEF Rollback
      <4>2. m \in Nat /\ deploys[m].image \in Nat
        BY <1>1, <4>1, TurnFacts DEF WithImage, RowType
      <4>3. QED  BY <2>1, <4>1, <4>2
    <3>5. QED  BY <1>6, <3>1, <3>2, <3>3, <3>4
  <2>4. \A x \in tasks' : x \in tasks \/ x.pc \notin ServePCs
    BY <1>6 DEF DeployImage, DeploySource, UploadFails, Redeploy, Rollback, Spawn, NewTask, ServePCs
  <2>5. QED  BY <2>3, <2>4, ServeInsert
<1>7. CASE SyncApply
  BY <1>7, ServeSync
<1>8. ASSUME NEW t \in tasks, AutoRollback(t)  PROVE ServeInv'
  <2>1. PICK m \in DOMAIN deploys :
           /\ Insert(Row("deploying", deploys[m].image, m, t.d))
           /\ Become(t, NewTask(Len(deploys) + 1, "apply", deploys[m].image))
    BY <1>8 DEF AutoRollback
  <2>2. m \in Nat /\ deploys[m].image \in Nat /\ t.d \in Nat
    BY <1>1, TurnFacts DEF RowType
  <2>3. Row("deploying", deploys[m].image, m, t.d) \in RowType
    BY <2>2 DEF Row, RowType, Statuses
  <2>4. \A x \in tasks' : x \in tasks \/ x.pc \notin ServePCs
    BY <2>1 DEF Become, NewTask, ServePCs
  <2>5. QED  BY <2>1, <2>3, <2>4, ServeInsert
<1>9. CASE \E t \in tasks : TaskStep(t)
  BY <1>8, <1>9, ServePlain, ServeGate, ServeApplies DEF TaskStep
<1>10. QED
  BY <1>2, <1>3, <1>4, <1>5, <1>6, <1>7, <1>9 DEF Next, ClusterStep, Request, ServerStep

\* Only MarkLive marks a deploy live.
LEMMA LiveIsMarked ==
    ASSUME IInv, [Next]_vars, NEW n \in DOMAIN deploys, deploys[n].status # "live", deploys'[n].status = "live"
    PROVE  \E t \in tasks : MarkLive(t) /\ t.d = n
<1>1. /\ TypeOK /\ deploys \in Seq(RowType) /\ {"live", "failed"} \subseteq Statuses
  BY DEF IInv, TypeOK, Statuses
<1>2. deploys' # deploys
  OBVIOUS
<1>3. ASSUME NEW row \in RowType, Insert(row)  PROVE FALSE
  BY <1>1, <1>3, InsertRow
<1>4. CASE Request
  <2>1. DeployImage \/ DeploySource \/ UploadFails \/ Redeploy \/ Rollback
    BY <1>2, <1>4 DEF Request, RequestRollout, SetPolicy, SyncRead, SyncApply, db
  <2>2. PICK row : Insert(row)
    BY <2>1 DEF DeployImage, DeploySource, UploadFails, Redeploy, Rollback
  <2>3. deploys' = Append(deploys, row) /\ Len(deploys) \in Nat /\ n \in 1..Len(deploys)
    BY <1>1, <2>2, LenProperties DEF Insert
  <2>4. TypeOK'
    BY <1>1, <1>4, TypeRequest
  <2>5. deploys' \in Seq(RowType) /\ DOMAIN deploys' = 1..Len(deploys')
    BY <2>4, LenProperties DEF TypeOK
  <2>6. deploys'[n] = deploys[n]
    BY <1>1, <2>3, AppendProperties
  <2>7. QED  BY <2>6
<1>5. CASE ClusterStep \/ ServerStep \/ UNCHANGED vars
  BY <1>2, <1>5 DEF ClusterStep, StableReady, StableBroken, CanaryReady, CanaryBroken, JobEnds, JobExpires,
                    ServerStep, Crash, Restart, Reconcile, vars, db
<1>6. ASSUME NEW t \in tasks, TaskStep(t)  PROVE MarkLive(t) /\ t.d = n
  <2>1. t.d \in DOMAIN deploys /\ t \in TaskType
    BY <1>1, TurnFacts
  <2>2. ASSUME deploys' = SetDeploymentStatus(deploys, t.d, "failed")  PROVE FALSE
    <3>1. "failed" \in Statuses
      BY <1>1
    <3>2. /\ deploys'[t.d].status = "failed"
          /\ \A m \in DOMAIN deploys : m # t.d => deploys'[m] = deploys[m]
      BY <1>1, <2>1, <2>2, <3>1, SetDeploymentStatusRows
    <3>3. QED  BY <3>2
  <2>3. ~(BuildFails(t) \/ ApplyFails(t) \/ Fail(t) \/ AbortFail(t))
    BY <1>2, <2>2 DEF BuildFails, ApplyFails, FailRow, Fail, AbortFail
  <2>4. ~Finish(t)
    <3>1. ASSUME Finish(t)  PROVE FALSE
      <4>1. PICK image \in Nat : deploys' = SetImageAndDeploying(deploys, t.d, image)
        BY <2>1, <3>1, TurnFacts, <1>1 DEF Finish, TaskType
      <4>2. QED  BY <1>1, <2>1, <4>1, SetImageRows
    <3>2. QED  BY <3>1
  <2>5. ~AutoRollback(t)
    <3>1. ASSUME AutoRollback(t)  PROVE FALSE
      <4>1. PICK m \in DOMAIN deploys : Insert(Row("deploying", deploys[m].image, m, t.d))
        BY <3>1 DEF AutoRollback
      <4>2. m \in Nat /\ deploys[m].image \in Nat /\ t.d \in Nat
        <5>1. DOMAIN deploys = 1..Latest /\ Latest \in Nat /\ deploys[m] \in RowType
          BY <1>1, TurnFacts
        <5>2. QED  BY <2>1, <5>1 DEF RowType
      <4>3. Row("deploying", deploys[m].image, m, t.d) \in RowType
        BY <4>2 DEF Row, RowType, Statuses
      <4>4. QED  BY <1>3, <4>1, <4>3
    <3>2. QED  BY <3>1
  <2>6. MarkLive(t)
    BY <1>2, <1>6, <2>3, <2>4, <2>5
       DEF TaskStep, ApplyBuildJob, Reattach, BuildSucceeds, ApplyRolling, StartCanary, CanaryApply,
           GateCheck, GateSuperseded, GateSamplesDone, GateSamplesFailed, GateFindsNothing, CleanFail, NoRollback,
           Drive, Route, RouteFails, ProbeUnhealthy, ProbeAdvances, ProbeAgain, Promote, PromoteApply, PromoteFails,
           FinishCanary, Abort, AbortClean, AbortMark, db
  <2>7. deploys' = SetDeploymentStatus(deploys, t.d, "live")
    BY <2>6 DEF MarkLive
  <2>8. t.d = n
    BY <1>1, <2>1, <2>7, SetDeploymentStatusRows
  <2>9. QED  BY <2>6, <2>8
<1>7. QED  BY <1>4, <1>5, <1>6 DEF Next

\* A deploy is marked live only while its own pods serve, through crashes and
\* failing calls (deploying.md:145, gateDone).
THEOREM LiveServesAlways ==
    ASSUME OneAtATime, MaxAsks = 0
    PROVE  Spec => LiveServes
<1>1. Spec => []IInv
  BY Inductive DEF OneAtATime
<1>2. Spec => []TurnInv
  BY TurnAlways
<1>3. Init => ServeInv
  BY DEF Init, ServeInv
<1>4. IInv /\ TurnInv /\ ServeInv /\ [Next]_vars => ServeInv'
  BY ServeNext
<1>5. ASSUME IInv, ServeInv, [Next]_vars
      PROVE  [\A n \in DOMAIN deploys :
                deploys[n].status # "live" /\ deploys'[n].status = "live"
                  => serving = deploys[n].image]_vars
  <2> SUFFICES ASSUME NEW n \in DOMAIN deploys, deploys[n].status # "live", deploys'[n].status = "live"
               PROVE  serving = deploys[n].image
    OBVIOUS
  <2>1. PICK t \in tasks : MarkLive(t) /\ t.d = n
    BY <1>5, LiveIsMarked
  <2>2. QED  BY <1>5, <2>1 DEF MarkLive, ServeInv, ServeOK, Applied
<1>6. QED  BY <1>1, <1>2, <1>3, <1>4, <1>5, PTL DEF Spec, LiveServes

================================
