------------------------------ MODULE DeployStore ------------------------------
(***************************************************************************)
(* The deployment tables of one app, as the server reads and writes them   *)
(* (internal/store/deployments.go, internal/store/rollouts.go).  SQLite is *)
(* opened with one connection, so every statement is atomic; the           *)
(* interleavings are between statements, and live in module Deploy.        *)
(*                                                                         *)
(* A deployment is named by its seq, its index in the sequence of rows.    *)
(* Images are data: the image that deploy n introduced (its upload, or the *)
(* result of its build) is n itself, and 0 is the empty image_ref.         *)
(***************************************************************************)
EXTENDS Naturals, Sequences

\* deployments.status
Statuses   == {"building", "deploying", "live", "failed"}
Unfinished == {"building", "deploying"}
Settled    == {"live", "failed"}

\* rollouts.phase; "none" stands for the absence of a rollouts row.
Phases == {"none", "starting", "stepping", "promote-requested",
           "abort-requested", "promoting", "done", "aborted"}

\* The phases in which the stable Deployment is still the old version.
BeforePromotion ==
    {"starting", "stepping", "promote-requested", "abort-requested"}

Row(status, image, from, cause) ==
    [status |-> status, image |-> image, from |-> from, cause |-> cause]

\* A rollouts row: its phase and the index of the traffic step it stands at.
Rollout(phase, step) == [phase |-> phase, step |-> step]

NoRollout == Rollout("none", 0)

\* m is the newest member of S: ORDER BY rowid DESC LIMIT 1.
IsNewest(m, S) == m \in S /\ \A k \in S : k <= m

LatestDeployment(rows) == Len(rows)

UnfinishedDeployments(rows) ==
    {n \in DOMAIN rows : rows[n].status \in Unfinished}

LiveDeployments(rows) == {n \in DOMAIN rows : rows[n].status = "live"}

\* What a rollback without an explicit deploy id chooses its target from.
RollbackTargets(rows) ==
    {n \in LiveDeployments(rows) :
        n # LatestDeployment(rows) /\ rows[n].image # 0}

\* Every deploy an explicit deploy id may name.
WithImage(rows) == {n \in DOMAIN rows : rows[n].image # 0}

SetDeploymentStatus(rows, n, status) == [rows EXCEPT ![n].status = status]

\* finishDeploy's two writes: the image, then the status.
SetImageAndDeploying(rows, n, image) ==
    [rows EXCEPT ![n].image = image, ![n].status = "deploying"]

RolloutActive(phase) == phase \notin {"none", "done", "aborted"}

ActiveRollouts(ros) == {n \in DOMAIN ros : RolloutActive(ros[n].phase)}

SetRolloutPhase(ros, n, phase) == [ros EXCEPT ![n].phase = phase]

\* Unconditional: whatever the phase was, the row is "stepping" afterwards.
SetRolloutStep(ros, n, step) == [ros EXCEPT ![n] = Rollout("stepping", step)]

\* The WHERE clause of RequestRolloutPhase.
MayRequest(ros, n) == ros[n].phase \in {"starting", "stepping"}

================================
