--------------------------- MODULE DeployProperties ----------------------------
(***************************************************************************)
(* What deploys promise: the properties of module Deploy, checked by the   *)
(* MCDeploy runs and, where DeployProofs says so, proved.                  *)
(***************************************************************************)
EXTENDS Deploy

RowType     == [status : Statuses, image : Nat, from : Nat, cause : Nat]
RolloutType == [phase : Phases, step : Nat]
TaskType    == [d : Nat \ {0}, pc : PCs, ref : Nat, target : {"stable", "canary"},
                step : Nat, rb : BOOLEAN, resumed : BOOLEAN]

\* The shape of every variable (store rows, cluster objects and goroutines);
\* the three per-deploy tables grow together and a goroutine's deploy exists.
TypeOK ==
    /\ deploys \in Seq(RowType)
    /\ rollouts \in Seq(RolloutType) /\ Len(rollouts) = Len(deploys)
    /\ jobs \in Seq(JobStates) /\ Len(jobs) = Len(deploys)
    /\ policy \in Policies
    /\ stable \in [image : Nat, stamp : Nat, state : PodStates]
    /\ serving \in Nat
    /\ canary \in [image : Nat, state : PodStates]
    /\ split \in 0..Steps
    /\ mode \in {"up", "down", "starting"}
    /\ tasks \subseteq TaskType
    /\ \A t \in tasks : t.d <= Len(deploys) /\ t.step < Steps
    /\ syncs \subseteq Nat
    /\ used \in [crash : 0..MaxCrashes, ask : 0..MaxAsks,
                 edit : 0..MaxEdits, sync : 0..MaxSyncs]

Driven(n) == \E t \in tasks : t.d = n

\* No two goroutines drive the same deploy: rollout phases and deploy
\* statuses are read and then written with nothing in between to protect
\* them (canary.go, rolloutgate.go), so two drivers would overwrite each other.
OneDriver == \A t, u \in tasks : t.d = u.d => t = u

\* A deploy that is neither live nor failed has a goroutine that will settle
\* it, once reconciliation has run, except for two ways in which the code
\* loses one: a restart after its rollout ended and before its row was settled
\* (startCanary then returns without doing anything), and an upload that
\* could not be saved (apps.go:408-412).
OrphansExplained ==
    mode = "up" =>
      \A n \in UnfinishedDeployments(deploys) :
        \/ Driven(n)
        \/ deploys[n].status = "deploying" /\ rollouts[n].phase \in {"done", "aborted"}
        \/ deploys[n].status = "building" /\ jobs[n] = "none"

\* The history refines its abstract specification: statuses only go forward,
\* images are set once, and a settled deploy stays as it is.
history == [n \in DOMAIN deploys |->
              [status |-> deploys[n].status, image |-> deploys[n].image]]

Lifecycle == INSTANCE DeployLifecycle

LifecycleSpec == Lifecycle!Spec

\* A failed deploy is rolled back at most once, the rollback restores an
\* image that is live, and a rollback is never rolled back itself
\* (deploying.md:163-166, rolloutgate.go:184-186), across restarts too.
RollbackOnce ==
    \A n \in DOMAIN deploys :
      LET c == deploys[n].cause IN
      c # 0 => /\ deploys[c].status = "failed" /\ deploys[c].from = 0
               /\ \A m \in DOMAIN deploys : deploys[m].cause = c => m = n
               /\ LET from == deploys[n].from IN
                  /\ deploys[from].status = "live"
                  /\ deploys[from].image = deploys[n].image

\* deploying.md:145: a deploy is marked live only once its new pods serve.
LiveServes ==
    [][\A n \in DOMAIN deploys :
         deploys[n].status # "live" /\ deploys'[n].status = "live"
           => serving = deploys[n].image]_vars

\* canary.go:5-6: a canary leaves the app's own Deployment alone until it is
\* promoted, whatever restarts happen in between.
CanaryKeepsStable ==
    \A n \in DOMAIN deploys :
      /\ deploys[n].status = "deploying" /\ deploys[n].image = n
      /\ rollouts[n].phase \in BeforePromotion
      => stable.image # n

\* deploying.md:163-164: when a rollout fails the previous live deploy comes
\* back.  With deploys one at a time, no crash and auto-rollback on, whenever
\* nothing is under way the app's Deployment asks for the newest live image,
\* unless a rollback has failed since: its image stays applied, and a canary
\* that fails later leaves it there.
StableIsNewestLive ==
    mode = "up" /\ tasks = {} /\ syncs = {} /\ used.crash = 0 =>
        \A n \in DOMAIN deploys :
            IsNewest(n, LiveDeployments(deploys)) =>
                \/ stable.image = deploys[n].image
                \/ \E m \in DOMAIN deploys :
                      m > n /\ deploys[m].from # 0 /\ deploys[m].status = "failed"

\* Canary objects do not outlive the rollouts that own them: with nothing
\* under way, a leftover canary or traffic split belongs to a rollout whose
\* row still says so, for the next abort or canary to find.
NoStrayCanary ==
    mode = "up" /\ tasks = {} /\ (canary # NoPods \/ split # 0)
      => ActiveRollouts(rollouts) # {}

\* A canary stays beside the app until it is promoted, and goes with its rollout
\* (promoteCanary, abortCanary).
CanariesKept == CanaryKeepsStable /\ NoStrayCanary

\* What runs in the cluster is what the rows say: the stable Deployment, through canaries,
\* failures and rollbacks, and the canary objects (deploySource, gateFailed, abortCanary).
ClusterMatchesRows == CanariesKept /\ StableIsNewestLive

\* Every deploy is eventually live or failed, unless it is left without a
\* driver (OrphansExplained says when), whatever the cluster, the builds and
\* the users do: every wait of the code ends by itself.
DeploysSettle ==
    \A n \in 1..MaxSeq :
      (n \in UnfinishedDeployments(deploys))
        ~> /\ n \in DOMAIN deploys
           /\ \/ deploys[n].status \in Settled
              \/ mode = "up" /\ ~Driven(n)

================================
