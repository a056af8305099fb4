------------------------------- MODULE Environments ------------------------------
(***************************************************************************)
(* The environments of a project (internal/server/environments.go,         *)
(* preview.go, store/environments.go): the standing ones, the previews     *)
(* that a push of a branch creates and that its deletion, a request or the *)
(* idle reaper tears down, and the project's default.                      *)
(*                                                                         *)
(* Requests, webhooks and the reaper run side by side and take no lock:    *)
(* each step is a statement on the database or a call to Kubernetes, and   *)
(* acts on the row that was read first.  The environment that previews are *)
(* cloned from has one git app.  SQLite gives a new row the id after the   *)
(* highest, which a deleted row may have had.                              *)
(***************************************************************************)
EXTENDS Naturals, FiniteSetsExt

CONSTANTS
    EnvRequests, \* API requests and webhook deliveries
    Kinds,       \* what they ask for: a subset of RequestKinds
    Branches,    \* branches that are pushed and deleted
    NameOf,      \* sanitizeBranch: the name each gives
    NewNames,    \* names of standing environments to create
    MaxId,       \* bound: ids of environments
    EnvFaults    \* what may go wrong, each once: a subset of EnvFaultKinds

RequestKinds == {"push", "closed", "create", "delete", "deleteEnv", "createEnv", "setDefault"}

\* namespace: a call to Kubernetes.  clone: a statement that copies the app.
EnvFaultKinds == {"namespace", "clone", "crash"}

Base     == "production"
Main     == "main"
Previews == {NameOf[b] : b \in Branches}
Names    == {Base} \cup NewNames \cup Previews
Ids      == 1 .. MaxId
Reaper   == "reaper"
Actors   == EnvRequests \cup {Reaper}

ASSUME EnvironmentAssumption ==
    /\ Kinds \subseteq RequestKinds /\ EnvFaults \subseteq EnvFaultKinds
    /\ MaxId \in Nat \ {0} /\ IsFiniteSet(EnvRequests) /\ IsFiniteSet(Branches)
    /\ Main \notin Branches /\ "" \notin Branches

VARIABLES
    env,         \* environments: the row of each id
    envApp,      \* apps: the git branch of the row in each environment, or none, or bare
    namespace,   \* in Kubernetes: none, going, empty, or the branch that runs in it
    defaultName, \* projects.default_env
    actor,       \* the goroutine of each request, and of the reaper
    reapList,    \* the environments the reaper has yet to tear down, as listed
    builds,      \* build goroutines
    disturbed,   \* history: names that a fault hit, or that two worked on at once
    mishaps      \* the faults that have happened

envVars == <<env, envApp, namespace, defaultName, actor, reapList, builds, disturbed, mishaps>>

\* stale: nothing deployed to it for preview_ttl_days.
EnvRow == [name : Names, kind : {"standing", "preview"}, source : Branches \cup {""},
           default : BOOLEAN, stale : BOOLEAN]
NoRow  == [name |-> "", kind |-> "", source |-> "", default |-> FALSE, stale |-> FALSE]

\* id, row: the environment it works on, as it was read.
ActorPCs == {"idle", "create", "source", "ensure", "clone", "insert", "deploy",
             "unname", "unapp", "unrow", "flag", "name", "done"}
NotYet   == [pc |-> "idle", kind |-> "", branch |-> "", id |-> 0, row |-> NoRow]

EnvInit ==
    /\ env = [i \in Ids |-> IF i = 1
                            THEN [NoRow EXCEPT !.name = Base, !.kind = "standing", !.default = TRUE]
                            ELSE NoRow]
    /\ envApp = [i \in Ids |-> IF i = 1 THEN Main ELSE "none"]
    /\ namespace = [n \in Names |-> IF n = Base THEN Main ELSE "none"]
    /\ defaultName = Base
    /\ actor = [q \in Actors |-> NotYet]
    /\ reapList = {} /\ builds = {} /\ disturbed = {} /\ mishaps = {}

--------------------------------
(***************************************************************************)
(* Rows, and who works on a name.                                          *)
(***************************************************************************)

Rows     == {i \in Ids : env[i] # NoRow}
Named(n) == {i \in Rows : env[i].name = n}
NextId   == Max(Rows \cup {0}) + 1

Mishap(k) == k \in EnvFaults \ mishaps /\ mishaps' = mishaps \cup {k}

AtWork(n) ==
    {q \in Actors : actor[q].pc \notin {"idle", "done"} /\ actor[q].row.name = n}
Quiet(n) ==
    AtWork(n) = {} /\ \A x \in builds \cup reapList : x.row.name # n

\* Nothing is left of the environment that had this id, and nobody works on it.
Fresh(i) ==
    /\ envApp[i] = "none"
    /\ \A q \in Actors : actor[q].pc \notin {"idle", "done"} => actor[q].id # i
    /\ \A x \in builds \cup reapList : x.id # i

Disturbs(n) == disturbed' = disturbed \cup {n}

\* TouchEnvironment.
Touched(i) == IF env[i] = NoRow THEN env ELSE [env EXCEPT ![i].stale = FALSE]

\* The reaper goes on to the next of its list, a request answers.
Ends(q) ==
    actor' = [actor EXCEPT ![q] = IF q = Reaper THEN NotYet ELSE [@ EXCEPT !.pc = "done"]]
Goes(q, pc) == IF pc = "done" THEN Ends(q) ELSE actor' = [actor EXCEPT ![q].pc = pc]

\* A request reads an environment and sets to work on it.
Asks(q, kind) == q \in EnvRequests /\ actor[q].pc = "idle" /\ kind \in Kinds

Starts(q, kind, b, i, row, pc) ==
    /\ actor' = [actor EXCEPT ![q] =
                     [pc |-> pc, kind |-> kind, branch |-> b, id |-> i, row |-> row]]
    /\ disturbed' = IF Quiet(row.name) THEN disturbed ELSE disturbed \cup {row.name}
    /\ UNCHANGED <<env, envApp, namespace, defaultName, reapList, builds, mishaps>>

\* A request that has nothing to do, or may not, answers at once.
Answers(q) ==
    /\ actor' = [actor EXCEPT ![q].pc = "done"]
    /\ UNCHANGED <<env, envApp, namespace, defaultName, reapList, builds, disturbed, mishaps>>

--------------------------------
(***************************************************************************)
(* routeBranch, ensurePreviewFromBase, clonePreviewApp, deployEnvGitApps.  *)
(***************************************************************************)

\* The standing environment whose base branch is Main.
Standing == {i \in Named(Base) : env[i].kind = "standing"}

\* ensurePreviewFromBase up to the insert; then is where it goes with one that exists.
Ensure(q, kind, b, then) ==
    LET n == NameOf[b] IN
    \/ \E i \in Named(n) :
        \/ env[i].kind = "preview" /\ then # "done" /\ Starts(q, kind, b, i, env[i], then)
        \/ (env[i].kind = "standing" \/ then = "done") /\ Answers(q)
    \/ Named(n) = {} /\ Named(Base) = {} /\ Answers(q)
    \/ /\ Named(n) = {} /\ Named(Base) # {}
       /\ Starts(q, kind, b, 0, [NoRow EXCEPT !.name = n, !.kind = "preview"], "create")

\* A push, routed: a standing environment is deployed, a preview is ensured first.
Push(q) ==
    /\ Asks(q, "push")
    /\ \/ \E i \in Standing : Starts(q, "push", Main, i, env[i], "deploy")
       \/ \E b \in Branches : Ensure(q, "push", b, "deploy")

\* handleCreatePreview: a preview that exists is answered as it is.
CreatePreview(q) ==
    /\ Asks(q, "create")
    /\ \E b \in Branches : Ensure(q, "create", b, "done")

\* CreateEnvironment; UNIQUE (project_id, name).
Create(q) ==
    /\ actor[q].pc = "create"
    /\ IF Named(actor[q].row.name) # {}
       THEN Ends(q) /\ UNCHANGED <<env, disturbed>>
       ELSE /\ NextId \in Ids
            /\ env' = [env EXCEPT ![NextId] = actor[q].row]
            /\ actor' = [actor EXCEPT ![q].pc = "source", ![q].id = NextId]
            /\ disturbed' = IF Fresh(NextId) THEN disturbed
                            ELSE disturbed \cup {actor[q].row.name}
    /\ UNCHANGED <<envApp, namespace, defaultName, reapList, builds, mishaps>>

\* SetEnvironmentSourceBranch, by id.
SetSource(q) ==
    /\ actor[q].pc = "source"
    /\ IF env[actor[q].id] = NoRow
       THEN Ends(q) /\ UNCHANGED env
       ELSE /\ env' = [env EXCEPT ![actor[q].id].source = actor[q].branch]
            /\ Goes(q, "ensure")
    /\ UNCHANGED <<envApp, namespace, defaultName, reapList, builds, disturbed, mishaps>>

\* ensureEnvNamespace: nothing stops a namespace that is being deleted.
Ensured(n) == IF namespace[n] = "none" THEN [namespace EXCEPT ![n] = "empty"] ELSE namespace

EnsureNamespace(q) ==
    /\ actor[q].pc = "ensure"
    /\ \/ /\ namespace' = Ensured(actor[q].row.name) /\ Goes(q, "clone")
          /\ UNCHANGED <<disturbed, mishaps>>
       \/ /\ Mishap("namespace") /\ Disturbs(actor[q].row.name) /\ Ends(q)
          /\ UNCHANGED namespace
    /\ UNCHANGED <<env, envApp, defaultName, reapList, builds>>

AfterClone(q) == IF actor[q].kind = "push" THEN "deploy" ELSE "done"

\* ListAppsInEnv of the base, and the read CreateAppInEnv begins with.
Clone(q) ==
    /\ actor[q].pc = "clone"
    /\ Goes(q, IF envApp[1] = "none" \/ env[actor[q].id] = NoRow THEN AfterClone(q) ELSE "insert")
    /\ UNCHANGED <<env, envApp, namespace, defaultName, reapList, builds, disturbed, mishaps>>

\* Mutant: the clone keeps the branch of the app it was copied from.
InsertAsCopied(q) ==
    /\ actor[q].pc = "insert"
    /\ Goes(q, AfterClone(q))
    /\ LET i == actor[q].id
       IN  envApp' = IF envApp[i] = "none" THEN [envApp EXCEPT ![i] = Main] ELSE envApp
    /\ UNCHANGED <<env, namespace, defaultName, reapList, builds, disturbed, mishaps>>

\* The insert, and SetAppGitSource: UNIQUE (project_id, environment_id, name).
Insert(q) ==
    /\ actor[q].pc = "insert"
    /\ Goes(q, AfterClone(q))
    /\ LET i == actor[q].id
       IN  \/ envApp[i] # "none" /\ UNCHANGED <<envApp, disturbed, mishaps>>
           \/ /\ envApp[i] = "none" /\ envApp' = [envApp EXCEPT ![i] = actor[q].branch]
              /\ UNCHANGED <<disturbed, mishaps>>
           \/ /\ envApp[i] = "none" /\ Mishap("clone") /\ Disturbs(actor[q].row.name)
              /\ \E left \in {"none", "bare"} : envApp' = [envApp EXCEPT ![i] = left]
    /\ UNCHANGED <<env, namespace, defaultName, reapList, builds>>

\* deployEnvGitApps: CreateDeployment and startBuild for a git app, TouchEnvironment.
DeployApps(q) ==
    /\ actor[q].pc = "deploy"
    /\ LET i == actor[q].id
       IN  /\ builds' = IF envApp[i] \in {"none", "bare"} THEN builds
                        ELSE builds \cup {[pc |-> "build", id |-> i, row |-> actor[q].row,
                                           branch |-> envApp[i]]}
           /\ env' = Touched(i)
    /\ Ends(q)
    /\ UNCHANGED <<envApp, namespace, defaultName, reapList, disturbed, mishaps>>

\* The Job ends.  finishDeploy records it, or the deploy failed.
BuildEnds(x) ==
    /\ x.pc = "build"
    /\ \E next \in {{}, {[x EXCEPT !.pc = "apply"]}} : builds' = (builds \ {x}) \cup next
    /\ UNCHANGED <<env, envApp, namespace, defaultName, actor, reapList, disturbed, mishaps>>

\* applyAndGate: ensureEnvNamespace, Apply; nothing is created in a namespace
\* that is being deleted.  markDeployLive touches the environment.
BuildApplies(x) ==
    /\ x.pc = "apply"
    /\ builds' = builds \ {x}
    /\ IF namespace[x.row.name] = "going"
       THEN UNCHANGED <<namespace, env>>
       ELSE /\ namespace' = [namespace EXCEPT ![x.row.name] = x.branch]
            /\ env' = Touched(x.id)
    /\ UNCHANGED <<envApp, defaultName, actor, reapList, disturbed, mishaps>>

--------------------------------
(***************************************************************************)
(* teardownPreview, deleteEnvironment, reapPreviews.                       *)
(***************************************************************************)

\* A deleted branch: the preview is found by its source branch.
Closed(q) ==
    /\ Asks(q, "closed")
    /\ \E b \in Branches :
        LET mine == {i \in Rows : env[i].kind = "preview" /\ env[i].source = b}
        IN  \/ mine = {} /\ Answers(q)
            \/ \E i \in mine : Starts(q, "closed", b, i, env[i], "unname")

\* handleDeletePreview.
DeletePreview(q) ==
    /\ Asks(q, "delete")
    /\ \E i \in Rows :
        \/ env[i].kind = "standing" /\ Answers(q)
        \/ env[i].kind = "preview" /\ Starts(q, "delete", "", i, env[i], "unname")

\* handleDeleteEnv, with force: branch says which app it will delete.
DeleteEnv(q) ==
    /\ Asks(q, "deleteEnv")
    /\ \E i \in Rows :
        \/ env[i].default /\ Answers(q)
        \/ ~env[i].default /\ Starts(q, "deleteEnv", envApp[i], i, env[i], "unname")

\* reapPreviews lists, and tears down what was idle then.
ReaperLists ==
    /\ actor[Reaper].pc = "idle" /\ reapList = {}
    /\ reapList' = {[id |-> i, row |-> env[i]] :
                        i \in {i \in Rows : env[i].kind = "preview" /\ env[i].stale}}
    /\ reapList' # {}
    /\ disturbed' = disturbed \cup {n \in Names : ~Quiet(n) /\ \E x \in reapList' : x.row.name = n}
    /\ UNCHANGED <<env, envApp, namespace, defaultName, actor, builds, mishaps>>

ReaperTakes(x) ==
    /\ actor[Reaper].pc = "idle" /\ x \in reapList
    /\ reapList' = reapList \ {x}
    /\ actor' = [actor EXCEPT ![Reaper] =
                     [pc |-> "unname", kind |-> "reap", branch |-> "", id |-> x.id, row |-> x.row]]
    /\ UNCHANGED <<env, envApp, namespace, defaultName, builds, disturbed, mishaps>>

\* DeleteNamespace; a failure is logged.
Unname(q) ==
    /\ actor[q].pc = "unname"
    /\ Goes(q, "unapp")
    /\ LET n == actor[q].row.name
       IN  \/ /\ namespace' = IF namespace[n] = "none" THEN namespace
                             ELSE [namespace EXCEPT ![n] = "going"]
              /\ UNCHANGED <<disturbed, mishaps>>
           \/ Mishap("namespace") /\ Disturbs(n) /\ UNCHANGED namespace
    /\ UNCHANGED <<env, envApp, defaultName, reapList, builds>>

\* DeleteApp: the deploys of the app go with it, and so will their builds.
Unapp(q) ==
    /\ actor[q].pc = "unapp"
    /\ LET i     == actor[q].id
           finds == actor[q].kind # "deleteEnv" \/ actor[q].branch # "none"
       IN  /\ envApp' = IF finds THEN [envApp EXCEPT ![i] = "none"] ELSE envApp
           /\ builds' = IF finds THEN {x \in builds : x.id # i \/ x.pc = "apply"} ELSE builds
           \* deleteEnvironment gives up on an app that is gone.
           /\ Goes(q, IF actor[q].kind = "deleteEnv" /\ finds /\ envApp[i] = "none"
                      THEN "done" ELSE "unrow")
    /\ UNCHANGED <<env, namespace, defaultName, reapList, disturbed, mishaps>>

\* DeleteEnvironment, by id.
Unrow(q) ==
    /\ actor[q].pc = "unrow"
    /\ env' = [env EXCEPT ![actor[q].id] = NoRow]
    /\ Ends(q)
    /\ UNCHANGED <<envApp, namespace, defaultName, reapList, builds, disturbed, mishaps>>

--------------------------------
(***************************************************************************)
(* handleCreateEnv, handleSetDefaultEnv.                                   *)
(***************************************************************************)

CreateEnv(q) ==
    /\ Asks(q, "createEnv")
    /\ \E n \in NewNames :
        \/ Named(n) # {} /\ Answers(q)
        \/ /\ Named(n) = {} /\ NextId \in Ids
           /\ env' = [env EXCEPT ![NextId] = [NoRow EXCEPT !.name = n, !.kind = "standing"]]
           /\ actor' = [actor EXCEPT ![q].pc = "done"]
           /\ disturbed' = IF Quiet(n) /\ Fresh(NextId) THEN disturbed ELSE disturbed \cup {n}
           /\ UNCHANGED <<envApp, namespace, defaultName, reapList, builds, mishaps>>

SetDefault(q) ==
    /\ Asks(q, "setDefault")
    /\ \E i \in Rows : Starts(q, "setDefault", "", i, env[i], "flag")

\* SetDefaultEnvironment: one transaction, by id.
SetFlags(q) ==
    /\ actor[q].pc = "flag"
    /\ IF env[actor[q].id] = NoRow
       THEN Ends(q) /\ UNCHANGED env
       ELSE /\ env' = [i \in Ids |-> IF i \in Rows THEN [env[i] EXCEPT !.default = i = actor[q].id]
                                     ELSE NoRow]
            /\ Goes(q, "name")
    /\ UNCHANGED <<envApp, namespace, defaultName, reapList, builds, disturbed, mishaps>>

\* SetDefaultEnv, by name.
SetName(q) ==
    /\ actor[q].pc = "name"
    /\ defaultName' = actor[q].row.name
    /\ Ends(q)
    /\ UNCHANGED <<env, envApp, namespace, reapList, builds, disturbed, mishaps>>

--------------------------------

\* The process dies.  Reconciliation takes up the builds whose app has an environment.
EnvCrash ==
    /\ Mishap("crash")
    /\ actor' = [q \in Actors |-> IF actor[q].pc = "idle" \/ q = Reaper THEN NotYet
                                  ELSE [actor[q] EXCEPT !.pc = "done"]]
    /\ reapList' = {}
    /\ builds' = {[x EXCEPT !.row = env[x.id]] :
                     x \in {x \in builds : envApp[x.id] # "none" /\ env[x.id] # NoRow}}
    /\ disturbed' = disturbed \cup {n \in Names : ~Quiet(n)}
    /\ UNCHANGED <<env, envApp, namespace, defaultName>>

\* External: Kubernetes has deleted everything in the namespace.
NamespaceGone(n) ==
    /\ namespace[n] = "going"
    /\ namespace' = [namespace EXCEPT ![n] = "none"]
    /\ UNCHANGED <<env, envApp, defaultName, actor, reapList, builds, disturbed, mishaps>>

\* preview_ttl_days pass, in which whatever was under way ends.
GoesStale(i) ==
    /\ i \in Rows /\ env[i].kind = "preview" /\ ~env[i].stale /\ Quiet(env[i].name)
    /\ env' = [env EXCEPT ![i].stale = TRUE]
    /\ UNCHANGED <<envApp, namespace, defaultName, actor, reapList, builds, disturbed, mishaps>>

ActorStep(q) ==
    \/ Create(q) \/ SetSource(q) \/ EnsureNamespace(q) \/ Clone(q) \/ Insert(q) \/ DeployApps(q)
    \/ Unname(q) \/ Unapp(q) \/ Unrow(q) \/ SetFlags(q) \/ SetName(q)

Request(q) ==
    \/ Push(q) \/ CreatePreview(q) \/ Closed(q) \/ DeletePreview(q)
    \/ DeleteEnv(q) \/ CreateEnv(q) \/ SetDefault(q)

ReaperStep == ReaperLists \/ (\E x \in reapList : ReaperTakes(x)) \/ ActorStep(Reaper)

EnvNext ==
    \/ \E q \in EnvRequests : Request(q) \/ ActorStep(q)
    \/ ReaperStep
    \/ \E x \in builds : BuildEnds(x) \/ BuildApplies(x)
    \/ EnvCrash
    \/ \E n \in Names : NamespaceGone(n)
    \/ \E i \in Ids : GoesStale(i)

EnvSpec == EnvInit /\ [][EnvNext]_envVars

--------------------------------
(***************************************************************************)
(* Properties. What makes the environments right: each has what belongs to *)
(* it and leaves nothing behind.                                           *)
(***************************************************************************)

\* Every variable has the shape its comment gives (environments.go, preview.go).
EnvTypeOK ==
    /\ env \in [Ids -> EnvRow \cup {NoRow}]
    /\ envApp \in [Ids -> Branches \cup {Main, "none", "bare"}]
    /\ namespace \in [Names -> Branches \cup {Main, "none", "empty", "going"}]
    /\ defaultName \in Names
    /\ \A q \in Actors : actor[q].pc \in ActorPCs /\ actor[q].id \in 0 .. MaxId
    /\ \A x \in builds : x.pc \in {"build", "apply"} /\ x.id \in Ids
    /\ \A x \in reapList : x.id \in Ids
    /\ disturbed \subseteq Names /\ mishaps \subseteq EnvFaults

\* A preview is the counterpart of its branch in the database and in the cluster,
\* and a name without an environment has nothing in the cluster.
Whole(n) ==
    /\ \A i \in Named(n) : env[i].kind = "preview" =>
           /\ env[i].source \in Branches /\ NameOf[env[i].source] = n
           /\ envApp[i] \in {env[i].source, "none"}
           /\ namespace[n] \in {env[i].source, "none", "empty", "going"}
    /\ Named(n) = {} => namespace[n] \in {"none", "going"}

EnvironmentsWhole ==
    /\ \A n \in Names \ disturbed : Quiet(n) => Whole(n)
    /\ disturbed = {} => \A i \in Ids \ Rows : envApp[i] = "none"

================================
