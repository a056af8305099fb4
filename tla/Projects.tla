-------------------------------- MODULE Projects --------------------------------
(***************************************************************************)
(* Projects (internal/server/projects.go, environments.go, gpuquota.go and *)
(* netpolicy.go, store/projects.go and environments.go): the namespaces of *)
(* their environments, and what is to hold in each: the budget of the      *)
(* project and the isolation that a setting turns on for all.              *)
(*                                                                         *)
(* No request takes a lock.  A budget and the setting are written first    *)
(* and brought to the namespaces one call at a time; a namespace is made   *)
(* by the first deploy into it, which reads both.  The budget of GPUs      *)
(* stands for the one of CPU and memory too, which takes the same way.     *)
(* That a namespace takes a while to go is left out.                       *)
(***************************************************************************)
EXTENDS Integers, Sequences, FiniteSetsExt

CONSTANTS
    Names,         \* names of projects
    Envs,          \* the environments a project starts with, the default one first
    Spaces,        \* names of namespaces
    SpaceOf,       \* the namespace a project's name and an environment's make
    ProjectClients, \* requests under way at a time
    MaxProjects,   \* bound: projects at a time
    MaxCalls,      \* bound: requests
    ProjectFaults  \* a subset of {"seed", "kube", "crash"}, one of them once

ASSUME ProjectAssumption ==
    /\ IsFiniteSet(Names) /\ Len(Envs) > 0 /\ Envs[1] = "production"
    /\ SpaceOf \in [Names \X {Envs[i] : i \in DOMAIN Envs} -> Spaces]
    /\ MaxProjects \in Nat \ {0} /\ MaxCalls \in Nat
    /\ ProjectFaults \subseteq {"seed", "kube", "crash"}

VARIABLES
    projects,     \* rows
    environments, \* rows
    isolation,    \* the setting network_isolation
    space,        \* the namespaces of the cluster
    asking,       \* the requests; Serve is what the server does when it starts
    projectPast   \* history, see NothingYet

projectVars == <<projects, environments, isolation, space, asking, projectPast>>

Serve  == "serve"
Asking == ProjectClients \cup {Serve}

ProjectIds == 1 .. MaxProjects
EnvNames   == {Envs[i] : i \in DOMAIN Envs}
EnvIds     == 1 .. MaxProjects * Len(Envs) + MaxCalls
Budgets    == 0 .. 1 \* 0: no limit

\* env: default_env.  planned: SumProjectGPURequests of its apps.  unasked: history: those of
\* them that no check of the budget came before.
ProjectRow     == [id : ProjectIds, name : Names, home : Spaces, env : EnvNames, gpu : Budgets,
                   planned : 0 .. MaxCalls, unasked : 0 .. MaxCalls]
EnvironmentRow == [id : EnvIds, pid : ProjectIds, env : EnvNames, ns : Spaces, default : BOOLEAN]

NoSpace == [there |-> FALSE, gpu |-> 0, isolated |-> FALSE]

\* pid, eid, env: the project, the environment and its name.  ns: the namespace it is at.  todo: those left.  saw: history: those a
\* deletion listed.  n: the budget.  on:
\* the setting as it was read.
Silent == [pc |-> "idle", op |-> "", pid |-> 0, eid |-> 0, env |-> "", ns |-> "", todo |-> {},
           saw |-> {}, n |-> 0, on |-> FALSE]

AskingPCs == {"idle", "seed", "list", "sync", "ensure", "isolate", "apply", "read", "limit",
              "look", "fan", "drop", "rows", "insert", "flag", "name"}

\* calls: requests.  late: namespaces whose budget, and lateOn: whose isolation, was last
\* written from something read before it was changed.  cut: namespaces that a failed call,
\* a crash or another namespace's end kept from something.  left: made while they were being given up, or not
\* known to the deletion of their project when it looked.  bare:
\* projects whose environments could not be made, or not all.  renamed: projects that were.  rushed:
\* projects whose plan was checked by two requests at once, or whose budget came later.  moved: projects whose
\* default was moved to an environment that was being deleted, or got the id of one, or was named when the flag
\* was elsewhere, or not named.
NothingYet == [calls |-> 0, faults |-> {}, late |-> {}, lateOn |-> {}, cut |-> {}, left |-> {},
               bare |-> {}, moved |-> {}, renamed |-> {}, rushed |-> {}]

Home(name) == SpaceOf[name, "production"]

\* The next id SQLite gives.
NextId(rows) == Max({r.id : r \in rows} \cup {0}) + 1

\* SeedProjectEnvironments, backfillProjectEnvironments: by the name it has now.
Seeded(p, from) ==
    {[id |-> from + i - 1, pid |-> p.id, env |-> Envs[i], default |-> i = 1,
      ns |-> IF i = 1 THEN p.home ELSE SpaceOf[p.name, Envs[i]]] : i \in DOMAIN Envs}

\* backfillEnvironments: one project after the other.
Backfilled(bare, from) ==
    UNION {Seeded(p, from + Len(Envs) * Cardinality({q \in bare : q.id < p.id})) : p \in bare}

\* Projects whose namespaces are there or not; what should be in them is.
ProjectInit ==
    /\ \E name \in Names, others \in SUBSET Names, n \in Budgets, made \in SUBSET Spaces :
           LET first == [id |-> 1, name |-> name, home |-> Home(name), env |-> "production",
                         gpu |-> n, planned |-> 0, unasked |-> 0]
               rows  == {first} \cup {[first EXCEPT !.id = 2, !.name = o, !.home = Home(o)] :
                                          o \in others}
           IN
           /\ name \notin others /\ Cardinality(others) < MaxProjects /\ Cardinality(others) < 2
           /\ projects = rows /\ environments = Backfilled(rows, 1) /\ isolation \in BOOLEAN
           /\ made \subseteq {e.ns : e \in environments}
           /\ n > 0 => \A p \in rows : p.home \in made
           /\ space = [s \in Spaces |->
                  IF s \in made THEN [there |-> TRUE, gpu |-> n, isolated |-> isolation]
                  ELSE NoSpace]
    /\ asking = [c \in Asking |-> Silent] /\ projectPast = NothingYet

--------------------------------
(***************************************************************************)
(* Rows, namespaces and requests.                                          *)
(***************************************************************************)

ProjectOf(pid) == {p \in projects : p.id = pid}
EnvsOf(pid)    == {e \in environments : e.pid = pid}
Holding(ns)    == {e \in environments : e.ns = ns}
BudgetsOf(ns)  == {p.gpu : p \in UNION {ProjectOf(e.pid) : e \in Holding(ns)}}

\* projectEnvNamespaces.
NamespacesOf(p) == {p.home} \cup {e.ns : e \in EnvsOf(p.id)}

\* Namespaces are taken in a fixed order.
FirstOf(S) == CHOOSE ns \in S : TRUE

Replaced(p, q) == projects' = (projects \ {p}) \cup {q}
Rests(c)       == asking' = [asking EXCEPT ![c] = Silent]
Moves(c, pc)   == asking' = [asking EXCEPT ![c].pc = pc]

\* A new request.
Starts(c, r) ==
    /\ c # Serve /\ asking[c].pc = "idle" /\ projectPast.calls < MaxCalls
    /\ asking' = [asking EXCEPT ![c] = r]

Called == [projectPast EXCEPT !.calls = @ + 1]

\* A call fails.
Fault(kind) == kind \in ProjectFaults /\ projectPast.faults = {}
Cut(S)      == projectPast' = [projectPast EXCEPT !.faults = {"kube"}, !.cut = @ \cup S]

\* history: a namespace went away and the rest was left out.
Rest(c)     == projectPast' = [projectPast EXCEPT !.cut = @ \cup asking[c].todo]

--------------------------------
(***************************************************************************)
(* Projects and environments come and go.                                  *)
(***************************************************************************)

\* CreateProject: the name and its namespace are free.
CreateProject(c) ==
    \E name \in Names :
        LET id == NextId(projects) IN
        /\ Starts(c, [Silent EXCEPT !.pc = "seed", !.pid = id])
        /\ id \in ProjectIds /\ \A p \in projects : p.name # name /\ p.home # Home(name)
        /\ projects' = projects \cup
               {[id |-> id, name |-> name, home |-> Home(name), env |-> "production", gpu |-> 0,
                 planned |-> 0, unasked |-> 0]}
        /\ projectPast' = [Called EXCEPT !.bare = @ \ {id}, !.moved = @ \ {id},
                                         !.renamed = @ \ {id}, !.rushed = @ \ {id}]
        /\ UNCHANGED <<environments, isolation, space>>

\* Nothing is taken back when it fails.
SeedProjectEnvironments(c) ==
    /\ asking[c].pc = "seed" /\ Rests(c)
    /\ LET here == ProjectOf(asking[c].pid) IN
       \/ /\ environments' = IF EnvsOf(asking[c].pid) # {} THEN environments
                             ELSE environments \cup Backfilled(here, NextId(environments))
          /\ projectPast' = IF \E d \in Asking, e \in environments' \ environments :
                                   asking[d].op = "environment" /\ asking[d].eid = e.id
                            THEN [projectPast EXCEPT !.moved = @ \cup {asking[c].pid}]
                            ELSE projectPast
       \/ /\ Fault("seed") /\ UNCHANGED environments
          /\ projectPast' = [projectPast EXCEPT !.faults = {"seed"}, !.bare = @ \cup {asking[c].pid}]
    /\ UNCHANGED <<projects, isolation, space>>

\* RenameProject: the namespaces keep their names.
RenameProject(c) ==
    \E p \in projects, name \in Names :
        /\ Starts(c, Silent)
        /\ \A q \in projects : q.name # name
        /\ Replaced(p, [p EXCEPT !.name = name])
        /\ projectPast' = [Called EXCEPT !.renamed = @ \cup {p.id}]
        /\ UNCHANGED <<environments, isolation, space>>

\* CreateEnvironment: a row; its namespace comes with the first deploy.
CreateEnvironment(c) ==
    \E p \in projects, e \in EnvNames :
        /\ Starts(c, Silent)
        /\ \A f \in EnvsOf(p.id) : f.env # e
        /\ environments' = environments \cup
               {[id |-> NextId(environments), pid |-> p.id, env |-> e, ns |-> SpaceOf[p.name, e],
                 default |-> FALSE]}
        /\ projectPast' = [Called EXCEPT !.bare = IF EnvsOf(p.id) = {} THEN @ \cup {p.id} ELSE @]
        /\ UNCHANGED <<projects, isolation, space>>

\* handleDeleteEnv, with force: not the default one.
DeleteEnvironment(c) ==
    \E e \in environments :
        /\ Starts(c, [Silent EXCEPT !.pc = "drop", !.op = "environment", !.eid = e.id,
                                      !.ns = e.ns, !.todo = {e.ns}, !.saw = {e.ns}])
        /\ ~ e.default
        /\ projectPast' = Called
        /\ UNCHANGED <<projects, environments, isolation, space>>

\* handleSetDefaultEnv has read the environment's row.
SetDefault(c) ==
    \E e \in environments :
        /\ Starts(c, [Silent EXCEPT !.pc = "flag", !.op = "default", !.pid = e.pid,
                                      !.eid = e.id, !.env = e.env])
        /\ projectPast' = Called
        /\ UNCHANGED <<projects, environments, isolation, space>>

\* SetDefaultEnvironment: one transaction, by the ids of both.
SetFlags(c) ==
    /\ asking[c].pc = "flag"
    /\ LET r == asking[c] IN
       IF \A e \in EnvsOf(r.pid) : e.id # r.eid
       THEN Rests(c) /\ UNCHANGED <<environments, projectPast>>
       ELSE /\ environments' = {IF e.pid = r.pid THEN [e EXCEPT !.default = e.id = r.eid] ELSE e :
                                   e \in environments}
            /\ Moves(c, "name")
            /\ projectPast' = IF \E d \in Asking : asking[d].op = "environment" /\ asking[d].eid = r.eid
                              THEN [projectPast EXCEPT !.moved = @ \cup {r.pid}] ELSE projectPast
    /\ UNCHANGED <<projects, isolation, space>>

\* SetDefaultEnv: the name.
SetName(c) ==
    /\ asking[c].pc = "name" /\ Rests(c)
    /\ LET r == asking[c] IN
       /\ projects' = {IF p.id = r.pid THEN [p EXCEPT !.env = r.env] ELSE p : p \in projects}
       /\ projectPast' = IF \E e \in EnvsOf(r.pid) : e.env = r.env /\ e.default THEN projectPast
                         ELSE [projectPast EXCEPT !.moved = @ \cup {r.pid}]
    /\ UNCHANGED <<environments, isolation, space>>

\* deleteProject.
DeleteProject(c) ==
    \E p \in projects :
        /\ Starts(c, [Silent EXCEPT !.pc = "drop", !.op = "project", !.pid = p.id,
                                      !.todo = {e.ns : e \in EnvsOf(p.id)},
                                      !.saw = {e.ns : e \in EnvsOf(p.id)}])
        /\ projectPast' = Called
        /\ UNCHANGED <<projects, environments, isolation, space>>

\* DeleteNamespace: a failure is logged, and a failure with an app or an addon stops the
\* deletion of a project.
DropNamespace(c) ==
    /\ asking[c].pc = "drop"
    /\ \/ /\ asking[c].todo # {}
          /\ LET ns == FirstOf(asking[c].todo) IN
             /\ asking' = [asking EXCEPT ![c].todo = @ \ {ns}]
             /\ \/ space' = [space EXCEPT ![ns] = NoSpace] /\ UNCHANGED projectPast
                \/ /\ Fault("kube") /\ UNCHANGED space
                   /\ projectPast' = [projectPast EXCEPT !.faults = {"kube"}, !.cut = @ \cup {ns},
                                                         !.left = @ \cup {ns}]
       \/ asking[c].todo = {} /\ Moves(c, "rows") /\ UNCHANGED <<space, projectPast>>
       \/ /\ asking[c].op = "project" /\ Fault("kube") /\ Rests(c) /\ UNCHANGED space
          /\ Cut({e.ns : e \in EnvsOf(asking[c].pid)})
    /\ UNCHANGED <<projects, environments, isolation>>

\* Mutant: no cascade.
CascadeNever(pid) == environments

\* ON DELETE CASCADE
Cascade(pid) == {e \in environments : e.pid # pid}

\* DeleteEnvironment, DeleteProject of the store: the environments go with their project.
DropRows(c) ==
    /\ asking[c].pc = "rows" /\ Rests(c)
    /\ LET r == asking[c] IN
       IF r.op = "project"
       THEN /\ projects' = {p \in projects : p.id # r.pid}
            /\ environments' = Cascade(r.pid)
            /\ projectPast' = [projectPast EXCEPT !.left = @ \cup
                   (UNION {NamespacesOf(p) : p \in ProjectOf(r.pid)} \ r.saw)]
       ELSE /\ environments' = {e \in environments : e.id # r.eid}
            /\ projectPast' = [projectPast EXCEPT !.left = @ \cup
                   ({e.ns : e \in {f \in environments : f.id = r.eid}} \ r.saw)]
            /\ UNCHANGED projects
    /\ UNCHANGED <<isolation, space>>

--------------------------------
(***************************************************************************)
(* Namespaces.                                                             *)
(***************************************************************************)

\* Is somebody giving the namespace up, or has nobody a row for it any more?
GivenUp(ns) ==
    \/ Holding(ns) = {} /\ \A p \in projects : p.home # ns
    \/ \E d \in Asking : asking[d].pc \in {"drop", "rows"} /\ ns \in asking[d].saw

\* The namespace is there: a deploy goes on to the budget, and a budget to its object;
\* ensureProjectNamespace, for pipelines, leaves it at that.
Ensured(c) ==
    IF asking[c].op = "pipeline" THEN Rests(c)
    ELSE Moves(c, IF asking[c].op = "deploy" THEN "read" ELSE "apply")

\* ensureNamespace: EnsureNamespace, and the setting is read.
EnsureNamespace(c) ==
    /\ asking[c].pc = "ensure"
    /\ LET ns == asking[c].ns IN
       \/ /\ space' = [space EXCEPT ![ns].there = TRUE]
          /\ IF isolation THEN Moves(c, "isolate") ELSE Ensured(c)
          /\ projectPast' = [projectPast EXCEPT
                 !.left = IF GivenUp(ns) THEN @ \cup {ns} ELSE @]
       \/ Fault("kube") /\ Cut({ns} \cup asking[c].todo) /\ Rests(c) /\ UNCHANGED space
    /\ UNCHANGED <<projects, environments, isolation>>

\* ApplyIsolation, of the setting that was read.
ApplyIsolation(c) ==
    /\ asking[c].pc = "isolate"
    /\ LET ns == asking[c].ns IN
       \/ /\ space[ns].there /\ Ensured(c)
          /\ space' = [space EXCEPT ![ns].isolated = TRUE]
          /\ projectPast' = [projectPast EXCEPT
                 !.lateOn = IF isolation THEN @ \ {ns} ELSE @ \cup {ns}]
       \/ ~ space[ns].there /\ Rests(c) /\ Rest(c) /\ UNCHANGED space
       \/ Fault("kube") /\ Cut({ns} \cup asking[c].todo) /\ Rests(c) /\ UNCHANGED space
    /\ UNCHANGED <<projects, environments, isolation>>

\* The budget of a namespace is written.
Limits(ns, n) ==
    /\ space' = [space EXCEPT ![ns].gpu = n]
    /\ projectPast' = [projectPast EXCEPT
           !.late = IF BudgetsOf(ns) = {n} THEN @ \ {ns} ELSE @ \cup {ns}]

--------------------------------
(***************************************************************************)
(* Deploys, of apps and addons, and pipelines.                             *)
(***************************************************************************)

\* A deploy has read the row of its environment.
Deploy(c) ==
    \E e \in environments :
        /\ Starts(c, [Silent EXCEPT !.pc = "ensure", !.op = "deploy", !.pid = e.pid, !.ns = e.ns])
        /\ projectPast' = Called
        /\ UNCHANGED <<projects, environments, isolation, space>>

\* applyEnvQuotas: by the id of the project; no budget is left alone.
ReadBudget(c) ==
    /\ asking[c].pc = "read"
    /\ \/ ProjectOf(asking[c].pid) = {} /\ Rests(c)
       \/ \E p \in ProjectOf(asking[c].pid) :
              IF p.gpu = 0 THEN Rests(c)
              ELSE asking' = [asking EXCEPT ![c].pc = "limit", ![c].n = p.gpu]
    /\ UNCHANGED <<projects, environments, isolation, space, projectPast>>

\* syncGPUQuotaIn, without making the namespace.
LimitBudget(c) ==
    /\ asking[c].pc = "limit" /\ Rests(c)
    /\ LET ns == asking[c].ns IN
       \/ space[ns].there /\ Limits(ns, asking[c].n)
       \/ ~ space[ns].there /\ UNCHANGED <<space, projectPast>>
       \/ Fault("kube") /\ Cut({ns}) /\ UNCHANGED space
    /\ UNCHANGED <<projects, environments, isolation>>

\* pipelineLaunchImage, launchPipelineRun: in the project's own namespace.
PipelineRun(c) ==
    \E p \in projects :
        /\ Starts(c, [Silent EXCEPT !.pc = "ensure", !.op = "pipeline", !.pid = p.id, !.ns = p.home])
        /\ projectPast' = Called
        /\ UNCHANGED <<projects, environments, isolation, space>>

--------------------------------
(***************************************************************************)
(* Budgets.                                                                *)
(***************************************************************************)

\* setGPUQuota, setProjectQuota: the row first.
SetBudget(c) ==
    \E p \in projects, n \in Budgets :
        /\ Starts(c, [Silent EXCEPT !.pc = "list", !.op = "budget", !.pid = p.id, !.n = n,
                                      !.ns = p.home])
        /\ Replaced(p, [p EXCEPT !.gpu = n])
        /\ projectPast' = [Called EXCEPT !.rushed = IF p.planned > 0 THEN @ \cup {p.id} ELSE @]
        /\ UNCHANGED <<environments, isolation, space>>

\* Mutant: the project's own namespace alone, as before there were environments.
ListsHome(c) == {asking[c].ns}

ListsNamespaces(c) == {asking[c].ns} \cup {e.ns : e \in EnvsOf(asking[c].pid)}

\* projectEnvNamespaces: ns, here, is the project's own namespace.
ListNamespaces(c) ==
    /\ asking[c].pc = "list"
    /\ asking' = [asking EXCEPT ![c].pc = "sync", ![c].todo = ListsNamespaces(c)]
    /\ UNCHANGED <<projects, environments, isolation, space, projectPast>>

\* syncGPUQuotaIn, syncProjectQuotaIn, for the namespaces one after the other, the own one
\* first: no budget is taken away as well as it can be; one is put where there is a
\* namespace, and the own one is made.  A failure leaves out the rest.
SyncBudget(c) ==
    /\ asking[c].pc = "sync"
    /\ LET r    == asking[c]
           rest == [asking EXCEPT ![c].todo = @ \ {r.ns}]
       IN
       IF r.todo = {} THEN Rests(c) /\ UNCHANGED <<space, projectPast>>
       ELSE IF r.ns \in r.todo
       THEN IF r.n > 0
            THEN /\ asking' = [rest EXCEPT ![c].pc = "ensure"] /\ UNCHANGED <<space, projectPast>>
            ELSE /\ asking' = rest
                 /\ \/ Limits(r.ns, 0)
                    \/ Fault("kube") /\ Cut({r.ns}) /\ UNCHANGED space
       ELSE LET ns == FirstOf(r.todo) IN
            \/ /\ asking' = [asking EXCEPT ![c].todo = @ \ {ns}]
               /\ \/ (r.n = 0 \/ space[ns].there) /\ Limits(ns, r.n)
                  \/ r.n > 0 /\ ~ space[ns].there /\ UNCHANGED <<space, projectPast>>
                  \/ r.n = 0 /\ Fault("kube") /\ Cut({ns}) /\ UNCHANGED space
            \/ r.n > 0 /\ Fault("kube") /\ Cut(r.todo) /\ Rests(c) /\ UNCHANGED space
    /\ UNCHANGED <<projects, environments, isolation>>

ApplyBudget(c) ==
    /\ asking[c].pc = "apply"
    /\ LET ns == asking[c].ns IN
       \/ space[ns].there /\ Limits(ns, asking[c].n) /\ Moves(c, "sync")
       \/ ~ space[ns].there /\ Rests(c) /\ Rest(c) /\ UNCHANGED space
       \/ Fault("kube") /\ Cut({ns} \cup asking[c].todo) /\ Rests(c) /\ UNCHANGED space
    /\ UNCHANGED <<projects, environments, isolation>>

\* validateGPUBudget: what the project's apps plan to use, and one GPU more.
Fits(p) == p.planned + 1 <= p.gpu

\* handleCreateApp, and a larger plan of an app: the check and then the row.
PlanAsked(c) ==
    \E p \in projects :
        /\ Starts(c, [Silent EXCEPT !.pc = "insert", !.pid = p.id])
        /\ p.gpu = 0 \/ Fits(p)
        /\ projectPast' = [Called EXCEPT
               !.rushed = IF \/ p.gpu = 0
                             \/ \E d \in ProjectClients :
                                    asking[d].pc = "insert" /\ asking[d].pid = p.id
                          THEN @ \cup {p.id} ELSE @]
        /\ UNCHANGED <<projects, environments, isolation, space>>

PlanInserted(c) ==
    /\ asking[c].pc = "insert" /\ Rests(c)
    /\ \/ ProjectOf(asking[c].pid) = {} /\ UNCHANGED projects
       \/ \E p \in ProjectOf(asking[c].pid) :
              Replaced(p, [p EXCEPT !.planned = @ + 1])
    /\ UNCHANGED <<environments, isolation, space, projectPast>>

\* handleUICreateApp, clonePreviewApp and applyAppSetup write what an app plans and ask for
\* no budget.
PlanUnasked(c) ==
    \E p \in projects :
        /\ Starts(c, Silent)
        /\ Replaced(p, [p EXCEPT !.planned = @ + 1, !.unasked = @ + 1])
        /\ projectPast' = Called
        /\ UNCHANGED <<environments, isolation, space>>

--------------------------------
(***************************************************************************)
(* The isolation of all projects.                                          *)
(***************************************************************************)

SetIsolation(c) ==
    \E on \in BOOLEAN :
        /\ isolation' = on
        /\ Starts(c, [Silent EXCEPT !.pc = "look"]) /\ projectPast' = Called
        /\ UNCHANGED <<projects, environments, space>>

\* networkIsolationChanged: the setting is read again.
LookAtIsolation(c) ==
    /\ asking[c].pc = "look"
    /\ asking' = [asking EXCEPT ![c].pc = "fan", ![c].on = isolation,
                                 ![c].todo = UNION {NamespacesOf(p) : p \in projects}]
    /\ UNCHANGED <<projects, environments, isolation, space, projectPast>>

\* A namespace that is not there is passed over, and a failure is reported at the end.
FanOut(c) ==
    /\ asking[c].pc = "fan"
    /\ \/ asking[c].todo = {} /\ Rests(c) /\ UNCHANGED <<space, projectPast>>
       \/ /\ asking[c].todo # {}
          /\ LET ns == FirstOf(asking[c].todo) IN
             /\ asking' = [asking EXCEPT ![c].todo = @ \ {ns}]
             /\ \/ /\ space[ns].there
                   /\ space' = [space EXCEPT ![ns].isolated = asking[c].on]
                   /\ projectPast' = [projectPast EXCEPT
                          !.lateOn = IF asking[c].on = isolation THEN @ \ {ns} ELSE @ \cup {ns}]
                \/ ~ space[ns].there /\ UNCHANGED <<space, projectPast>>
                \/ Fault("kube") /\ Cut({ns}) /\ UNCHANGED space
    /\ UNCHANGED <<projects, environments, isolation>>

\* The server dies and starts: projects without environments get them (backfillEnvironments)
\* and an isolation that is on is put in place again, beside the first requests.
ServeAgainAfterCrash ==
    /\ Fault("crash")
    /\ LET bare == {p \in projects : EnvsOf(p.id) = {}} IN
       /\ environments' = environments \cup Backfilled(bare, NextId(environments))
       /\ projects' = (projects \ bare) \cup {[p EXCEPT !.env = "production"] : p \in bare}
    /\ asking' = [c \in Asking |-> IF c = Serve /\ isolation THEN [Silent EXCEPT !.pc = "look"]
                                    ELSE Silent]
    /\ projectPast' = [projectPast EXCEPT !.faults = {"crash"},
           !.bare = {i \in @ : EnvsOf(i) # {}},
           !.moved = {i \in @ : EnvsOf(i) # {}} \cup
                     {asking[c].pid : c \in {d \in Asking : asking[d].pc = "name"}},
           !.cut = @ \cup UNION {asking[c].todo \cup {asking[c].ns} : c \in Asking} \cup
                     UNION {NamespacesOf(p) : p \in {q \in projects : \E c \in Asking :
                         asking[c].pc \in {"list", "look", "drop", "rows"} /\ asking[c].pid \in {0, q.id}}}]
    /\ UNCHANGED <<isolation, space>>

AskingStep(c) ==
    \/ CreateProject(c) \/ SeedProjectEnvironments(c) \/ RenameProject(c)
    \/ CreateEnvironment(c) \/ DeleteEnvironment(c) \/ DeleteProject(c)
    \/ SetDefault(c) \/ SetFlags(c) \/ SetName(c)
    \/ DropNamespace(c) \/ DropRows(c)
    \/ EnsureNamespace(c) \/ ApplyIsolation(c)
    \/ Deploy(c) \/ ReadBudget(c) \/ LimitBudget(c) \/ PipelineRun(c)
    \/ SetBudget(c) \/ ListNamespaces(c) \/ SyncBudget(c) \/ ApplyBudget(c)
    \/ PlanAsked(c) \/ PlanInserted(c) \/ PlanUnasked(c)
    \/ SetIsolation(c) \/ LookAtIsolation(c) \/ FanOut(c)

ProjectNext == (\E c \in Asking : AskingStep(c)) \/ ServeAgainAfterCrash

ProjectSpec == ProjectInit /\ [][ProjectNext]_projectVars

--------------------------------
(***************************************************************************)
(* Properties.                                                             *)
(***************************************************************************)

\* Every variable has the shape its comment gives, and the UNIQUE columns are
\* (store/schema.sql).
ProjectTypeOK ==
    /\ projects \subseteq ProjectRow /\ environments \subseteq EnvironmentRow
    /\ isolation \in BOOLEAN
    /\ \A p, q \in projects : p.id = q.id \/ p.name = q.name \/ p.home = q.home => p = q
    /\ \A e, f \in environments : e.pid = f.pid /\ e.env = f.env => e = f
    /\ \A e \in environments : ProjectOf(e.pid) # {}
    /\ space \in [Spaces -> [there : BOOLEAN, gpu : Budgets, isolated : BOOLEAN]]
    /\ \A c \in Asking : asking[c].pc \in AskingPCs

Quiet == \A c \in Asking : asking[c].pc = "idle"

\* Names that stand for a project and for an environment of another.
Ambiguous ==
    {Home(n) : n \in Names} \cap {SpaceOf[n, e] : n \in Names, e \in EnvNames \ {"production"}}

\* Namespaces of one project each, and not by such a name.
OwnSpaces ==
    {e.ns : e \in {f \in environments :
        /\ f.ns \notin Ambiguous
        /\ \A g \in Holding(f.ns) : g.pid = f.pid
        /\ \A p \in projects : p.home = f.ns => p.id = f.pid}}

\* With nothing under way, what was set holds wherever an environment has a namespace,
\* whichever came first, the namespace or the setting, unless what was written last had been
\* read before a change, or a call failed, or the namespace had outlived an environment.
SettingsHold ==
    Quiet => \A ns \in OwnSpaces :
        space[ns].there /\ ns \notin projectPast.cut \cup projectPast.left =>
            /\ ns \in projectPast.late \/ {space[ns].gpu} = BudgetsOf(ns)
            /\ ns \in projectPast.lateOn \/ space[ns].isolated = isolation

\* A namespace outlives its environment only if it could not be deleted, was made again
\* at the time, or was of a project whose deletion did not see it: one without environments,
\* or with another that came later, or that had the id of one deleted twice.
NoStraySpaces ==
    Quiet => \A ns \in Spaces :
        space[ns].there =>
            Holding(ns) # {} \/ (\E p \in projects : p.home = ns) \/ ns \in projectPast.left

\* Projects share a namespace only by such a name, or after one was renamed.
SharedByName ==
    \A e, f \in environments :
        e.ns = f.ns /\ e.pid # f.pid =>
            e.ns \in Ambiguous \/ {e.pid, f.pid} \cap projectPast.renamed # {}

\* A project has a default environment, and only one, which is the one it names, after
\* any environments were made, deleted and made the default, unless they could not be made
\* and the server was not started since, or a request made another one before them, or the
\* default was moved to an environment that was being deleted, or got the id of one that
\* was, or was named by a request that another overtook, or not because of a crash.
HaveEnvironments ==
    Quiet => \A p \in projects :
        p.id \in projectPast.bare \cup projectPast.moved \/
            \E d \in EnvsOf(p.id) : d.env = p.env /\ {e \in EnvsOf(p.id) : e.default} = {d}

\* What was planned after a check fits into the budget, unless two were checked at once
\* or the budget came later.  What was planned without one (from the page, for a preview, by
\* a copy of an environment) comes on top, and stands in the way of plans that are checked.
PlansFit ==
    \A p \in projects :
        p.gpu > 0 /\ p.planned - p.unasked > p.gpu => p.id \in projectPast.rushed

\* Projects, their environments and namespaces, and what was set for them fit together
\* (projects.go, gpuquota.go, netpolicy.go).
ProjectsWhole == SettingsHold /\ NoStraySpaces /\ SharedByName /\ HaveEnvironments /\ PlansFit

================================
