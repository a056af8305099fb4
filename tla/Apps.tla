----------------------------------- MODULE Apps ----------------------------------
(***************************************************************************)
(* The life of the apps of one environment (internal/server/apps.go,       *)
(* eject.go, with the deploys of build.go, rolloutgate.go, rollback.go and *)
(* reconcile.go as far as they touch it): created, deployed, synced,       *)
(* handed over to the user and taken back, destroyed, and created again    *)
(* under the same name.  Module Deploy has the deploys of one app in       *)
(* detail; here they matter because each works for minutes on the copy of  *)
(* the app's row it was started with.                                      *)
(*                                                                         *)
(* Deploys are rolling, with auto-rollback.  Requests run side by side.    *)
(* SQLite gives a new row the id after the highest, which a destroyed app  *)
(* may have had; ids of deploys are never given twice.                     *)
(***************************************************************************)
EXTENDS Naturals, Sequences, FiniteSetsExt

CONSTANTS
    AppNames,    \* names of apps
    AppClients,  \* clients, one request at a time each
    AppActs,     \* what they ask for: a subset of AllAppActs
    MaxAppId,    \* bound: ids of apps
    MaxReleases, \* bound: deploys
    MaxAppCalls, \* bound: requests
    AppFaults    \* what may go wrong, each once: a subset of AppFaultKinds

\* page: the Deploy button of the page.  pipeline: the deploy step of a pipeline,
\* which the pipeline loop runs.
AllAppActs ==
    {"create", "image", "source", "page", "pipeline", "sync", "eject", "adopt", "destroy"}

\* build, rollout: fails.  delete: a call to Kubernetes.
AppFaultKinds == {"build", "rollout", "delete", "crash"}

ASSUME AppAssumption ==
    /\ IsFiniteSet(AppNames) /\ IsFiniteSet(AppClients) /\ "" \notin AppNames
    /\ AppActs \subseteq AllAppActs /\ AppFaults \subseteq AppFaultKinds
    /\ MaxAppId \in Nat \ {0} /\ MaxReleases \in Nat /\ MaxAppCalls \in Nat

VARIABLES
    appRow,   \* apps: the row of each id
    releases, \* deployments, oldest first, and the goroutine of each
    objects,  \* in Kubernetes: the image of each name's Deployment, 0 without one
    desk,     \* the goroutine of each request
    handed,   \* history: the image of the objects luncur let go of, by name
    strayed,  \* history: names that something the README lists has happened to
    appTally     \* requests, and the faults that have happened

appVars == <<appRow, releases, objects, desk, handed, strayed, appTally>>

AppIdRange == 1 .. MaxAppId
ReleaseNos == 0 .. MaxReleases

AppRow == [name : AppNames, ejected : BOOLEAN]
NoApp  == [name |-> "", ejected |-> FALSE]

\* row: whether the row is there; app, name: of the copy its goroutine works on.
\* back: is it a rollback?  to: the image a rollback of it goes back to.
ReleasePCs == {"none", "build", "apply", "gate", "rollback", "restore"}
Release    == [row : BOOLEAN, app : AppIdRange, name : AppNames, image : ReleaseNos,
               status : {"building", "deploying", "live", "failed"}, back : BOOLEAN,
               to : ReleaseNos, pc : ReleasePCs]

\* id, copy: the app it works on, as it was read.  image: what a sync applies.
DeskPCs == {"idle", "insert", "sync", "resync", "eject", "adopt", "objects", "row"}
NoDesk  == [pc |-> "idle", act |-> "", id |-> 0, copy |-> NoApp, image |-> 0]

AppInit ==
    /\ appRow = [i \in AppIdRange |-> NoApp] /\ releases = <<>>
    /\ objects = [n \in AppNames |-> 0]
    /\ desk = [c \in AppClients |-> NoDesk]
    /\ handed = [n \in AppNames |-> 0] /\ strayed = {}
    /\ appTally = [calls |-> 0, faults |-> {}]

--------------------------------
(***************************************************************************)
(* Rows.                                                                   *)
(***************************************************************************)

AppRows   == {i \in AppIdRange : appRow[i] # NoApp}

\* External: SQLite gives a new row the id after the highest.
IsNextId(i) == (\A j \in AppRows : j < i) /\ (i = 1 \/ i - 1 \in AppRows)

RowsOf(n) == {i \in AppRows : appRow[i].name = n}

\* LatestDeployment, and the newest other one that is live (rollbackTarget): 0 if none.
OfApp(i)    == {d \in DOMAIN releases : releases[d].row /\ releases[d].app = i}
LatestOf(i) == Max(OfApp(i) \cup {0})
TargetOf(i) == Max({d \in OfApp(i) \ {LatestOf(i)} : releases[d].status = "live"} \cup {0})
IsLive(d)   == d # 0 /\ releases[d].status = "live"

\* Deploys that will go on to apply the app of an id, now or after a restart, and the
\* other requests that act on it.
Unsettled(i) == {d \in DOMAIN releases :
                    /\ releases[d].app = i
                    /\ \/ releases[d].row /\ releases[d].pc \in {"build", "apply", "gate"}
                       \/ releases[d].pc = "restore"}
Desks(i, c)  == {e \in AppClients \ {c} : desk[e].pc # "idle" /\ desk[e].id = i}

Strikes(k) ==
    k \in AppFaults \ appTally.faults /\ appTally' = [appTally EXCEPT !.faults = @ \cup {k}]

DeskAt(c, pc) == desk' = [desk EXCEPT ![c].pc = pc]
Leaves(c)     == desk' = [desk EXCEPT ![c] = NoDesk]
Strays(names) == strayed' = strayed \cup names

\* The names a request acts on that has read name, when the id is another app's by now.
ActsOn(i, name) == IF appRow[i].name = name THEN {} ELSE {appRow[i].name, name}

\* Between the deletion of an app's objects and that of its row, they may come back.
HalfDestroyed(n) == \E e \in AppClients : /\ desk[e].pc = "row" /\ desk[e].copy.name = n
                                         /\ ~ desk[e].copy.ejected
PutsImage(n, image) ==
    /\ objects' = [objects EXCEPT ![n] = image]
    /\ Strays(IF HalfDestroyed(n) THEN {n} ELSE {})

OnCall(act) ==
    act \in AppActs /\ appTally.calls < MaxAppCalls /\ appTally' = [appTally EXCEPT !.calls = @ + 1]

\* A request reads the row of its app (requireApp).
AsksApp(c, act, i, pc) ==
    /\ desk[c].pc = "idle" /\ OnCall(act)
    /\ desk' = [desk EXCEPT ![c] =
                  [NoDesk EXCEPT !.pc = pc, !.act = act, !.id = i, !.copy = appRow[i]]]
    /\ UNCHANGED <<appRow, releases, objects, handed, strayed>>

\* refuseEjected.
Managed == {i \in AppRows : ~ appRow[i].ejected}

\* Objects of a name are deleted.
TakesObjects(n) ==
    /\ objects' = [objects EXCEPT ![n] = 0]
    /\ Strays(IF RowsOf(n) \cap Managed = {} /\ objects[n] # 0 THEN {n} ELSE {})

\* handleCreateApp.  A name is unique.
CreatesApp(n) ==
    /\ OnCall("create")
    /\ RowsOf(n) = {}
    /\ \E i \in AppIdRange :
          IsNextId(i) /\ appRow' = [appRow EXCEPT ![i] = [name |-> n, ejected |-> FALSE]]
    /\ UNCHANGED <<releases, objects, desk, handed, strayed>>

--------------------------------
(***************************************************************************)
(* Deploys.                                                                *)
(***************************************************************************)

NewRelease(i, name, image, back, pc) ==
    [row |-> TRUE, app |-> i, name |-> name, image |-> image, back |-> back, to |-> 0, pc |-> pc,
     status |-> IF pc = "build" THEN "building" ELSE "deploying"]

\* Acts that build what they deploy.
Builds(act) == act \in {"source", "page"}

\* handleDeployApp.  The page (handleUIDeploy) and a deploy step of a pipeline
\* (pipelineRunDeploy) do not ask whether the app is ejected.
ReleaseAsked(c) ==
    \/ \E i \in Managed, act \in {"image", "source"} : AsksApp(c, act, i, "insert")
    \/ \E i \in AppRows, act \in {"page", "pipeline"} : AsksApp(c, act, i, "insert")

\* CreateDeployment: the app must exist, by id.
InsertsRelease(c) ==
    /\ desk[c].pc = "insert"
    /\ LET i     == desk[c].id
           name  == desk[c].copy.name
           fresh == Len(releases) + 1
           image == CASE Builds(desk[c].act)      -> 0
                      [] desk[c].act = "image"    -> fresh
                      [] desk[c].act = "pipeline" -> releases[LatestOf(i)].image
       IN  IF i \notin AppRows \/ (desk[c].act = "pipeline" /\ ~ IsLive(LatestOf(i)))
           THEN UNCHANGED <<releases, strayed>>
           ELSE /\ fresh <= MaxReleases
                /\ releases' = Append(releases, NewRelease(i, name, image, FALSE,
                                        IF Builds(desk[c].act) THEN "build" ELSE "apply"))
                /\ Strays(ActsOn(i, name) \cup (IF appRow[i].ejected THEN {name} ELSE {}))
    /\ Leaves(c)
    /\ UNCHANGED <<appRow, objects, handed, appTally>>

\* Nothing is written to a row that is gone.
WithStatus(d, status, pc) ==
    releases' = [releases EXCEPT ![d].status = IF releases[d].row THEN status ELSE @, ![d].pc = pc]

\* Mutant: the image is applied whether or not its row could be written.
AppBuildAppliesAnyway(d) ==
    /\ releases[d].pc = "build"
    /\ releases' = [releases EXCEPT ![d].image = d, ![d].status = "deploying", ![d].pc = "apply"]
    /\ UNCHANGED <<appRow, objects, desk, handed, strayed, appTally>>

\* finishDeploy: SetDeploymentImage and SetDeploymentStatus fail when the row is gone.
AppBuildSucceeds(d) ==
    /\ releases[d].pc = "build"
    /\ releases' = IF releases[d].row
                   THEN [releases EXCEPT ![d].image = d, ![d].status = "deploying",
                                         ![d].pc = "apply"]
                   ELSE [releases EXCEPT ![d].pc = "none"]
    /\ UNCHANGED <<appRow, objects, desk, handed, strayed, appTally>>

AppBuildFails(d) ==
    /\ releases[d].pc = "build" /\ Strikes("build")
    /\ WithStatus(d, "failed", "none")
    /\ UNCHANGED <<appRow, objects, desk, handed, strayed>>

\* applyAndGate: renders and applies the copy.
AppliesRelease(d) ==
    /\ releases[d].pc = "apply"
    /\ PutsImage(releases[d].name, releases[d].image)
    /\ releases' = [releases EXCEPT ![d].pc = "gate"]
    /\ UNCHANGED <<appRow, desk, handed, appTally>>

\* watchRollout: superseded, or the Deployment is gone.
GateGivesUp(d) ==
    /\ releases[d].pc = "gate"
    /\ LatestOf(releases[d].app) \notin {0, d} \/ objects[releases[d].name] = 0
    /\ WithStatus(d, "failed", "none")
    /\ UNCHANGED <<appRow, objects, desk, handed, strayed, appTally>>

GateWatches(d) ==
    /\ releases[d].pc = "gate"
    /\ LatestOf(releases[d].app) \in {0, d} /\ objects[releases[d].name] # 0

GateOpens(d) ==
    /\ GateWatches(d)
    /\ WithStatus(d, "live", "none")
    /\ UNCHANGED <<appRow, objects, desk, handed, strayed, appTally>>

\* failDeploy.
GateFails(d) ==
    /\ GateWatches(d) /\ Strikes("rollout")
    /\ WithStatus(d, "failed", IF releases[d].back THEN "none" ELSE "rollback")
    /\ UNCHANGED <<appRow, objects, desk, handed, strayed>>

\* failDeploy, rollback: of the row as it is now, by id.
FindsTarget(d) ==
    /\ releases[d].pc = "rollback"
    /\ LET i == releases[d].app
           t == TargetOf(i)
       IN  releases' = IF i \in Managed /\ t # 0
                       THEN [releases EXCEPT ![d].pc = "restore", ![d].to = releases[t].image,
                                             ![d].name = appRow[i].name]
                       ELSE [releases EXCEPT ![d].pc = "none"]
    /\ UNCHANGED <<appRow, objects, desk, handed, strayed, appTally>>

\* CreateRollbackDeployment, after a look at the registry.
RollsBack(d) ==
    /\ releases[d].pc = "restore" /\ Len(releases) < MaxReleases
    /\ LET i == releases[d].app
           ended == [releases EXCEPT ![d].pc = "none"]
       IN  IF i \in AppRows
           THEN /\ releases' = Append(ended,
                      NewRelease(i, releases[d].name, releases[d].to, TRUE, "apply"))
                /\ Strays(ActsOn(i, releases[d].name))
           ELSE releases' = ended /\ UNCHANGED strayed
    /\ UNCHANGED <<appRow, objects, desk, handed, appTally>>

--------------------------------
(***************************************************************************)
(* syncApp, ejectApp, handleAdoptApp.                                      *)
(***************************************************************************)

\* A setting of the app was written.
AppSyncAsked(c) == \E i \in Managed : AsksApp(c, "sync", i, "sync")

\* The image of the latest deploy, if that is live.
SyncReads(c) ==
    /\ desk[c].pc = "sync"
    /\ LET i == desk[c].id
           d == LatestOf(i)
       IN  IF IsLive(d)
           THEN /\ desk' = [desk EXCEPT ![c].pc = "resync", ![c].image = releases[d].image]
                /\ Strays(ActsOn(i, desk[c].copy.name))
           ELSE Leaves(c) /\ UNCHANGED strayed
    /\ UNCHANGED <<appRow, releases, objects, handed, appTally>>

SyncApplies(c) ==
    /\ desk[c].pc = "resync"
    /\ PutsImage(desk[c].copy.name, desk[c].image)
    /\ Leaves(c)
    /\ UNCHANGED <<appRow, releases, handed, appTally>>

EjectAsked(c) == \E i \in Managed : AsksApp(c, "eject", i, "eject")

\* SetAppEjected.  A deploy or a sync that is under way does not hear of it.
Ejects(c) ==
    /\ desk[c].pc = "eject"
    /\ LET i == desk[c].id
       IN  IF i \notin AppRows
           THEN UNCHANGED <<appRow, handed, strayed>>
           ELSE LET n == appRow[i].name
                IN  /\ appRow' = [appRow EXCEPT ![i].ejected = TRUE]
                    /\ handed' = [handed EXCEPT ![n] = objects[n]]
                    /\ Strays(ActsOn(i, desk[c].copy.name)
                                \cup (IF Unsettled(i) # {} \/ Desks(i, c) # {} THEN {n} ELSE {}))
    /\ Leaves(c)
    /\ UNCHANGED <<releases, objects, appTally>>

AdoptAsked(c) == \E i \in AppRows \ Managed : AsksApp(c, "adopt", i, "adopt")

\* SetAppAdopted, then a sync.
Adopts(c) ==
    /\ desk[c].pc = "adopt"
    /\ LET i == desk[c].id
       IN  IF i \in AppRows
           THEN /\ appRow' = [appRow EXCEPT ![i].ejected = FALSE]
                /\ DeskAt(c, "sync")
                /\ Strays(ActsOn(i, desk[c].copy.name))
           ELSE Leaves(c) /\ UNCHANGED <<appRow, strayed>>
    /\ UNCHANGED <<releases, objects, handed, appTally>>

--------------------------------
(***************************************************************************)
(* destroyApp.                                                             *)
(***************************************************************************)

DestroyAsked(c) ==
    \E i \in AppRows : AsksApp(c, "destroy", i, IF appRow[i].ejected THEN "row" ELSE "objects")

\* DeleteAppObjects, by name.
DeletesAppObjects(c) ==
    /\ desk[c].pc = "objects"
    /\ TakesObjects(desk[c].copy.name)
    /\ DeskAt(c, "row")
    /\ UNCHANGED <<appRow, releases, handed, appTally>>

\* The Deployment is the first object to go.
DeletesAppObjectsFails(c) ==
    /\ desk[c].pc = "objects" /\ Strikes("delete")
    /\ TakesObjects(desk[c].copy.name) \/ UNCHANGED <<objects, strayed>>
    /\ Leaves(c)
    /\ UNCHANGED <<appRow, releases, handed>>

\* DeleteApp, by id: the deploys go with the row.  What is being applied is applied;
\* a build that has not ended finds its row gone.
DeletesAppRow(c) ==
    /\ desk[c].pc = "row"
    /\ LET i == desk[c].id
           applying == {d \in OfApp(i) : releases[d].pc = "apply"}
           resyncs  == {e \in Desks(i, c) : desk[e].pc = "resync"}
       IN  IF i \notin AppRows
           THEN UNCHANGED <<appRow, releases, handed, strayed>>
           ELSE /\ appRow' = [appRow EXCEPT ![i] = NoApp]
                /\ releases' = [d \in DOMAIN releases |->
                                  IF d \in OfApp(i) THEN [releases[d] EXCEPT !.row = FALSE]
                                                    ELSE releases[d]]
                /\ handed' = IF desk[c].copy.ejected THEN handed
                             ELSE [handed EXCEPT ![appRow[i].name] = 0]
                /\ Strays(IF applying # {} \/ resyncs # {} \/ appRow[i] # desk[c].copy
                          THEN {appRow[i].name, desk[c].copy.name} ELSE {})
    /\ Leaves(c)
    /\ UNCHANGED <<objects, appTally>>

--------------------------------
(***************************************************************************)
(* A restart: reconcileUnfinished.                                         *)
(***************************************************************************)

\* lost: builds whose Job is not there or cannot be looked up.
Resumed(lost) ==
    [d \in DOMAIN releases |->
        IF ~ releases[d].row THEN [releases[d] EXCEPT !.pc = "none"]
        ELSE CASE releases[d].status = "building" /\ d \notin lost ->
                     [releases[d] EXCEPT !.pc = "build"]
               [] releases[d].status = "building" /\ d \in lost ->
                     [releases[d] EXCEPT !.pc = "none", !.status = "failed"]
               [] releases[d].status = "deploying" -> [releases[d] EXCEPT !.pc = "apply"]
               [] OTHER -> [releases[d] EXCEPT !.pc = "none"]]

AppsRestart ==
    /\ Strikes("crash")
    /\ \E lost \in SUBSET {d \in DOMAIN releases : releases[d].status = "building"} :
          releases' = Resumed(lost)
    /\ desk' = [c \in AppClients |-> NoDesk]
    /\ UNCHANGED <<appRow, objects, handed, strayed>>

ReleaseStep(d) ==
    \/ AppBuildSucceeds(d) \/ AppBuildFails(d) \/ AppliesRelease(d)
    \/ GateGivesUp(d) \/ GateOpens(d) \/ GateFails(d)
    \/ FindsTarget(d) \/ RollsBack(d)

DeskStep(c) ==
    \/ ReleaseAsked(c) \/ InsertsRelease(c) \/ AppSyncAsked(c) \/ SyncReads(c) \/ SyncApplies(c)
    \/ EjectAsked(c) \/ Ejects(c) \/ AdoptAsked(c) \/ Adopts(c)
    \/ DestroyAsked(c) \/ DeletesAppObjects(c) \/ DeletesAppObjectsFails(c) \/ DeletesAppRow(c)

AppNext ==
    \/ \E n \in AppNames : CreatesApp(n)
    \/ \E c \in AppClients : DeskStep(c)
    \/ \E d \in DOMAIN releases : ReleaseStep(d)
    \/ AppsRestart

AppSpec == AppInit /\ [][AppNext]_appVars

--------------------------------
(***************************************************************************)
(* What makes the life of an app right.                                    *)
(***************************************************************************)

\* Every variable has the shape its comment gives (apps.go, eject.go).
AppTypeOK ==
    /\ appRow \in [AppIdRange -> AppRow \cup {NoApp}]
    /\ releases \in Seq(Release) /\ Len(releases) <= MaxReleases
    /\ objects \in [AppNames -> ReleaseNos] /\ handed \in [AppNames -> ReleaseNos]
    /\ \A c \in AppClients : desk[c].pc \in DeskPCs /\ desk[c].id \in 0 .. MaxAppId
    /\ strayed \subseteq AppNames /\ appTally.calls \in 0 .. MaxAppCalls

\* An app that was ejected stays as it was handed over, and one that was destroyed
\* stays gone (or, if it was ejected, stays as it was handed over), whatever builds,
\* gates and rollbacks of it still run, whoever gets its id or its name, and over a
\* restart.  What does not: a deploy or a request that was under way at the
\* ejection, an apply that was under way at the destruction, the page's Deploy
\* button and the deploy step of a pipeline, a request that acts on an id that has
\* changed hands (ejectApp, destroyApp, finishDeploy, rollback, reconcileUnfinished).
AppsLeftAlone ==
    \A n \in AppNames \ strayed : RowsOf(n) \cap Managed = {} => objects[n] = handed[n]

================================
