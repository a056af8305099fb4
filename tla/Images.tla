---------------------------------- MODULE Images ---------------------------------
(***************************************************************************)
(* The images of the embedded registry (build/job.go, server/build.go,     *)
(* rollback.go, registrygc.go, registry/registry.go): builds push them     *)
(* under the number of their deploy, deploys and rollbacks name them, and  *)
(* nodes pull them when a pod starts; the sweep deletes them.              *)
(*                                                                         *)
(* A tag of a repository holds the content one build made, or nothing.     *)
(* Content is never inspected, only compared: two tags with the same       *)
(* content have one manifest.                                              *)
(***************************************************************************)
EXTENDS Naturals, Sequences, FiniteSetsExt

CONSTANTS
    AppIds,       \* rows of apps, in the order ListApps gives
    RepoOf,       \* the repository of each: the names of its project and its own
    MaxTags,       \* bound: deploys of an app
    Keep,         \* registry_keep
    History,      \* ListDeployments returns this many rows, 50 in the code
    Reproducible, \* whether a build may make what an earlier build made
    MaxSweeps     \* bound: sweeps

ASSUME ImageAssumption ==
    /\ AppIds \subseteq Nat /\ IsFiniteSet(AppIds)
    /\ MaxTags \in Nat /\ Keep \in Nat \ {0} /\ History \in Nat \ {0}
    /\ Reproducible \in BOOLEAN /\ MaxSweeps \in Nat

VARIABLES
    deployRows, \* deployments: the rows of each app, oldest first
    registry,  \* what each tag of each repository holds
    applied,   \* of each app: the deploy last applied, and what its pods run
    sweep,     \* the goroutine of runRegistryGC
    rolls,     \* requests of rollback that found their image, and have no row yet
    missed,    \* history: deploys whose image a sweep could not know of
    sweeps     \* how much of MaxSweeps is spent

imageVars == <<deployRows, registry, applied, sweep, rolls, missed, sweeps>>

Nothing  == <<0, 0>>
Contents == AppIds \X (1 .. MaxTags)
Repos    == {RepoOf[a] : a \in AppIds}
Tags     == Repos \X (1 .. MaxTags)

\* ref: the tag in image_ref, 0 when it is empty.  made: what the Job pushed.
DeployRow == [status : {"building", "deploying", "live", "failed"},
              ref : 0 .. MaxTags, made : Contents \cup {Nothing}]

\* keep: the retention set.  repos: repositories to visit.  todo: tags of the
\* repository at hand to delete.  victims: the manifest about to be deleted.
\* Of a request: the app, the deploy it goes back to, and whether a sweep read the
\* rows since it looked for the image.
Roll == [app : AppIds, to : 1 .. MaxTags, swept : BOOLEAN]

NoSweep == [pc |-> "idle", keep |-> {}, repos |-> {}, todo |-> {}, victims |-> {}]

ImageInit ==
    /\ deployRows = [a \in AppIds |-> <<>>]
    /\ registry = [t \in Tags |-> Nothing]
    /\ applied = [a \in AppIds |-> [row |-> 0, runs |-> Nothing]]
    /\ sweep = NoSweep /\ rolls = {} /\ missed = {} /\ sweeps = 0

--------------------------------
(***************************************************************************)
(* Builds and deploys.                                                         *)
(***************************************************************************)

\* build.ImageRef, with projectSlug.
ImageRef(a, seq) == <<RepoOf[a], seq>>

Made(a) == {deployRows[a][i].made : i \in DOMAIN deployRows[a]} \ {Nothing}

IsLatest(a, i) == i = Len(deployRows[a])

SetStatus(a, i, status) == deployRows' = [deployRows EXCEPT ![a][i].status = status]

\* A sweep that read the rows knows nothing of the deploy that begins.
NotSeen(a, unseen) ==
    missed' = IF unseen THEN missed \cup {<<a, Len(deployRows[a]) + 1>>} ELSE missed

Sweeping == sweep.pc # "idle"

BuildAsked(a) ==
    /\ Len(deployRows[a]) < MaxTags
    /\ deployRows' = [deployRows EXCEPT ![a] =
           Append(@, [status |-> "building", ref |-> 0, made |-> Nothing])]
    /\ NotSeen(a, Sweeping)
    /\ UNCHANGED <<registry, applied, sweep, rolls, sweeps>>

\* The Build Job pushes the tag, and it completes.
JobPushes(a, i) ==
    /\ deployRows[a][i].status = "building" /\ deployRows[a][i].made = Nothing
    /\ \E c \in {<<a, i>>} \cup (IF Reproducible THEN Made(a) ELSE {}) :
        /\ deployRows' = [deployRows EXCEPT ![a][i].made = c]
        /\ registry' = [registry EXCEPT ![ImageRef(a, i)] = c]
    /\ UNCHANGED <<applied, sweep, rolls, missed, sweeps>>

ImageBuildFails(a, i) ==
    /\ deployRows[a][i].status = "building" /\ deployRows[a][i].made = Nothing
    /\ SetStatus(a, i, "failed")
    /\ UNCHANGED <<registry, applied, sweep, rolls, missed, sweeps>>

\* The server sees that the Job completed: SetDeploymentImage, SetDeploymentStatus.
FinishDeploy(a, i) ==
    /\ deployRows[a][i].status = "building" /\ deployRows[a][i].made # Nothing
    /\ deployRows' = [deployRows EXCEPT ![a][i] = [@ EXCEPT !.status = "deploying", !.ref = i]]
    /\ UNCHANGED <<registry, applied, sweep, rolls, missed, sweeps>>

\* renderApp, Apply and the gate: a pod that cannot pull its image fails the
\* deploy, and so does a newer deploy.
ApplyDeploy(a, i) ==
    /\ deployRows[a][i].status = "deploying"
    /\ LET pulled == registry[ImageRef(a, deployRows[a][i].ref)]
       IN  IF IsLatest(a, i) /\ pulled # Nothing
           THEN /\ SetStatus(a, i, "live")
                /\ applied' = [applied EXCEPT ![a] = [row |-> i, runs |-> pulled]]
           ELSE /\ SetStatus(a, i, "failed")
                /\ UNCHANGED applied
    /\ UNCHANGED <<registry, sweep, rolls, missed, sweeps>>

\* A pod of the app starts on a node that does not have the image.
PodMovesNode(a) ==
    /\ applied[a].row # 0
    /\ applied' = [applied EXCEPT ![a].runs = registry[ImageRef(a, deployRows[a][applied[a].row].ref)]]
    /\ UNCHANGED <<deployRows, registry, sweep, rolls, missed, sweeps>>

\* rollback, to any deploy of the app that has an image: imageInRegistry.
RollbackLooks(a, t) ==
    /\ Len(deployRows[a]) < MaxTags
    /\ deployRows[a][t].ref # 0
    /\ registry[ImageRef(a, deployRows[a][t].ref)] # Nothing
    /\ rolls' = rolls \cup {[app |-> a, to |-> t, swept |-> Sweeping]}
    /\ UNCHANGED <<deployRows, registry, applied, sweep, missed, sweeps>>

\* CreateRollbackDeployment, some time after it looked.
RollbackTo(r) ==
    /\ Len(deployRows[r.app]) < MaxTags
    /\ rolls' = rolls \ {r}
    /\ deployRows' = [deployRows EXCEPT ![r.app] =
           Append(@, [deployRows[r.app][r.to] EXCEPT !.status = "deploying"])]
    /\ NotSeen(r.app, r.swept)
    /\ UNCHANGED <<registry, applied, sweep, sweeps>>

--------------------------------
(***************************************************************************)
(* runRegistryGC.                                                          *)
(***************************************************************************)

\* ListDeployments is newest first and stops at History.
RefRows(a) == {i \in DOMAIN deployRows[a] : deployRows[a][i].ref # 0 /\ i + History > Len(deployRows[a])}

\* deployRefs, KeepTags: how many images of the repository come before this one.
Position(a, i) ==
    Cardinality({j \in RefRows(a) : j > i})
      + MapThenSumSet(LAMBDA b : Cardinality(RefRows(b)),
                      {b \in AppIds : b < a /\ RepoOf[b] = RepoOf[a]})

\* Mutant: only the newest Keep images are kept.
KeepTagsNewest ==
    UNION {{ImageRef(a, deployRows[a][i].ref) :
                i \in {i \in RefRows(a) : Position(a, i) < Keep}} : a \in AppIds}

KeepTags ==
    UNION {{ImageRef(a, deployRows[a][i].ref) :
                i \in {i \in RefRows(a) : \/ deployRows[a][i].status = "live"
                                         \/ IsLatest(a, i)
                                         \/ Position(a, i) < Keep}} : a \in AppIds}

SweepStarts ==
    /\ sweep.pc = "idle" /\ sweeps < MaxSweeps
    /\ sweeps' = sweeps + 1
    /\ sweep' = [sweep EXCEPT !.pc = "listing", !.keep = KeepTags, !.repos = Repos]
    /\ rolls' = {[r EXCEPT !.swept = TRUE] : r \in rolls}
    /\ missed' = missed \cup {x \in AppIds \X (1 .. MaxTags) :
                     x[2] \in DOMAIN deployRows[x[1]] /\ deployRows[x[1]][x[2]].status = "building"}
    /\ UNCHANGED <<deployRows, registry, applied>>

\* Tags of the next repository, or a warning that it cannot be listed.
SweepLists(r) ==
    /\ sweep.pc = "listing" /\ r \in sweep.repos
    /\ \E todo \in {{}, {t \in Tags : t[1] = r /\ registry[t] # Nothing} \ sweep.keep} :
        sweep' = [sweep EXCEPT !.pc = "deleting", !.repos = @ \ {r}, !.todo = todo]
    /\ UNCHANGED <<deployRows, registry, applied, rolls, missed, sweeps>>

\* Digest of the next tag; a tag that is gone is a warning.
SweepLooksUp(t) ==
    /\ sweep.pc = "deleting" /\ sweep.victims = {} /\ t \in sweep.todo
    /\ sweep' = [sweep EXCEPT !.todo = @ \ {t},
                              !.victims = {<<t[1], registry[t]>>} \ (Repos \X {Nothing})]
    /\ UNCHANGED <<deployRows, registry, applied, rolls, missed, sweeps>>

\* The tags of a manifest: all the tags of the repository with its content.
TagsOf(v) == {t \in Tags : <<t[1], registry[t]>> = v}

\* DeleteManifest takes every tag of the manifest.
SweepDeletes ==
    /\ sweep.victims # {}
    /\ registry' = [t \in Tags |-> IF \E v \in sweep.victims : t \in TagsOf(v)
                                   THEN Nothing ELSE registry[t]]
    /\ sweep' = [sweep EXCEPT !.victims = {}]
    /\ UNCHANGED <<deployRows, applied, rolls, missed, sweeps>>

\* DeleteManifest fails: a warning.
SweepSkips ==
    /\ sweep.victims # {}
    /\ sweep' = [sweep EXCEPT !.victims = {}]
    /\ UNCHANGED <<deployRows, registry, applied, rolls, missed, sweeps>>

SweepMovesOn ==
    /\ sweep.pc = "deleting" /\ sweep.todo = {} /\ sweep.victims = {}
    /\ sweep' = IF sweep.repos = {} THEN NoSweep ELSE [sweep EXCEPT !.pc = "listing"]
    /\ UNCHANGED <<deployRows, registry, applied, rolls, missed, sweeps>>

\* The process dies; the next sweep starts anew.
SweepDies ==
    /\ sweep.pc # "idle"
    /\ sweep' = NoSweep
    /\ UNCHANGED <<deployRows, registry, applied, rolls, missed, sweeps>>

SweepStep ==
    \/ SweepStarts \/ SweepDeletes \/ SweepSkips \/ SweepMovesOn \/ SweepDies
    \/ \E r \in Repos : SweepLists(r)
    \/ \E t \in Tags : SweepLooksUp(t)

DeployStep(a, i) ==
    JobPushes(a, i) \/ ImageBuildFails(a, i) \/ FinishDeploy(a, i) \/ ApplyDeploy(a, i) \/ RollbackLooks(a, i)

ImageNext ==
    \/ \E a \in AppIds : BuildAsked(a) \/ PodMovesNode(a)
    \/ \E a \in AppIds : \E i \in DOMAIN deployRows[a] : DeployStep(a, i)
    \/ \E r \in rolls : RollbackTo(r)
    \/ SweepStep

ImageSpec == ImageInit /\ [][ImageNext]_imageVars

--------------------------------
(***************************************************************************)
(* Properties. What makes the registry right: an app runs what its deploy  *)
(* built, and the sweep leaves what may still be run.                      *)
(***************************************************************************)

\* Every variable has the shape its comment gives (deployments.go, registrygc.go).
ImageTypeOK ==
    /\ \A a \in AppIds :
        /\ Len(deployRows[a]) \in 0 .. MaxTags
        /\ \A i \in DOMAIN deployRows[a] : deployRows[a][i] \in DeployRow
        /\ applied[a].row \in 0 .. Len(deployRows[a])
        /\ applied[a].runs \in Contents \cup {Nothing}
    /\ registry \in [Tags -> Contents \cup {Nothing}]
    /\ sweep.pc \in {"idle", "listing", "deleting"}
    /\ sweep.keep \subseteq Tags /\ sweep.repos \subseteq Repos /\ sweep.todo \subseteq Tags
    /\ sweep.victims \subseteq Repos \X Contents /\ rolls \subseteq Roll
    /\ missed \subseteq AppIds \X (1 .. MaxTags) /\ sweeps \in 0 .. MaxSweeps

\* ImageRef says that the number of a deploy "stays unique as the tag value":
\* the pods of an app run what the deploy that was applied built, also after
\* a rollback and after they moved to another node.
ServesItsBuild ==
    \A a \in AppIds : applied[a].runs # Nothing =>
        applied[a].runs = deployRows[a][applied[a].row].made

\* The images that the sweep is to keep "regardless of position".
Kept(a, i) == deployRows[a][i].ref # 0 /\ (deployRows[a][i].status = "live" \/ IsLatest(a, i))

Lost(a, i) == registry[ImageRef(a, deployRows[a][i].ref)] = Nothing

\* Not so: a deploy that History newer ones follow is not read, live or not.
Beyond(a, i) == i + History <= Len(deployRows[a])

\* A sweep that read the rows takes many calls to delete what is not on its
\* list, while deploys go on: it takes no image of a live deploy and none of the
\* newest, but of one beyond the rows that ListDeployments returns, of one whose
\* image was not on record when it read them, and of a rollback that looked for
\* the image before it read them (runRegistryGC, KeepTags, rollback).
SweepSpares ==
    \A a \in AppIds : \A i \in DOMAIN deployRows[a] :
        Kept(a, i) /\ Lost(a, i) => Beyond(a, i) \/ <<a, i>> \in missed

\* Apps run what they built, and find it when a pod starts again (build.ImageRef,
\* runRegistryGC).
ImagesWhole == ServesItsBuild /\ SweepSpares

================================
