---------------------------------- MODULE Pushes ---------------------------------
(***************************************************************************)
(* Pushes to the repository of an app, and the builds the git provider's   *)
(* calls start (internal/server/webhook.go, deployGitApp of apps.go,       *)
(* store/webhookdeliveries.go).  A push moves the head of the branch; the  *)
(* provider then posts a delivery, which may be late, lost or posted again.*)
(* A build clones whatever the head is when its Job gets to it.            *)
(*                                                                         *)
(* Signatures are not modelled: a delivery is one the secret has signed,   *)
(* for the branch the app is built from.  What becomes of an image that is *)
(* built is module Deploy.                                                 *)
(***************************************************************************)
EXTENDS Naturals, Sequences, FiniteSetsExt

CONSTANTS
    Hooks,      \* goroutines of handleWebhookTrigger
    MaxPushes,  \* bound: pushes
    MaxBuilds,  \* bound: builds
    PushFaults  \* what may go wrong, each once: a subset of PushFaultKinds

\* handle: a delivery that is on record is answered with an error.
PushFaultKinds == {"handle", "lost", "crash"}

ASSUME PushAssumption ==
    /\ IsFiniteSet(Hooks) /\ MaxPushes \in Nat /\ MaxBuilds \in Nat
    /\ PushFaults \subseteq PushFaultKinds

VARIABLES
    head,      \* the newest commit of the branch: pushes are numbered
    recorded,  \* webhook_deliveries: the pushes whose delivery is on record
    builds,    \* deployments, oldest first, as far as they are built
    hook,      \* the goroutine of each delivery
    unbuilt,   \* history: pushes that were given up
    pushFaults \* the faults that have happened

pushVars == <<head, recorded, builds, hook, unbuilt, pushFaults>>

Commits  == 0 .. MaxPushes
BuildNos == 0 .. MaxBuilds

\* commit: what its Job has cloned, 0 before.  push, looked: history: the push that started
\* it and the newest deploy its delivery had seen, 0 without one.
BuildRow == [building : BOOLEAN, commit : Commits, push : Commits, looked : BuildNos]

\* push: whose delivery it is.  looked: the newest deploy.
HookPCs == {"idle", "look", "deploy"}
NoHook  == [pc |-> "idle", push |-> 0, looked |-> 0]

PushInit ==
    /\ head = 0 /\ recorded = {} /\ builds = <<>>
    /\ hook = [h \in Hooks |-> NoHook]
    /\ unbuilt = {} /\ pushFaults = {}

Upsets(k) == k \in PushFaults \ pushFaults /\ pushFaults' = pushFaults \cup {k}

Building(b) == b # 0 /\ builds[b].building

--------------------------------
(***************************************************************************)
(* The provider.                                                           *)
(***************************************************************************)

Pushed ==
    /\ head < MaxPushes
    /\ head' = head + 1
    /\ UNCHANGED <<recorded, builds, hook, unbuilt, pushFaults>>

DeliveryLost(k) ==
    /\ k \notin recorded /\ Upsets("lost")
    /\ unbuilt' = unbuilt \cup {k}
    /\ UNCHANGED <<head, recorded, builds, hook>>

\* Mutant: a delivery posted again is handled again.
DeliversAgain(h, k) ==
    /\ hook[h].pc = "idle"
    /\ recorded' = recorded \cup {k}
    /\ hook' = [hook EXCEPT ![h] = [NoHook EXCEPT !.pc = "look", !.push = k]]
    /\ UNCHANGED <<head, builds, unbuilt, pushFaults>>

\* webhookReplay: a delivery is put on record as it arrives; one on record is answered
\* with nothing done.
Delivers(h, k) ==
    /\ hook[h].pc = "idle" /\ k \notin recorded
    /\ recorded' = recorded \cup {k}
    /\ hook' = [hook EXCEPT ![h] = [NoHook EXCEPT !.pc = "look", !.push = k]]
    /\ UNCHANGED <<head, builds, unbuilt, pushFaults>>

--------------------------------
(***************************************************************************)
(* handleWebhookTrigger.                                                   *)
(***************************************************************************)

\* A build under way is left to build this push too.  It will if it has not cloned yet.
LooksForBuild(h) ==
    /\ hook[h].pc = "look"
    /\ LET latest == Len(builds)
           push   == hook[h].push
       IN  IF Building(latest)
           THEN /\ hook' = [hook EXCEPT ![h] = NoHook]
                /\ unbuilt' = IF builds[latest].commit \in 1 .. push - 1
                              THEN unbuilt \cup {push} ELSE unbuilt
           ELSE /\ hook' = [hook EXCEPT ![h].pc = "deploy", ![h].looked = latest]
                /\ UNCHANGED unbuilt
    /\ UNCHANGED <<head, recorded, builds, pushFaults>>

\* deployGitApp, with startBuild.
Deploys(h) ==
    /\ hook[h].pc = "deploy" /\ Len(builds) < MaxBuilds
    /\ builds' = Append(builds, [building |-> TRUE, commit |-> 0, push |-> hook[h].push,
                                looked |-> hook[h].looked])
    /\ hook' = [hook EXCEPT ![h] = NoHook]
    /\ UNCHANGED <<head, recorded, unbuilt, pushFaults>>

\* The database, Kubernetes or the app (it is ejected) refuses.  The provider may post the
\* delivery again, and is told that it is a duplicate.
HookFails(h) ==
    /\ hook[h].pc # "idle" /\ Upsets("handle")
    /\ unbuilt' = unbuilt \cup {hook[h].push}
    /\ hook' = [hook EXCEPT ![h] = NoHook]
    /\ UNCHANGED <<head, recorded, builds>>

--------------------------------
(***************************************************************************)
(* Builds.  A Job outlives the server, which comes back to it.             *)
(***************************************************************************)

\* A person deploys.
DeploysByHand ==
    /\ Len(builds) < MaxBuilds
    /\ builds' = Append(builds, [building |-> TRUE, commit |-> 0, push |-> 0, looked |-> 0])
    /\ UNCHANGED <<head, recorded, hook, unbuilt, pushFaults>>

JobClones(b) ==
    /\ Building(b) /\ builds[b].commit = 0 /\ head # 0
    /\ builds' = [builds EXCEPT ![b].commit = head]
    /\ UNCHANGED <<head, recorded, hook, unbuilt, pushFaults>>

\* It has built the commit, or could not.
BuildEnds(b) ==
    /\ Building(b) /\ builds[b].commit # 0
    /\ builds' = [builds EXCEPT ![b].building = FALSE]
    /\ UNCHANGED <<head, recorded, hook, unbuilt, pushFaults>>

PushCrash ==
    /\ Upsets("crash")
    /\ unbuilt' = unbuilt \cup {hook[h].push : h \in {g \in Hooks : hook[g].pc # "idle"}}
    /\ hook' = [h \in Hooks |-> NoHook]
    /\ UNCHANGED <<head, recorded, builds>>

PushNext ==
    \/ Pushed \/ DeploysByHand \/ PushCrash
    \/ \E h \in Hooks : \/ LooksForBuild(h) \/ Deploys(h) \/ HookFails(h)
                        \/ \E k \in 1 .. head : Delivers(h, k)
    \/ \E k \in 1 .. head : DeliveryLost(k)
    \/ \E b \in DOMAIN builds : JobClones(b) \/ BuildEnds(b)

PushSpec == PushInit /\ [][PushNext]_pushVars

--------------------------------
(***************************************************************************)
(* Properties.                                                             *)
(***************************************************************************)

\* Every variable has the shape its comment gives (webhook.go).
PushTypeOK ==
    /\ head \in Commits /\ recorded \subseteq 1 .. head /\ unbuilt \subseteq 1 .. head
    /\ Len(builds) \in BuildNos /\ \A b \in DOMAIN builds : builds[b] \in BuildRow
    /\ \A h \in Hooks : hook[h].pc \in HookPCs /\ hook[h].push \in 0 .. head
                        /\ hook[h].looked \in 0 .. Len(builds)
    /\ pushFaults \subseteq PushFaults

\* Once the server is at rest, a push whose delivery arrived is in what was built, unless
\* its delivery failed half-way or found a build that had cloned too early.
PushesReachBuilds ==
    (/\ \A h \in Hooks : hook[h].pc = "idle"
     /\ \A b \in DOMAIN builds : ~ builds[b].building) =>
        \A k \in recorded \ unbuilt : \E b \in DOMAIN builds : builds[b].commit >= k

\* Deliveries stack no builds: one they start runs beside an older one only if that one
\* came after the look for builds, or was not the newest then.
BuildsDoNotStack ==
    \A b \in DOMAIN builds : ~ (builds[b].building /\ Building(builds[b].looked))

\* However often a delivery is posted, it starts one build.
PushesBuiltOnce ==
    \A b, c \in DOMAIN builds : builds[b].push # 0 /\ builds[b].push = builds[c].push => b = c

\* What pushes start is neither too little nor too much, whatever the provider posts late,
\* twice or not at all (handleWebhookTrigger, webhookReplay).
PushesWhole == PushesReachBuilds /\ BuildsDoNotStack /\ PushesBuiltOnce

================================
