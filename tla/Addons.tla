---------------------------------- MODULE Addons ---------------------------------
(***************************************************************************)
(* The addons of a project (internal/server/addons.go, store/addons.go,    *)
(* addon/addon.go): databases that requests create, attach to an app,      *)
(* detach, upgrade and remove.  The password of an addon is minted once    *)
(* and kept in its row; its Secret, the volume that was initialised with   *)
(* it, and the environment of every app attached to it hold copies.        *)
(*                                                                         *)
(* The addons are postgres, whose volume keeps the password it was         *)
(* initialised with, and there is one app, which is not ejected, with one  *)
(* deploy, or sync for another setting, at a time.  Requests run side by   *)
(* side, each acting on the row it read first.  SQLite gives a new row the *)
(* id after the highest, which a deleted row may have had.                 *)
(***************************************************************************)
EXTENDS Naturals, FiniteSetsExt

CONSTANTS
    AddonNames,   \* names of addons
    AddonClients, \* clients, one request at a time each
    AddonKinds,   \* what they ask for: a subset of AllAddonKinds
    MaxAddonId,   \* bound: ids of addons
    MaxMinted,    \* bound: addons created
    MaxCalls,     \* bound: requests
    AddonFaults   \* what may go wrong, each once: a subset of AddonFaultKinds

\* add: create and attach.  force: remove although attached.  keep: and keep the volume.
AllAddonKinds == {"create", "add", "attach", "detach", "upgrade", "remove", "force", "keep"}
Removals      == {"remove", "force", "keep"}

\* apply, delete: calls to Kubernetes.
AddonFaultKinds == {"apply", "delete", "crash"}

ASSUME AddonAssumption ==
    /\ IsFiniteSet(AddonNames) /\ IsFiniteSet(AddonClients) /\ "" \notin AddonNames
    /\ AddonKinds \subseteq AllAddonKinds /\ AddonFaults \subseteq AddonFaultKinds
    /\ MaxAddonId \in Nat \ {0} /\ MaxMinted \in Nat /\ MaxCalls \in Nat

VARIABLES
    addon,    \* addons: the row of each id
    attached, \* addon_attachments of the app
    instance, \* in Kubernetes: the objects of each name
    urls,     \* the connection URLs in the environment of the app's Deployment
    appWork,  \* the app's latest deploy, and the goroutine of it or of another sync
    caller,   \* the goroutine of each request
    wanted,   \* history: the names last asked to be attached
    outdated, \* history: what was applied last was rendered before the last change,
              \* or the sync of that change was not done
    astray,   \* history: names that something the README lists has happened to
    tally     \* passwords minted, requests, and the faults that have happened

addonVars ==
    <<addon, attached, instance, urls, appWork, caller, wanted, outdated, astray, tally>>

AddonIds  == 1 .. MaxAddonId
Passwords == 0 .. MaxMinted

\* password: what creds_enc seals.
AddonRow == [name : AddonNames, password : Passwords]
NoAddon  == [name |-> "", password |-> 0]

\* up: StatefulSet and Service.  secret: the password in the Secret.
\* volume: the password the volume was initialised with, 0 without one.
Instance   == [up : BOOLEAN, secret : Passwords, volume : Passwords]
NoInstance == [up |-> FALSE, secret |-> 0, volume |-> 0]

\* DATABASE_URL is the key "", DATABASE_URL_<NAME> the key <NAME>.
Url == [key : AddonNames \cup {""}, name : AddonNames, password : Passwords]

\* urls: what was rendered, and not yet applied.
AppWork == [status : {"deploying", "live", "failed"}, urls : SUBSET Url,
            pc : {"idle", "render", "apply", "gate"}]

\* id, row: the addon it works on, as it was read.  urls: as in AppWork.
CallerPCs == {"idle", "insert", "apply", "attach", "detach", "version", "check",
              "objects", "volume", "row", "sync", "render", "send"}
NoCall    == [pc |-> "idle", kind |-> "", name |-> "", id |-> 0, row |-> NoAddon, urls |-> {}]

AddonInit ==
    /\ addon = [i \in AddonIds |-> NoAddon] /\ attached = {}
    /\ instance = [n \in AddonNames |-> NoInstance]
    /\ urls = {} /\ appWork = [status |-> "live", urls |-> {}, pc |-> "idle"]
    /\ caller = [c \in AddonClients |-> NoCall]
    /\ wanted = {} /\ outdated = FALSE /\ astray = {}
    /\ tally = [minted |-> 0, calls |-> 0, faults |-> {}]

--------------------------------
(***************************************************************************)
(* Rows, and what an app's environment is rendered from.                   *)
(***************************************************************************)

AddonRows   == {i \in AddonIds : addon[i] # NoAddon}
AddonsOf(n) == {i \in AddonRows : addon[i].name = n}
NextAddonId == Max(AddonRows \cup {0}) + 1

\* Mutant: every addon of a type gets the same key, and the last one wins.
InjectedUnsuffixed(atts, rows) ==
    {[key |-> "", name |-> rows[i].name, password |-> rows[i].password] :
        i \in {i \in atts : \A j \in atts : j <= i}}

\* addonEnv: the first addon of its type, in order of ids, gets the bare key.
Injected(atts, rows) ==
    {[key |-> IF \A j \in atts : i <= j THEN "" ELSE rows[i].name,
      name |-> rows[i].name, password |-> rows[i].password] : i \in atts}

\* What renderApp makes of the rows.
Current == Injected(attached, addon)

\* Requests at work on a name.
CallsOn(n) == {c \in AddonClients : caller[c].pc # "idle" /\ caller[c].name = n}

Slips(k) == k \in AddonFaults \ tally.faults /\ tally' = [tally EXCEPT !.faults = @ \cup {k}]

CallAt(c, pc) == caller' = [caller EXCEPT ![c].pc = pc]
Answered(c)   == caller' = [caller EXCEPT ![c] = NoCall]

\* A request reads the row of its addon (requireAddon).  Of two requests on a name at
\* once, of which one removes it, nothing is said afterwards.
Calls(c, kind, n, i, pc) ==
    /\ caller[c].pc = "idle" /\ kind \in AddonKinds
    /\ tally.calls < MaxCalls /\ tally' = [tally EXCEPT !.calls = @ + 1]
    /\ caller' = [caller EXCEPT ![c] = [pc |-> pc, kind |-> kind, name |-> n, id |-> i, urls |-> {},
                                        row |-> IF i = 0 THEN NoAddon ELSE addon[i]]]
    /\ astray' = IF \E d \in CallsOn(n) : {kind, caller[d].kind} \cap Removals # {}
                 THEN astray \cup {n} ELSE astray
    /\ UNCHANGED <<addon, attached, instance, urls, appWork, wanted, outdated>>

--------------------------------
(***************************************************************************)
(* createAddon.                                                            *)
(***************************************************************************)

AddonAsked(c) ==
    \E n \in AddonNames, kind \in {"create", "add"} : Calls(c, kind, n, 0, "insert")

\* newAddonCreds, CreateAddon, SetAddonEnvironmentID.  A name is unique.
InsertsAddon(c) ==
    /\ caller[c].pc = "insert"
    /\ LET n == caller[c].name
           i == NextAddonId
           row == [name |-> n, password |-> tally.minted + 1]
       IN  \/ /\ AddonsOf(n) # {}
              /\ Answered(c) /\ UNCHANGED <<addon, tally>>
           \/ /\ AddonsOf(n) = {} /\ i \in AddonIds /\ tally.minted < MaxMinted
              /\ addon' = [addon EXCEPT ![i] = row]
              /\ tally' = [tally EXCEPT !.minted = @ + 1]
              /\ caller' = [caller EXCEPT ![c].pc = "apply", ![c].id = i, ![c].row = row]
    /\ UNCHANGED <<attached, instance, urls, appWork, wanted, outdated, astray>>

\* addon.Render, Apply: a volume that is there is mounted as it is.
AppliedInstance(n, password) ==
    [instance EXCEPT ![n] = [up |-> TRUE, secret |-> password,
                             volume |-> IF @.volume = 0 THEN password ELSE @.volume]]

AppliesAddon(c) ==
    /\ caller[c].pc = "apply"
    /\ instance' = AppliedInstance(caller[c].name, caller[c].row.password)
    /\ IF caller[c].kind = "add" THEN CallAt(c, "attach") ELSE Answered(c)
    /\ UNCHANGED <<addon, attached, urls, appWork, wanted, outdated, astray, tally>>

\* The row stays, whatever of its objects was applied.
AppliesAddonFails(c) ==
    /\ caller[c].pc = "apply" /\ Slips("apply")
    /\ Answered(c)
    /\ astray' = astray \cup {caller[c].name}
    /\ UNCHANGED <<addon, attached, instance, urls, appWork, wanted, outdated>>

--------------------------------
(***************************************************************************)
(* attachAddon, handleDetachAddon.                                         *)
(***************************************************************************)

AttachAsked(c) ==
    \E i \in AddonRows : Calls(c, "attach", addon[i].name, i, "attach")

\* AttachAddon: the pair is unique and the addon must exist, by id.
Attaches(c) ==
    /\ caller[c].pc = "attach"
    /\ LET i == caller[c].id
       IN  IF i \in AddonRows \ attached
           THEN /\ attached' = attached \cup {i}
                /\ CallAt(c, "sync")
                /\ wanted' = wanted \cup {caller[c].name}
                /\ astray' = IF addon[i].name # caller[c].name
                             THEN astray \cup {addon[i].name, caller[c].name} ELSE astray
           ELSE Answered(c) /\ UNCHANGED <<attached, wanted, astray>>
    /\ UNCHANGED <<addon, instance, urls, appWork, outdated, tally>>

DetachAsked(c) ==
    \E i \in AddonRows : Calls(c, "detach", addon[i].name, i, "detach")

Detaches(c) ==
    /\ caller[c].pc = "detach"
    /\ LET i == caller[c].id
       IN  IF i \in attached
           THEN /\ attached' = attached \ {i}
                /\ CallAt(c, "sync")
                /\ wanted' = wanted \ {caller[c].name}
                /\ astray' = IF addon[i].name # caller[c].name
                             THEN astray \cup {addon[i].name, caller[c].name} ELSE astray
           ELSE Answered(c) /\ UNCHANGED <<attached, wanted, astray>>
    /\ UNCHANGED <<addon, instance, urls, appWork, outdated, tally>>

\* syncIfLive: nothing is done when the latest deploy is not live.
SyncsIfLive(c) ==
    /\ caller[c].pc = "sync"
    /\ IF appWork.status = "live"
       THEN CallAt(c, "render") /\ UNCHANGED outdated
       ELSE Answered(c) /\ outdated' = TRUE
    /\ UNCHANGED <<addon, attached, instance, urls, appWork, wanted, astray, tally>>

RendersUrls(c) ==
    /\ caller[c].pc = "render"
    /\ caller' = [caller EXCEPT ![c].pc = "send", ![c].urls = Current]
    /\ UNCHANGED <<addon, attached, instance, urls, appWork, wanted, outdated, astray, tally>>

\* Apply replaces what was applied before, whichever was rendered first.
AppliesUrls(rendered) == urls' = rendered /\ outdated' = (rendered # Current)

SendsUrls(c) ==
    /\ caller[c].pc = "send"
    /\ AppliesUrls(caller[c].urls)
    /\ Answered(c)
    /\ UNCHANGED <<addon, attached, instance, appWork, wanted, astray, tally>>

\* A sync that fails is logged.
SendFails(c) ==
    /\ caller[c].pc = "send" /\ Slips("apply")
    /\ Answered(c) /\ outdated' = TRUE
    /\ UNCHANGED <<addon, attached, instance, urls, appWork, wanted, astray>>

--------------------------------
(***************************************************************************)
(* The app's deploys (applyAndGate), and its syncs for other settings.     *)
(***************************************************************************)

\* A deploy; or, while the latest one is live, a sync.
AppWorkStarts(status) ==
    /\ appWork.pc = "idle" /\ (status = "live" => appWork.status = "live")
    /\ tally.calls < MaxCalls /\ tally' = [tally EXCEPT !.calls = @ + 1]
    /\ appWork' = [appWork EXCEPT !.pc = "render", !.status = status]
    /\ UNCHANGED <<addon, attached, instance, urls, caller, wanted, outdated, astray>>

AppRenders ==
    /\ appWork.pc = "render"
    /\ appWork' = [appWork EXCEPT !.pc = "apply", !.urls = Current]
    /\ UNCHANGED <<addon, attached, instance, urls, caller, wanted, outdated, astray, tally>>

AppApplies ==
    /\ appWork.pc = "apply"
    /\ AppliesUrls(appWork.urls)
    /\ appWork' = [appWork EXCEPT !.urls = {},
                       !.pc = IF appWork.status = "deploying" THEN "gate" ELSE "idle"]
    /\ UNCHANGED <<addon, attached, instance, caller, wanted, astray, tally>>

AppApplyFails ==
    /\ appWork.pc = "apply" /\ Slips("apply")
    /\ appWork' = [appWork EXCEPT !.urls = {}, !.pc = "idle",
                       !.status = IF appWork.status = "deploying" THEN "failed" ELSE @]
    /\ UNCHANGED <<addon, attached, instance, urls, caller, wanted, outdated, astray>>

AppDeployEnds ==
    /\ appWork.pc = "gate"
    /\ \E status \in {"live", "failed"} :
          appWork' = [appWork EXCEPT !.pc = "idle", !.status = status]
    /\ UNCHANGED <<addon, attached, instance, urls, caller, wanted, outdated, astray, tally>>

AppWorks ==
    \/ AppWorkStarts("deploying") \/ AppWorkStarts("live")
    \/ AppRenders \/ AppApplies \/ AppApplyFails \/ AppDeployEnds

--------------------------------
(***************************************************************************)
(* upgradeAddon: the new version on the old volume with the old password.  *)
(***************************************************************************)

UpgradeAsked(c) ==
    \E i \in AddonRows : Calls(c, "upgrade", addon[i].name, i, "version")

\* SetAddonVersion: the row must exist, by id.
SetsVersion(c) ==
    /\ caller[c].pc = "version"
    /\ IF caller[c].id \in AddonRows THEN CallAt(c, "apply") ELSE Answered(c)
    /\ UNCHANGED <<addon, attached, instance, urls, appWork, wanted, outdated, astray, tally>>

--------------------------------
(***************************************************************************)
(* removeAddon, DeleteAddonObjects.                                        *)
(***************************************************************************)

RemoveAsked(c) ==
    \E i \in AddonRows, kind \in Removals : Calls(c, kind, addon[i].name, i, "check")

\* AppsForAddon: an attached addon is removed by force only, and its apps keep
\* the URL until they are next synced.
ChecksAttached(c) ==
    /\ caller[c].pc = "check"
    /\ LET i == caller[c].id
       IN  IF i \in attached /\ caller[c].kind = "remove"
           THEN Answered(c) /\ UNCHANGED astray
           ELSE /\ CallAt(c, "objects")
                /\ astray' = IF i \in attached THEN astray \cup {caller[c].name} ELSE astray
    /\ UNCHANGED <<addon, attached, instance, urls, appWork, wanted, outdated, tally>>

DeletesObjects(c) ==
    /\ caller[c].pc = "objects"
    /\ instance' = [instance EXCEPT ![caller[c].name].up = FALSE, ![caller[c].name].secret = 0]
    /\ CallAt(c, IF caller[c].kind = "keep" THEN "row" ELSE "volume")
    /\ UNCHANGED <<addon, attached, urls, appWork, wanted, outdated, astray, tally>>

DeletesVolume(c) ==
    /\ caller[c].pc = "volume"
    /\ instance' = [instance EXCEPT ![caller[c].name].volume = 0]
    /\ CallAt(c, "row")
    /\ UNCHANGED <<addon, attached, urls, appWork, wanted, outdated, astray, tally>>

\* The row and what is left of the objects stay; another removal takes them.
DeletesObjectsFails(c) ==
    /\ caller[c].pc \in {"objects", "volume"} /\ Slips("delete")
    /\ Answered(c)
    /\ astray' = astray \cup {caller[c].name}
    /\ UNCHANGED <<addon, attached, instance, urls, appWork, wanted, outdated>>

\* Mutant: the attachments of an addon that is gone stay.
NotCascaded(i) == attached

\* Attachments go with the row.
Cascaded(i) == attached \ {i}

\* DeleteAddon, by id.  A volume that was kept will be mounted by the next addon of its
\* name, whose password is another.
DeletesAddonRow(c) ==
    /\ caller[c].pc = "row"
    /\ LET i == caller[c].id
           named == IF addon[i] = NoAddon THEN {} ELSE {addon[i].name}
       IN  /\ addon' = [addon EXCEPT ![i] = NoAddon]
           /\ attached' = Cascaded(i)
           /\ wanted' = wanted \ {caller[c].name}
           /\ astray' = astray \cup (named \ {caller[c].name})
                               \cup (IF caller[c].kind = "keep" THEN {caller[c].name} ELSE {})
    /\ Answered(c)
    /\ UNCHANGED <<instance, urls, appWork, outdated, tally>>

--------------------------------

\* A deploy goes on after the restart: it is rendered anew (reconcileUnfinished).
AddonCrash ==
    /\ (\E c \in AddonClients : caller[c].pc # "idle") \/ appWork.pc # "idle"
    /\ Slips("crash")
    /\ caller' = [c \in AddonClients |-> NoCall]
    /\ appWork' = [appWork EXCEPT !.urls = {},
                       !.pc = IF appWork.status = "deploying" THEN "render" ELSE "idle"]
    /\ astray' = astray \cup {caller[c].name : c \in {c \in AddonClients : caller[c].pc # "idle"}}
    /\ UNCHANGED <<addon, attached, instance, urls, wanted, outdated>>

CallerStep(c) ==
    \/ AddonAsked(c) \/ InsertsAddon(c) \/ AppliesAddon(c) \/ AppliesAddonFails(c)
    \/ AttachAsked(c) \/ Attaches(c) \/ DetachAsked(c) \/ Detaches(c)
    \/ SyncsIfLive(c) \/ RendersUrls(c) \/ SendsUrls(c) \/ SendFails(c)
    \/ UpgradeAsked(c) \/ SetsVersion(c)
    \/ RemoveAsked(c) \/ ChecksAttached(c) \/ DeletesObjects(c) \/ DeletesVolume(c)
    \/ DeletesObjectsFails(c) \/ DeletesAddonRow(c)

AddonNext == (\E c \in AddonClients : CallerStep(c)) \/ AppWorks \/ AddonCrash

AddonSpec == AddonInit /\ [][AddonNext]_addonVars

--------------------------------
(***************************************************************************)
(* What makes the addons right.                                            *)
(***************************************************************************)

\* Every variable has the shape its comment gives (addons.go, store/addons.go).
AddonTypeOK ==
    /\ addon \in [AddonIds -> AddonRow \cup {NoAddon}] /\ attached \subseteq AddonRows
    /\ instance \in [AddonNames -> Instance] /\ urls \subseteq Url
    /\ \A c \in AddonClients : caller[c].pc \in CallerPCs /\ caller[c].id \in 0 .. MaxAddonId
    /\ wanted \subseteq AddonNames /\ astray \subseteq AddonNames /\ outdated \in BOOLEAN
    /\ appWork \in AppWork /\ \A c \in AddonClients : caller[c].urls \subseteq Url
    /\ tally.minted \in 0 .. MaxMinted /\ tally.calls \in 0 .. MaxCalls

\* An addon nobody is at work on: its row, Secret and volume have one password, it is
\* attached if that was asked last, and a name without a row has nothing.
AddonWhole(n) ==
    \/ AddonsOf(n) = {} /\ n \notin wanted /\ instance[n] = NoInstance
    \/ \E i \in AddonsOf(n) :
          /\ instance[n] = [up |-> TRUE, secret |-> addon[i].password,
                            volume |-> addon[i].password]
          /\ n \in wanted <=> i \in attached

\* An app it is attached to has exactly one URL of it, with its password and under a
\* key of its own; no other app has any.
UrlsWhole(n) ==
    LET mine == {u \in urls : u.name = n}
    IN  /\ n \in wanted <=> mine # {}
        /\ \A u \in mine : /\ \E i \in AddonsOf(n) : u.password = addon[i].password
                           /\ \A v \in urls \ {u} : v.key # u.key

\* No change of the attachments waits for its sync, and the last apply did not undo one.
Synced == ~ outdated /\ \A c \in AddonClients : caller[c].pc \notin {"sync", "render", "send"}

\* Requests on other addons, other requests on this one and deploys in between leave
\* an addon whole.  What does not: a removal at the same time as another request, by
\* force, of the addon but not of its volume, a failed call, a crash.  The app has its
\* URLs too, but where the app's latest deploy was not live when the addon was attached
\* or detached, or that sync failed, or an apply came last whose render came before
\* another change; that lasts until the next sync or deploy (createAddon, attachAddon,
\* removeAddon, upgradeAddon, syncIfLive).
AddonsWhole ==
    \A n \in AddonNames \ astray :
        CallsOn(n) = {} => AddonWhole(n) /\ (Synced => UrlsWhole(n))

================================
