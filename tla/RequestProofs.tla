------------------------------ MODULE RequestProofs ------------------------------
(***************************************************************************)
(* Requests and deliveries, and what they leave to goroutines: proofs      *)
(* about modules Apps, Addons, Settings, Pushes and Images, for every      *)
(* value of their constants.                                               *)
(***************************************************************************)
EXTENDS Apps, Addons, Settings, Pushes, Images, TableLemmas, FiniteSetTheorems

--------------------------------
\* Apps: the life of the apps of an environment.

\* What a request in flight holds.
DeskShape ==
    [pc : DeskPCs, act : AllAppActs \cup {""}, id : 0 .. MaxAppId,
     copy : AppRow \cup {NoApp}, image : ReleaseNos]

AppShape ==
    /\ appRow \in [AppIdRange -> AppRow \cup {NoApp}]
    /\ releases \in Seq(Release) /\ Len(releases) <= MaxReleases
    /\ objects \in [AppNames -> ReleaseNos] /\ handed \in [AppNames -> ReleaseNos]
    /\ desk \in [AppClients -> DeskShape]
    /\ strayed \subseteq AppNames
    /\ appTally \in [calls : 0 .. MaxAppCalls, faults : SUBSET AppFaults]

\* The app of an id is luncur's and has the name, or the name has strayed.
OwnsName(i, n) == n \in strayed \/ (i \in Managed /\ appRow[i].name = n)

\* What a deploy's goroutine, or the restart that resumes it, relies on.
ReleaseOK(r) ==
    /\ r.row => /\ r.app \in AppRows
                /\ r.status = "building" <=> r.pc = "build"
                /\ r.status = "deploying" <=> r.pc \in {"apply", "gate"}
                /\ r.pc \in {"build", "apply", "gate"} => OwnsName(r.app, r.name)
    /\ ~ r.row /\ r.pc = "apply" => r.name \in strayed
    /\ r.pc = "restore" /\ r.app \in AppRows => OwnsName(r.app, appRow[r.app].name)

\* What a request relies on.
DeskOK(k) ==
    /\ k.pc # "idle" => k.id \in AppIdRange /\ k.copy \in AppRow
    /\ k.pc = "insert" => k.act \in {"image", "source", "page", "pipeline"}
    /\ k.pc \in {"sync", "resync"} /\ k.id \in AppRows => OwnsName(k.id, appRow[k.id].name)
    /\ k.pc = "resync" => OwnsName(k.id, k.copy.name)
    /\ k.pc = "row" /\ ~ k.copy.ejected =>
           objects[k.copy.name] = 0 \/ k.copy.name \in strayed

ReleasesOK == \A d \in DOMAIN releases : ReleaseOK(releases[d])
DesksOK    == \A c \in AppClients : DeskOK(desk[c])

\* The inductive invariant: a deploy or a request that will put objects back acts on an
\* app that luncur manages, or on a name that has strayed.
AppInv == AppShape /\ ReleasesOK /\ DesksOK /\ AppsLeftAlone

--------------------------------
\* What holds on in a step that leaves the apps' rows alone.

\* The bounds are numbers.
LEMMA Bounds ==
    /\ MaxAppId \in Nat /\ MaxAppId # 0 /\ MaxReleases \in Nat /\ MaxAppCalls \in Nat
BY AppAssumption

\* A row that is there is an app's.
LEMMA RowsAreApps ==
    ASSUME AppShape
    PROVE  /\ \A i \in AppRows : appRow[i] \in AppRow
           /\ Managed \subseteq AppRows /\ AppRows \subseteq AppIdRange
           /\ \A i \in AppIdRange \ AppRows : appRow[i] = NoApp
BY DEF AppShape, AppRows, Managed

\* What a deploy relies on, it relies on still.
LEMMA ReleaseStays ==
    ASSUME appRow' = appRow, strayed \subseteq strayed', NEW r, ReleaseOK(r)
    PROVE  ReleaseOK(r)'
BY DEF ReleaseOK, OwnsName, Managed, AppRows

\* What a request relies on, it relies on still, unless the objects it deleted come back.
LEMMA DeskStays ==
    ASSUME appRow' = appRow, strayed \subseteq strayed', NEW k, DeskOK(k),
           k.pc = "row" /\ ~ k.copy.ejected =>
               \/ objects'[k.copy.name] \in {objects[k.copy.name], 0}
               \/ k.copy.name \in strayed'
    PROVE  DeskOK(k)'
BY DEF DeskOK, OwnsName, Managed, AppRows

\* Names without an app of luncur's stay as they are if their objects do.
LEMMA AloneStays ==
    ASSUME AppsLeftAlone, appRow' = appRow, strayed \subseteq strayed', handed' = handed,
           \A n \in AppNames \ strayed' :
               objects'[n] # objects[n] => RowsOf(n) \cap Managed # {}
    PROVE  AppsLeftAlone'
BY DEF AppsLeftAlone, RowsOf, Managed, AppRows

\* The app a name holds on to is one of its rows.
LEMMA HoldsMeans ==
    ASSUME NEW i, NEW n, OwnsName(i, n), n \notin strayed
    PROVE  RowsOf(n) \cap Managed # {}
BY DEF OwnsName, RowsOf, Managed

\* LatestOf is a deploy of the app, or 0.
LEMMA LatestIsOne ==
    ASSUME AppShape, NEW i
    PROVE  LatestOf(i) \in OfApp(i) \cup {0} /\ LatestOf(i) \in Nat
<1> DEFINE S == OfApp(i) \cup {0}
<1>1. Len(releases) \in Nat /\ DOMAIN releases = 1 .. Len(releases)
  BY LenProperties DEF AppShape
<1>2. S \in SUBSET Nat /\ S # {} /\ \A m \in S : m <= Len(releases)
  BY <1>1 DEF OfApp
<1>3. Max(S) \in S
  <2> HIDE DEF S
  <2> QED
    BY <1>1, <1>2, MaxPicks
<1> QED
  BY <1>2, <1>3 DEF LatestOf

\* So is the deploy that a rollback goes back to.
LEMMA TargetIsOne ==
    ASSUME AppShape, NEW i
    PROVE  TargetOf(i) \in OfApp(i) \cup {0} /\ TargetOf(i) \in Nat
<1> DEFINE S == {d \in OfApp(i) \ {LatestOf(i)} : releases[d].status = "live"} \cup {0}
<1>1. Len(releases) \in Nat /\ DOMAIN releases = 1 .. Len(releases)
  BY LenProperties DEF AppShape
<1>2. S \in SUBSET Nat /\ S # {} /\ S \subseteq OfApp(i) \cup {0}
      /\ \A m \in S : m <= Len(releases)
  BY <1>1 DEF OfApp
<1>3. Max(S) \in S
  <2> HIDE DEF S
  <2> QED
    BY <1>1, <1>2, MaxPicks
<1> QED
  BY <1>2, <1>3 DEF TargetOf

LEMMA AppsInitially == AppInit => AppInv
<1> SUFFICES ASSUME AppInit  PROVE AppInv
  OBVIOUS
<1>1. AppRows = {}
  BY DEF AppInit, AppRows
<1>2. AppShape
  <2>1. NoDesk \in DeskShape
    BY Bounds DEF NoDesk, DeskShape, DeskPCs, NoApp, ReleaseNos
  <2>2. Len(releases) = 0 /\ releases \in Seq(Release) /\ Len(releases) <= MaxReleases
    BY Bounds DEF AppInit
  <2>3. appTally \in [calls : 0 .. MaxAppCalls, faults : SUBSET AppFaults]
    BY Bounds DEF AppInit
  <2>4. 0 \in ReleaseNos
    BY Bounds DEF ReleaseNos
  <2> QED
    BY <2>1, <2>2, <2>3, <2>4 DEF AppInit, AppShape
<1>3. ReleasesOK
  BY DEF AppInit, ReleasesOK
<1>4. DesksOK
  BY DEF AppInit, DesksOK, DeskOK, NoDesk
<1>5. AppsLeftAlone
  BY DEF AppInit, AppsLeftAlone
<1> QED
  BY <1>2, <1>3, <1>4, <1>5 DEF AppInv

--------------------------------
\* Deploys: what a step of one does to the table.

\* A step changes one deploy and nothing else.
LEMMA OneReleaseMoves ==
    ASSUME AppInv, NEW d \in DOMAIN releases, NEW r \in Release,
           releases' = [releases EXCEPT ![d] = r], ReleaseOK(r)',
           UNCHANGED <<appRow, objects, desk, handed, strayed>>,
           appTally' \in [calls : 0 .. MaxAppCalls, faults : SUBSET AppFaults]
    PROVE  AppInv'
<1>1. /\ releases' \in Seq(Release) /\ Len(releases') = Len(releases)
      /\ DOMAIN releases' = DOMAIN releases /\ releases'[d] = r
      /\ \A e \in DOMAIN releases : e # d => releases'[e] = releases[e]
  BY PutRow DEF AppInv, AppShape
<1>2. AppShape'
  BY <1>1 DEF AppInv, AppShape
<1>3. ReleasesOK'
  BY <1>1, ReleaseStays DEF AppInv, ReleasesOK
<1>4. DesksOK'
  BY DeskStays DEF AppInv, DesksOK
<1>5. AppsLeftAlone'
  BY AloneStays DEF AppInv
<1> QED
  BY <1>2, <1>3, <1>4, <1>5 DEF AppInv

\* A fault is noted.
LEMMA FaultNoted ==
    ASSUME AppInv, NEW f, Strikes(f)
    PROVE  appTally' \in [calls : 0 .. MaxAppCalls, faults : SUBSET AppFaults]
BY DEF AppInv, AppShape, Strikes

\* A row's status and its goroutine's place, both written.
LEMMA StatusWritten ==
    ASSUME AppInv, NEW d \in DOMAIN releases, NEW pc \in {"none", "rollback"},
           NEW status \in {"live", "failed"}, WithStatus(d, status, pc),
           UNCHANGED <<appRow, objects, desk, handed, strayed>>,
           appTally' \in [calls : 0 .. MaxAppCalls, faults : SUBSET AppFaults]
    PROVE  AppInv'
<1>1. releases[d] \in Release /\ ReleaseOK(releases[d])
  BY DEF AppInv, AppShape, ReleasesOK
<1>2. PICK r \in Release :
          r = [releases[d] EXCEPT !.status = IF releases[d].row THEN status ELSE @, !.pc = pc]
  BY <1>1 DEF Release, ReleasePCs
<1>3. releases' = [releases EXCEPT ![d] = r]
  BY <1>2 DEF WithStatus
<1>4. ReleaseOK(r)
  BY <1>1, <1>2 DEF ReleaseOK, Release
<1>5. ReleaseOK(r)'
  BY <1>4, ReleaseStays
<1> QED
  BY <1>3, <1>5, OneReleaseMoves

LEMMA BuildFailsPreserves ==
    ASSUME AppInv, NEW d \in DOMAIN releases, AppBuildFails(d)  PROVE AppInv'
BY FaultNoted, StatusWritten DEF AppBuildFails

LEMMA GatePreserves ==
    ASSUME AppInv, NEW d \in DOMAIN releases, GateGivesUp(d) \/ GateOpens(d) \/ GateFails(d)
    PROVE  AppInv'
<1>1. appTally \in [calls : 0 .. MaxAppCalls, faults : SUBSET AppFaults]
  BY DEF AppInv, AppShape
<1>2. CASE GateGivesUp(d) \/ GateOpens(d)
  BY <1>1, <1>2, StatusWritten DEF GateGivesUp, GateOpens
<1>3. CASE GateFails(d)
  <2>1. (IF releases[d].back THEN "none" ELSE "rollback") \in {"none", "rollback"}
    OBVIOUS
  <2> QED
    BY <1>3, <2>1, FaultNoted, StatusWritten DEF GateFails
<1> QED
  BY <1>2, <1>3

\* A build that ends finds its row, or is over.
LEMMA BuildSucceedsPreserves ==
    ASSUME AppInv, NEW d \in DOMAIN releases, AppBuildSucceeds(d)  PROVE AppInv'
<1>1. releases[d] \in Release /\ ReleaseOK(releases[d]) /\ releases[d].pc = "build"
  BY DEF AppInv, AppShape, ReleasesOK, AppBuildSucceeds
<1>2. d \in ReleaseNos
  <2>1. Len(releases) \in Nat /\ DOMAIN releases = 1 .. Len(releases)
        /\ Len(releases) <= MaxReleases
    BY LenProperties DEF AppInv, AppShape
  <2> QED
    BY <2>1, Bounds DEF ReleaseNos
<1>3. PICK r \in Release :
          r = IF releases[d].row
              THEN [releases[d] EXCEPT !.image = d, !.status = "deploying", !.pc = "apply"]
              ELSE [releases[d] EXCEPT !.pc = "none"]
  BY <1>1, <1>2 DEF Release, ReleasePCs
<1>4. releases' = [releases EXCEPT ![d] = r]
  BY <1>3 DEF AppBuildSucceeds
<1>5. ReleaseOK(r)
  BY <1>1, <1>3 DEF ReleaseOK, Release
<1>6. UNCHANGED <<appRow, objects, desk, handed, strayed, appTally>>
  BY DEF AppBuildSucceeds
<1>7. appTally \in [calls : 0 .. MaxAppCalls, faults : SUBSET AppFaults]
  BY DEF AppInv, AppShape
<1>8. ReleaseOK(r)'
  BY <1>5, <1>6, ReleaseStays
<1> QED
  BY <1>4, <1>6, <1>7, <1>8, OneReleaseMoves

\* Objects come back under a name that luncur holds, or that has strayed.
LEMMA ImagePut ==
    ASSUME AppInv, NEW n \in AppNames, NEW image \in ReleaseNos, PutsImage(n, image),
           n \in strayed \/ RowsOf(n) \cap Managed # {}, UNCHANGED <<appRow, handed>>
    PROVE  /\ objects' \in [AppNames -> ReleaseNos]
           /\ strayed \subseteq strayed' /\ strayed' \subseteq AppNames
           /\ \A c \in AppClients : \A k : k = desk[c] => DeskOK(k)'
           /\ AppsLeftAlone'
<1>1. /\ objects' = [objects EXCEPT ![n] = image]
      /\ strayed' = strayed \cup (IF HalfDestroyed(n) THEN {n} ELSE {})
  BY DEF PutsImage, Strays
<1>2. objects \in [AppNames -> ReleaseNos] /\ strayed \subseteq AppNames
  BY DEF AppInv, AppShape
<1>3. objects' \in [AppNames -> ReleaseNos]
  BY <1>1, <1>2
<1>4. strayed \subseteq strayed' /\ strayed' \subseteq AppNames
  BY <1>1, <1>2
<1>5. ASSUME NEW c \in AppClients, NEW k, k = desk[c]  PROVE DeskOK(k)'
  <2>1. DeskOK(k)
    BY <1>5 DEF AppInv, DesksOK
  <2>2. ASSUME k.pc = "row", ~ k.copy.ejected
        PROVE  objects'[k.copy.name] = objects[k.copy.name] \/ k.copy.name \in strayed'
    <3>1. k.copy.name \in AppNames
      BY <2>1, <2>2 DEF DeskOK, AppRow
    <3>2. CASE k.copy.name = n
      BY <1>1, <1>5, <2>2, <3>2 DEF HalfDestroyed
    <3>3. CASE k.copy.name # n
      BY <1>1, <1>2, <3>1, <3>3
    <3> QED
      BY <3>2, <3>3
  <2> QED
    BY <1>4, <2>1, <2>2, DeskStays
<1>6. AppsLeftAlone'
  <2>1. \A m \in AppNames \ strayed' :
            objects'[m] # objects[m] => RowsOf(m) \cap Managed # {}
    BY <1>1, <1>2
  <2> QED
    BY <1>4, <2>1, AloneStays DEF AppInv
<1> QED
  BY <1>3, <1>4, <1>5, <1>6

LEMMA AppliesPreserves ==
    ASSUME AppInv, NEW d \in DOMAIN releases, AppliesRelease(d)  PROVE AppInv'
<1>1. releases[d] \in Release /\ ReleaseOK(releases[d]) /\ releases[d].pc = "apply"
  BY DEF AppInv, AppShape, ReleasesOK, AppliesRelease
<1>2. releases[d].name \in AppNames /\ releases[d].image \in ReleaseNos
  BY <1>1 DEF Release
<1>3. \/ releases[d].name \in strayed
      \/ RowsOf(releases[d].name) \cap Managed # {}
  BY <1>1, HoldsMeans DEF ReleaseOK
<1>4. /\ objects' \in [AppNames -> ReleaseNos]
      /\ strayed \subseteq strayed' /\ strayed' \subseteq AppNames
      /\ \A c \in AppClients : \A k : k = desk[c] => DeskOK(k)'
      /\ AppsLeftAlone'
  BY <1>2, <1>3, ImagePut DEF AppliesRelease
<1>5. PICK r \in Release : r = [releases[d] EXCEPT !.pc = "gate"]
  BY <1>1 DEF Release, ReleasePCs
<1>6. /\ releases' \in Seq(Release) /\ Len(releases') = Len(releases)
      /\ DOMAIN releases' = DOMAIN releases /\ releases'[d] = r
      /\ \A e \in DOMAIN releases : e # d => releases'[e] = releases[e]
  <2>1. releases' = [releases EXCEPT ![d] = r]
    BY <1>5 DEF AppliesRelease
  <2> QED
    BY <2>1, PutRow DEF AppInv, AppShape
<1>7. ReleaseOK(r)'
  <2>1. ReleaseOK(r)
    BY <1>1, <1>5 DEF ReleaseOK, Release
  <2> QED
    BY <1>4, <2>1, ReleaseStays DEF AppliesRelease
<1>8. ReleasesOK'
  BY <1>4, <1>6, <1>7, ReleaseStays DEF AppInv, ReleasesOK, AppliesRelease
<1>9. AppShape'
  BY <1>4, <1>6 DEF AppInv, AppShape, AppliesRelease
<1>10. DesksOK'
  BY <1>4 DEF DesksOK, AppliesRelease
<1> QED
  BY <1>4, <1>8, <1>9, <1>10 DEF AppInv

\* A rollback is of the row as it is now.
LEMMA FindsPreserves ==
    ASSUME AppInv, NEW d \in DOMAIN releases, FindsTarget(d)  PROVE AppInv'
<1> DEFINE i == releases[d].app
           t == TargetOf(i)
<1>1. releases[d] \in Release /\ ReleaseOK(releases[d]) /\ releases[d].pc = "rollback"
  BY DEF AppInv, AppShape, ReleasesOK, FindsTarget
<1>2. UNCHANGED <<appRow, objects, desk, handed, strayed, appTally>>
  BY DEF FindsTarget
<1>3. appTally \in [calls : 0 .. MaxAppCalls, faults : SUBSET AppFaults]
  BY DEF AppInv, AppShape
<1>4. CASE i \in Managed /\ t # 0
  <2>1. t \in DOMAIN releases /\ releases[t].image \in ReleaseNos
    <3>1. t \in OfApp(i)
      BY <1>4, TargetIsOne DEF AppInv
    <3> HIDE DEF t
    <3> QED
      <4>1. t \in DOMAIN releases /\ releases \in Seq(Release)
        BY <3>1 DEF OfApp, AppInv, AppShape
      <4>2. releases[t] \in Release
        BY <4>1
      <4> QED
        BY <4>1, <4>2 DEF Release
  <2>2. i \in AppRows /\ appRow[i].name \in AppNames
    BY <1>4, RowsAreApps DEF AppInv, AppRow
  <2>3. PICK r \in Release :
            r = [releases[d] EXCEPT !.pc = "restore", !.to = releases[t].image,
                                    !.name = appRow[i].name]
    BY <1>1, <2>1, <2>2 DEF Release, ReleasePCs
  <2>4. releases' = [releases EXCEPT ![d] = r]
    BY <1>4, <2>3 DEF FindsTarget
  <2>5. ReleaseOK(r)
    BY <1>1, <1>4, <2>2, <2>3 DEF ReleaseOK, Release, OwnsName
  <2>6. ReleaseOK(r)'
    BY <1>2, <2>5, ReleaseStays
  <2> QED
    BY <1>2, <1>3, <2>4, <2>6, OneReleaseMoves
<1>5. CASE ~ (i \in Managed /\ t # 0)
  <2>1. PICK r \in Release : r = [releases[d] EXCEPT !.pc = "none"]
    BY <1>1 DEF Release, ReleasePCs
  <2>2. releases' = [releases EXCEPT ![d] = r]
    BY <1>5, <2>1 DEF FindsTarget
  <2>3. ReleaseOK(r)
    BY <1>1, <2>1 DEF ReleaseOK, Release
  <2>4. ReleaseOK(r)'
    BY <1>2, <2>3, ReleaseStays
  <2> QED
    BY <1>2, <1>3, <2>2, <2>4, OneReleaseMoves
<1> QED
  BY <1>4, <1>5

\* A deploy is added, and its name strays if it is not the name of an app of luncur's.
LEMMA ReleaseAdded ==
    ASSUME AppInv, NEW s \in Seq(Release), Len(s) = Len(releases), Len(s) < MaxReleases,
           \A e \in DOMAIN s : ReleaseOK(s[e]), NEW r \in Release,
           releases' = Append(s, r), ReleaseOK(r)', appRow' = appRow,
           strayed \subseteq strayed', strayed' \subseteq AppNames,
           UNCHANGED <<objects, handed, appTally>>,
           desk' \in [AppClients -> DeskShape],
           \A c \in AppClients : desk'[c] \in {desk[c], NoDesk}
    PROVE  AppInv'
<1>1. /\ releases' \in Seq(Release) /\ Len(releases') = Len(s) + 1
      /\ DOMAIN releases' = DOMAIN s \cup {Len(s) + 1}
      /\ releases'[Len(s) + 1] = r
      /\ \A e \in DOMAIN s : releases'[e] = s[e]
  BY AddRow
<1>2. Len(s) \in Nat
  BY LenProperties
<1>3. DeskOK(NoDesk)'
  BY DEF NoDesk, DeskOK
<1>4. AppShape'
  <2>1. Len(s) + 1 <= MaxReleases
    BY <1>2, Bounds
  <2> QED
    BY <1>1, <2>1 DEF AppInv, AppShape
<1>5. ReleasesOK'
  BY <1>1, ReleaseStays DEF ReleasesOK
<1>6. DesksOK'
  <2>1. ASSUME NEW e \in AppClients, NEW k, k = desk[e]  PROVE DeskOK(k)'
    BY <2>1, DeskStays DEF AppInv, DesksOK
  <2> QED
    BY <1>3, <2>1 DEF DesksOK
<1>7. AppsLeftAlone'
  BY AloneStays DEF AppInv
<1> QED
  BY <1>4, <1>5, <1>6, <1>7 DEF AppInv

LEMMA RollsBackPreserves ==
    ASSUME AppInv, NEW d \in DOMAIN releases, RollsBack(d)  PROVE AppInv'
<1> DEFINE ended == [releases EXCEPT ![d].pc = "none"]
<1> PICK i, n : i = releases[d].app /\ n = releases[d].name
  OBVIOUS
<1>1. releases[d] \in Release /\ ReleaseOK(releases[d]) /\ releases[d].pc = "restore"
  BY DEF AppInv, AppShape, ReleasesOK, RollsBack
<1>2. UNCHANGED <<appRow, objects, desk, handed, appTally>> /\ Len(releases) < MaxReleases
  BY DEF RollsBack
<1>3. PICK q \in Release : q = [releases[d] EXCEPT !.pc = "none"]
  BY <1>1 DEF Release, ReleasePCs
<1>4. ReleaseOK(q)
  BY <1>1, <1>3 DEF ReleaseOK, Release
<1>5. CASE i \in AppRows
  <2>1. /\ releases' = Append(ended, NewRelease(i, n, releases[d].to, TRUE, "apply"))
        /\ strayed' = strayed \cup ActsOn(i, n)
    BY <1>5 DEF RollsBack, Strays
  <2>2. /\ ended \in Seq(Release) /\ Len(ended) = Len(releases)
        /\ \A e \in DOMAIN ended : ReleaseOK(ended[e])
    <3>1. ended = [releases EXCEPT ![d] = q]
      BY <1>3
    <3> HIDE DEF ended
    <3>2. /\ ended \in Seq(Release) /\ Len(ended) = Len(releases)
          /\ DOMAIN ended = DOMAIN releases /\ ended[d] = q
          /\ \A e \in DOMAIN releases : e # d => ended[e] = releases[e]
      BY <3>1, PutRow DEF AppInv, AppShape
    <3> QED
      BY <1>4, <3>2 DEF AppInv, ReleasesOK
  <2>3. n \in AppNames /\ appRow[i].name \in AppNames /\ strayed \subseteq AppNames
    BY <1>1, <1>5, RowsAreApps DEF AppInv, AppRow, Release, AppShape
  <2>4. PICK r \in Release : r = NewRelease(i, n, releases[d].to, TRUE, "apply")
    <3>1. 0 \in ReleaseNos
      BY Bounds DEF ReleaseNos
    <3> QED
      BY <1>1, <2>3, <3>1 DEF NewRelease, Release, ReleasePCs
  <2>5. strayed \subseteq strayed' /\ strayed' \subseteq AppNames
    BY <2>1, <2>3 DEF ActsOn
  <2>6. OwnsName(i, n)'
    <3>1. OwnsName(i, appRow[i].name)
      BY <1>1, <1>5 DEF ReleaseOK
    <3>2. CASE appRow[i].name = n
      BY <1>2, <2>5, <3>1, <3>2 DEF OwnsName, Managed, AppRows
    <3>3. CASE appRow[i].name # n
      BY <2>1, <3>3 DEF ActsOn, OwnsName
    <3> QED
      BY <3>2, <3>3
  <2>7. ReleaseOK(r)'
    <3>1. /\ r.row /\ r.app = i /\ r.name = n /\ r.pc = "apply" /\ r.status = "deploying"
      BY <2>4 DEF NewRelease
    <3>2. (r.app \in AppRows)' /\ OwnsName(r.app, r.name)'
      BY <1>2, <1>5, <2>6, <3>1 DEF AppRows
    <3> QED
      BY <3>1, <3>2 DEF ReleaseOK
  <2>8. desk' \in [AppClients -> DeskShape] /\ \A c \in AppClients : desk'[c] \in {desk[c], NoDesk}
    BY <1>2 DEF AppInv, AppShape
  <2> HIDE DEF ended
  <2> QED
    BY <1>2, <2>1, <2>2, <2>4, <2>5, <2>7, <2>8, ReleaseAdded
<1>6. CASE i \notin AppRows
  <2>1. releases' = [releases EXCEPT ![d] = q] /\ UNCHANGED strayed
    BY <1>3, <1>6 DEF RollsBack
  <2>2. ReleaseOK(q)'
    BY <1>2, <1>4, <2>1, ReleaseStays
  <2>3. appTally \in [calls : 0 .. MaxAppCalls, faults : SUBSET AppFaults]
    BY DEF AppInv, AppShape
  <2> QED
    BY <1>2, <2>1, <2>2, <2>3, OneReleaseMoves
<1> QED
  BY <1>5, <1>6

--------------------------------
\* Requests.

\* A request that has ended relies on nothing.
LEMMA IdleDesk == NoDesk \in DeskShape /\ DeskOK(NoDesk) /\ NoDesk.pc = "idle"
<1>1. 0 \in 0 .. MaxAppId /\ 0 \in ReleaseNos
  BY Bounds DEF ReleaseNos
<1> QED
  BY <1>1 DEF NoDesk, DeskShape, DeskPCs, DeskOK

\* The next thing a request relies on, when the others rely on what they did.
LEMMA OneDeskMoves ==
    ASSUME AppInv, NEW c \in AppClients, NEW k \in DeskShape, DeskOK(k)',
           desk' = [desk EXCEPT ![c] = k],
           \A e \in AppClients : \A j : e # c /\ j = desk[e] => DeskOK(j)'
    PROVE  desk' \in [AppClients -> DeskShape] /\ DesksOK'
<1>1. desk \in [AppClients -> DeskShape]
  BY DEF AppInv, AppShape
<1>2. desk' \in [AppClients -> DeskShape]
  BY <1>1
<1>3. desk'[c] = k /\ \A e \in AppClients : e # c => desk'[e] = desk[e]
  BY <1>1
<1> QED
  BY <1>2, <1>3 DEF DesksOK

\* A request that only moves itself, and strays names.
LEMMA DeskAloneMoves ==
    ASSUME AppInv, NEW c \in AppClients, NEW k \in DeskShape, DeskOK(k)',
           desk' = [desk EXCEPT ![c] = k], UNCHANGED <<appRow, releases, objects, handed>>,
           strayed \subseteq strayed', strayed' \subseteq AppNames,
           appTally' \in [calls : 0 .. MaxAppCalls, faults : SUBSET AppFaults]
    PROVE  AppInv'
<1>1. ASSUME NEW e \in AppClients, NEW j, j = desk[e]  PROVE DeskOK(j)'
  BY <1>1, DeskStays DEF AppInv, DesksOK
<1>2. desk' \in [AppClients -> DeskShape] /\ DesksOK'
  BY <1>1, OneDeskMoves
<1>3. AppShape'
  BY <1>2 DEF AppInv, AppShape
<1>4. ReleasesOK'
  BY ReleaseStays DEF AppInv, ReleasesOK
<1>5. AppsLeftAlone'
  BY AloneStays DEF AppInv
<1> QED
  BY <1>2, <1>3, <1>4, <1>5 DEF AppInv

LEMMA AsksPreserves ==
    ASSUME AppInv, NEW c \in AppClients, NEW act \in AllAppActs, NEW i \in AppRows,
           NEW pc \in DeskPCs \ {"idle", "resync"}, AsksApp(c, act, i, pc),
           pc = "sync" => i \in Managed, pc = "row" => appRow[i].ejected,
           pc = "insert" => act \in {"image", "source", "page", "pipeline"}
    PROVE  AppInv'
<1>1. appRow[i] \in AppRow /\ i \in AppIdRange
  BY RowsAreApps DEF AppInv
<1>2. PICK k \in DeskShape :
          k = [NoDesk EXCEPT !.pc = pc, !.act = act, !.id = i, !.copy = appRow[i]]
  <2>1. 0 \in ReleaseNos /\ i \in 0 .. MaxAppId
    BY <1>1, Bounds DEF ReleaseNos, AppIdRange
  <2> QED
    BY <1>1, <2>1 DEF NoDesk, DeskShape
<1>3. k.pc = pc /\ k.act = act /\ k.id = i /\ k.copy = appRow[i]
  BY <1>2 DEF NoDesk
<1>4. UNCHANGED <<appRow, releases, objects, handed, strayed>>
      /\ desk' = [desk EXCEPT ![c] = k]
  BY <1>2 DEF AsksApp
<1>5. DeskOK(k)
  <2>1. i \in Managed => OwnsName(i, appRow[i].name)
    BY DEF OwnsName
  <2> QED
    BY <1>1, <1>3, <2>1 DEF DeskOK, Managed
<1>6. DeskOK(k)'
  BY <1>4, <1>5, DeskStays
<1>7. appTally' \in [calls : 0 .. MaxAppCalls, faults : SUBSET AppFaults]
  BY Bounds DEF AsksApp, OnCall, AppInv, AppShape
<1>8. strayed \subseteq AppNames
  BY DEF AppInv, AppShape
<1> QED
  BY <1>4, <1>6, <1>7, <1>8, DeskAloneMoves

LEMMA AskingPreserves ==
    ASSUME AppInv, NEW c \in AppClients,
           \/ ReleaseAsked(c) \/ AppSyncAsked(c) \/ EjectAsked(c)
           \/ AdoptAsked(c) \/ DestroyAsked(c)
    PROVE  AppInv'
<1>1. Managed \subseteq AppRows
  BY RowsAreApps DEF AppInv
<1>2. CASE ReleaseAsked(c)
  <2>1. /\ {"image", "source", "page", "pipeline"} \subseteq AllAppActs
        /\ "insert" \in DeskPCs \ {"idle", "resync"}
    BY DEF AllAppActs, DeskPCs
  <2>2. PICK i \in AppRows, act \in {"image", "source", "page", "pipeline"} :
            AsksApp(c, act, i, "insert")
    BY <1>1, <1>2 DEF ReleaseAsked
  <2> QED
    BY <2>1, <2>2, AsksPreserves
<1>3. CASE AppSyncAsked(c)
  <2>1. "sync" \in AllAppActs /\ "sync" \in DeskPCs \ {"idle", "resync"}
    BY DEF AllAppActs, DeskPCs
  <2> QED
    BY <1>1, <1>3, <2>1, AsksPreserves DEF AppSyncAsked
<1>4. CASE EjectAsked(c)
  <2>1. "eject" \in AllAppActs /\ "eject" \in DeskPCs \ {"idle", "resync"}
    BY DEF AllAppActs, DeskPCs
  <2> QED
    BY <1>1, <1>4, <2>1, AsksPreserves DEF EjectAsked
<1>5. CASE AdoptAsked(c)
  <2>1. "adopt" \in AllAppActs /\ "adopt" \in DeskPCs \ {"idle", "resync"}
    BY DEF AllAppActs, DeskPCs
  <2> QED
    BY <1>5, <2>1, AsksPreserves DEF AdoptAsked
<1>6. CASE DestroyAsked(c)
  <2>1. "destroy" \in AllAppActs /\ {"row", "objects"} \subseteq DeskPCs \ {"idle", "resync"}
    BY DEF AllAppActs, DeskPCs
  <2>2. PICK i \in AppRows :
            AsksApp(c, "destroy", i, IF appRow[i].ejected THEN "row" ELSE "objects")
    BY <1>6 DEF DestroyAsked
  <2>3. PICK pc \in {"row", "objects"} : pc = IF appRow[i].ejected THEN "row" ELSE "objects"
    OBVIOUS
  <2>4. AsksApp(c, "destroy", i, pc)
    BY <2>2, <2>3
  <2> QED
    BY <2>1, <2>3, <2>4, AsksPreserves
<1> QED
  BY <1>2, <1>3, <1>4, <1>5, <1>6

\* A deploy is asked for on a copy of its app, and inserted by the app's id.
LEMMA InsertsPreserves ==
    ASSUME AppInv, NEW c \in AppClients, InsertsRelease(c)  PROVE AppInv'
<1> PICK i, n, act : i = desk[c].id /\ n = desk[c].copy.name /\ act = desk[c].act
  OBVIOUS
<1> DEFINE gone  == i \notin AppRows \/ (act = "pipeline" /\ ~ IsLive(LatestOf(i)))
           image == CASE Builds(act)      -> 0
                      [] act = "image"    -> Len(releases) + 1
                      [] act = "pipeline" -> releases[LatestOf(i)].image
           r     == NewRelease(i, n, image, FALSE, IF Builds(act) THEN "build" ELSE "apply")
<1>1. /\ desk[c] \in DeskShape /\ DeskOK(desk[c]) /\ desk[c].pc = "insert"
      /\ UNCHANGED <<appRow, objects, handed, appTally>> /\ desk' = [desk EXCEPT ![c] = NoDesk]
  BY DEF AppInv, AppShape, DesksOK, InsertsRelease, Leaves
<1>2. /\ i \in AppIdRange /\ n \in AppNames
      /\ act \in {"image", "source", "page", "pipeline"} /\ (Builds(act) <=> act \in {"source", "page"})
      /\ strayed \subseteq AppNames
  BY <1>1 DEF DeskOK, AppRow, AppInv, AppShape, Builds
<1>3. IF gone THEN UNCHANGED <<releases, strayed>>
      ELSE /\ Len(releases) + 1 <= MaxReleases
           /\ releases' = Append(releases, r)
           /\ strayed' = strayed \cup (ActsOn(i, n) \cup
                             (IF appRow[i].ejected THEN {n} ELSE {}))
  BY DEF InsertsRelease, Strays
<1>4. CASE gone
  <2>1. DeskOK(NoDesk)'
    BY <1>1, <1>3, <1>4, IdleDesk, DeskStays
  <2>2. appTally' \in [calls : 0 .. MaxAppCalls, faults : SUBSET AppFaults]
    BY <1>1 DEF AppInv, AppShape
  <2> HIDE DEF gone
  <2> QED
    BY <1>1, <1>2, <1>3, <1>4, <2>1, <2>2, IdleDesk, DeskAloneMoves
<1>5. CASE ~ gone
  <2>1. /\ Len(releases) + 1 <= MaxReleases /\ releases' = Append(releases, r)
        /\ strayed' = strayed \cup (ActsOn(i, n) \cup (IF appRow[i].ejected THEN {n} ELSE {}))
        /\ i \in AppRows
    BY <1>3, <1>5
  <2>2. Len(releases) \in Nat /\ Len(releases) < MaxReleases
    BY <2>1, LenProperties, Bounds DEF AppInv, AppShape
  <2>3. image \in ReleaseNos
    <3>1. CASE Builds(act)
      <4>1. act # "image" /\ act # "pipeline" /\ 0 \in ReleaseNos
        BY <1>2, <3>1, Bounds DEF ReleaseNos
      <4> QED
        BY <3>1, <4>1
    <3>2. CASE act = "image"
      <4>1. ~ Builds(act) /\ Len(releases) + 1 \in ReleaseNos
        BY <1>2, <2>1, <2>2, <3>2, Bounds DEF ReleaseNos
      <4> QED
        BY <3>2, <4>1
    <3>3. CASE act = "pipeline"
      <4>1. LatestOf(i) \in OfApp(i)
        BY <1>5, <3>3, LatestIsOne DEF IsLive, AppInv
      <4>2. LatestOf(i) \in DOMAIN releases /\ releases \in Seq(Release)
        BY <4>1 DEF OfApp, AppInv, AppShape
      <4>3. releases[LatestOf(i)] \in Release
        BY <4>2
      <4>4. ~ Builds(act) /\ releases[LatestOf(i)].image \in ReleaseNos
        BY <1>2, <3>3, <4>3 DEF Release
      <4> QED
        BY <3>3, <4>4
    <3> QED
      BY <1>2, <3>1, <3>2, <3>3
  <2> HIDE DEF image
  <2>4. PICK q \in Release : q = r
    <3>1. 0 \in ReleaseNos
      BY Bounds DEF ReleaseNos
    <3>2. PICK pc \in {"build", "apply"} : pc = IF Builds(act) THEN "build" ELSE "apply"
      OBVIOUS
    <3>3. NewRelease(i, n, image, FALSE, pc) \in Release
      BY <1>2, <2>3, <3>1 DEF NewRelease, Release, ReleasePCs
    <3> QED
      BY <3>2, <3>3
  <2>5. appRow[i] \in AppRow
    BY <2>1, RowsAreApps DEF AppInv
  <2>6. strayed \subseteq strayed' /\ strayed' \subseteq AppNames
    BY <1>2, <2>1, <2>5 DEF ActsOn, AppRow
  <2>7. (i \in AppRows)' /\ OwnsName(i, n)'
    BY <1>1, <2>1 DEF ActsOn, OwnsName, Managed, AppRows
  <2>8. /\ q.row /\ q.app = i /\ q.name = n /\ q.pc \in {"build", "apply"}
        /\ q.status = IF q.pc = "build" THEN "building" ELSE "deploying"
    BY <2>4 DEF NewRelease
  <2>9. ReleaseOK(q)'
    BY <2>7, <2>8 DEF ReleaseOK
  <2>10. desk' \in [AppClients -> DeskShape] /\ \A e \in AppClients : desk'[e] \in {desk[e], NoDesk}
    BY <1>1, IdleDesk DEF AppInv, AppShape
  <2>11. releases' = Append(releases, q) /\ releases \in Seq(Release)
         /\ \A e \in DOMAIN releases : ReleaseOK(releases[e])
    BY <2>1, <2>4 DEF AppInv, AppShape, ReleasesOK
  <2> QED
    BY <1>1, <2>2, <2>6, <2>9, <2>10, <2>11, ReleaseAdded
<1> QED
  BY <1>4, <1>5

\* A sync acts on the latest deploy of its app's id.
LEMMA SyncReadsPreserves ==
    ASSUME AppInv, NEW c \in AppClients, SyncReads(c)  PROVE AppInv'
<1> PICK i, n, d : i = desk[c].id /\ n = desk[c].copy.name /\ d = LatestOf(i)
  OBVIOUS
<1>1. /\ desk[c] \in DeskShape /\ DeskOK(desk[c]) /\ desk[c].pc = "sync"
      /\ UNCHANGED <<appRow, releases, objects, handed, appTally>>
  BY DEF AppInv, AppShape, DesksOK, SyncReads
<1>2. i \in AppIdRange /\ n \in AppNames /\ strayed \subseteq AppNames
  BY <1>1 DEF DeskOK, AppRow, AppInv, AppShape
<1>3. appTally' \in [calls : 0 .. MaxAppCalls, faults : SUBSET AppFaults]
  BY <1>1 DEF AppInv, AppShape
<1>4. CASE IsLive(d)
  <2>1. /\ desk' = [desk EXCEPT ![c].pc = "resync", ![c].image = releases[d].image]
        /\ strayed' = strayed \cup ActsOn(i, n)
    BY <1>4 DEF SyncReads, Strays
  <2>2. d \in DOMAIN releases /\ releases[d] \in Release /\ i \in AppRows
    <3>1. d \in OfApp(i)
      BY <1>4, LatestIsOne DEF IsLive, AppInv
    <3>2. d \in DOMAIN releases /\ releases[d].row /\ releases[d].app = i
      BY <3>1 DEF OfApp
    <3>3. ReleaseOK(releases[d]) /\ releases[d] \in Release
      BY <3>2 DEF AppInv, AppShape, ReleasesOK
    <3> QED
      BY <3>2, <3>3 DEF ReleaseOK
  <2>3. PICK k \in DeskShape : k = [desk[c] EXCEPT !.pc = "resync", !.image = releases[d].image]
    BY <1>1, <2>2 DEF DeskShape, DeskPCs, Release
  <2>4. desk' = [desk EXCEPT ![c] = k]
    BY <2>1, <2>3
  <2>5. appRow[i] \in AppRow
    BY <2>2, RowsAreApps DEF AppInv
  <2>6. strayed \subseteq strayed' /\ strayed' \subseteq AppNames
    BY <1>2, <2>1, <2>5 DEF ActsOn, AppRow
  <2>7. k.pc = "resync" /\ k.id = i /\ k.copy = desk[c].copy /\ k.copy.name = n
    BY <1>1, <2>3 DEF DeskShape
  <2>8. OwnsName(i, appRow[i].name)
    BY <1>1, <2>2 DEF DeskOK
  <2>9. \A m : OwnsName(i, m) => OwnsName(i, m)'
    BY <1>1, <2>6 DEF OwnsName, Managed, AppRows
  <2>10. OwnsName(i, appRow[i].name)'
    BY <1>1, <2>8, <2>9
  <2>11. OwnsName(i, n)'
    <3>1. CASE n = appRow[i].name
      BY <2>8, <2>9, <3>1
    <3>2. CASE n # appRow[i].name
      BY <2>1, <3>2 DEF ActsOn, OwnsName
    <3> QED
      BY <3>1, <3>2
  <2>12. DeskOK(k)'
    BY <1>1, <1>2, <2>7, <2>10, <2>11 DEF DeskOK
  <2> QED
    BY <1>1, <1>3, <2>4, <2>6, <2>12, DeskAloneMoves
<1>5. CASE ~ IsLive(d)
  <2>1. desk' = [desk EXCEPT ![c] = NoDesk] /\ UNCHANGED strayed
    BY <1>5 DEF SyncReads, Leaves
  <2>2. DeskOK(NoDesk)'
    BY <1>1, <2>1, IdleDesk, DeskStays
  <2> QED
    BY <1>1, <1>2, <1>3, <2>1, <2>2, IdleDesk, DeskAloneMoves
<1> QED
  BY <1>4, <1>5

LEMMA SyncAppliesPreserves ==
    ASSUME AppInv, NEW c \in AppClients, SyncApplies(c)  PROVE AppInv'
<1> PICK n, image : n = desk[c].copy.name /\ image = desk[c].image
  OBVIOUS
<1>1. /\ desk[c] \in DeskShape /\ DeskOK(desk[c]) /\ desk[c].pc = "resync"
      /\ UNCHANGED <<appRow, releases, handed, appTally>> /\ desk' = [desk EXCEPT ![c] = NoDesk]
      /\ PutsImage(n, image)
  BY DEF AppInv, AppShape, DesksOK, SyncApplies, Leaves
<1>2. n \in AppNames /\ image \in ReleaseNos
  BY <1>1 DEF DeskOK, AppRow, DeskShape
<1>3. n \in strayed \/ RowsOf(n) \cap Managed # {}
  BY <1>1, HoldsMeans DEF DeskOK
<1>4. /\ objects' \in [AppNames -> ReleaseNos]
      /\ strayed \subseteq strayed' /\ strayed' \subseteq AppNames
      /\ \A e \in AppClients : \A k : k = desk[e] => DeskOK(k)'
      /\ AppsLeftAlone'
  BY <1>1, <1>2, <1>3, ImagePut
<1>5. DeskOK(NoDesk)'
  BY DEF NoDesk, DeskOK
<1>6. desk' \in [AppClients -> DeskShape] /\ DesksOK'
  BY <1>1, <1>4, <1>5, IdleDesk, OneDeskMoves
<1>7. AppShape'
  BY <1>1, <1>4, <1>6 DEF AppInv, AppShape
<1>8. ReleasesOK'
  BY <1>1, <1>4, ReleaseStays DEF AppInv, ReleasesOK
<1> QED
  BY <1>4, <1>6, <1>7, <1>8 DEF AppInv

\* Objects of a name are deleted.
LEMMA ObjectsTaken ==
    ASSUME AppInv, NEW n \in AppNames, TakesObjects(n), UNCHANGED <<appRow, handed>>
    PROVE  /\ objects' \in [AppNames -> ReleaseNos] /\ objects'[n] = 0
           /\ strayed \subseteq strayed' /\ strayed' \subseteq AppNames
           /\ \A c \in AppClients : \A k : k = desk[c] => DeskOK(k)'
           /\ AppsLeftAlone'
<1>1. /\ objects' = [objects EXCEPT ![n] = 0]
      /\ strayed' = strayed \cup (IF RowsOf(n) \cap Managed = {} /\ objects[n] # 0 THEN {n} ELSE {})
  BY DEF TakesObjects, Strays
<1>2. /\ objects \in [AppNames -> ReleaseNos] /\ strayed \subseteq AppNames /\ 0 \in ReleaseNos
  BY Bounds DEF AppInv, AppShape, ReleaseNos
<1>3. objects' \in [AppNames -> ReleaseNos] /\ objects'[n] = 0
  BY <1>1, <1>2
<1>4. strayed \subseteq strayed' /\ strayed' \subseteq AppNames
  BY <1>1, <1>2
<1>5. ASSUME NEW c \in AppClients, NEW k, k = desk[c]  PROVE DeskOK(k)'
  <2>1. DeskOK(k)
    BY <1>5 DEF AppInv, DesksOK
  <2>2. ASSUME k.pc = "row"  PROVE objects'[k.copy.name] \in {objects[k.copy.name], 0}
    <3>1. k.copy.name \in AppNames
      BY <2>1, <2>2 DEF DeskOK, AppRow
    <3> QED
      BY <1>1, <1>2, <3>1
  <2> QED
    BY <1>4, <2>1, <2>2, DeskStays
<1>6. AppsLeftAlone'
  <2>1. \A m \in AppNames \ strayed' :
            objects'[m] # objects[m] => RowsOf(m) \cap Managed # {}
    BY <1>1, <1>2
  <2> QED
    BY <1>4, <2>1, AloneStays DEF AppInv
<1> QED
  BY <1>3, <1>4, <1>5, <1>6

\* DeleteAppObjects, which goes on to the row or not.
LEMMA DeletesObjectsPreserves ==
    ASSUME AppInv, NEW c \in AppClients, DeletesAppObjects(c) \/ DeletesAppObjectsFails(c)
    PROVE  AppInv'
<1> PICK n : n = desk[c].copy.name
  OBVIOUS
<1>1. /\ desk[c] \in DeskShape /\ DeskOK(desk[c]) /\ desk[c].pc = "objects"
      /\ UNCHANGED <<appRow, releases, handed>>
      /\ TakesObjects(n) \/ UNCHANGED <<objects, strayed>>
  BY DEF AppInv, AppShape, DesksOK, DeletesAppObjects, DeletesAppObjectsFails
<1>2. n \in AppNames /\ strayed \subseteq AppNames
  BY <1>1 DEF DeskOK, AppRow, AppInv, AppShape
<1>3. appTally' \in [calls : 0 .. MaxAppCalls, faults : SUBSET AppFaults]
  <2>1. CASE DeletesAppObjects(c)
    BY <2>1 DEF DeletesAppObjects, AppInv, AppShape
  <2>2. CASE DeletesAppObjectsFails(c)
    BY <2>2, FaultNoted DEF DeletesAppObjectsFails
  <2> QED
    BY <2>1, <2>2
<1>4. PICK k \in DeskShape : k = [desk[c] EXCEPT !.pc = "row"]
  BY <1>1 DEF DeskShape, DeskPCs
<1>5. CASE TakesObjects(n)
  <2>1. /\ objects' \in [AppNames -> ReleaseNos] /\ objects'[n] = 0
        /\ strayed \subseteq strayed' /\ strayed' \subseteq AppNames
        /\ \A e \in AppClients : \A j : j = desk[e] => DeskOK(j)'
        /\ AppsLeftAlone'
    BY <1>1, <1>2, <1>5, ObjectsTaken
  <2>2. DeskOK(k)'
    <3>1. k.pc = "row" /\ k.copy.name = n /\ k.id \in AppIdRange /\ k.copy \in AppRow
      BY <1>1, <1>4 DEF DeskOK, DeskShape
    <3> QED
      BY <2>1, <3>1 DEF DeskOK
  <2>3. DeskOK(NoDesk)'
    BY DEF NoDesk, DeskOK
  <2>4. desk' = [desk EXCEPT ![c] = k] \/ desk' = [desk EXCEPT ![c] = NoDesk]
    BY <1>4 DEF DeletesAppObjects, DeletesAppObjectsFails, DeskAt, Leaves
  <2>5. desk' \in [AppClients -> DeskShape] /\ DesksOK'
    BY <2>1, <2>2, <2>3, <2>4, IdleDesk, OneDeskMoves
  <2>6. AppShape'
    BY <1>1, <1>3, <2>1, <2>5 DEF AppInv, AppShape
  <2>7. ReleasesOK'
    BY <1>1, <2>1, ReleaseStays DEF AppInv, ReleasesOK
  <2> QED
    BY <2>1, <2>5, <2>6, <2>7 DEF AppInv
<1>6. CASE ~ TakesObjects(n)
  <2>1. UNCHANGED <<objects, strayed>> /\ desk' = [desk EXCEPT ![c] = NoDesk]
    BY <1>6 DEF DeletesAppObjects, DeletesAppObjectsFails, Leaves
  <2>2. DeskOK(NoDesk)'
    BY DEF NoDesk, DeskOK
  <2> QED
    BY <1>1, <1>2, <1>3, <2>1, <2>2, IdleDesk, DeskAloneMoves
<1> QED
  BY <1>5, <1>6

--------------------------------
\* Steps that change the rows of apps.

\* The row of an app is not the row that is not there.
LEMMA NamedIsApp ==
    ASSUME NEW r \in AppRow  PROVE r # NoApp
<1>1. r.name \in AppNames /\ NoApp.name = ""
  BY DEF AppRow, NoApp
<1>2. "" \notin AppNames
  BY AppAssumption
<1> QED
  BY <1>1, <1>2, Zenon

LEMMA CreatesPreserves ==
    ASSUME AppInv, NEW n \in AppNames, CreatesApp(n)  PROVE AppInv'
<1>1. PICK i \in AppIdRange :
          /\ IsNextId(i) /\ appRow' = [appRow EXCEPT ![i] = [name |-> n, ejected |-> FALSE]]
          /\ UNCHANGED <<releases, objects, desk, handed, strayed>>
  BY DEF CreatesApp
<1>2. i \notin AppRows
  BY <1>1 DEF IsNextId, AppIdRange
<1>3. PICK r \in AppRow : r = [name |-> n, ejected |-> FALSE]
  BY DEF AppRow
<1>4. /\ appRow \in [AppIdRange -> AppRow \cup {NoApp}] /\ r # NoApp
      /\ appRow' = [appRow EXCEPT ![i] = r]
  BY <1>1, <1>3, NamedIsApp DEF AppInv, AppShape
<1>5. /\ appRow' \in [AppIdRange -> AppRow \cup {NoApp}] /\ appRow'[i] = r
      /\ \A j \in AppIdRange : j # i => appRow'[j] = appRow[j]
  BY <1>4
<1>6. AppRows' = AppRows \cup {i}
  BY <1>4, <1>5 DEF AppRows
<1>7. Managed' = Managed \cup {i}
  <2>1. ~ r.ejected
    BY <1>3
  <2>2. \A j \in AppRows : appRow'[j] = appRow[j]
    BY <1>2, <1>5 DEF AppRows
  <2> QED
    BY <1>5, <1>6, <2>1, <2>2 DEF Managed
<1>8. \A j \in AppRows : \A m : OwnsName(j, m) => OwnsName(j, m)'
  BY <1>1, <1>2, <1>5, <1>7, RowsAreApps DEF OwnsName, AppInv
<1>9. OwnsName(i, appRow[i].name)'
  BY <1>7 DEF OwnsName
<1>10. \A j \in AppRows : j \in AppIdRange /\ appRow'[j] = appRow[j]
  BY <1>2, <1>5 DEF AppRows
<1>11. AppShape'
  <2>1. appTally' \in [calls : 0 .. MaxAppCalls, faults : SUBSET AppFaults]
    BY Bounds DEF CreatesApp, OnCall, AppInv, AppShape
  <2> QED
    BY <1>1, <1>5, <2>1 DEF AppInv, AppShape
<1>12. ASSUME NEW q, ReleaseOK(q)  PROVE ReleaseOK(q)'
  <2>1. q.row => (q.app \in AppRows)' /\ (OwnsName(q.app, q.name) => OwnsName(q.app, q.name)')
    BY <1>6, <1>8, <1>12 DEF ReleaseOK
  <2>2. ASSUME q.pc = "restore", (q.app \in AppRows)'  PROVE OwnsName(q.app, appRow[q.app].name)'
    <3>1. CASE q.app = i
      BY <1>9, <3>1
    <3>2. CASE q.app # i
      <4>1. q.app \in AppRows
        BY <1>6, <2>2, <3>2
      <4>2. OwnsName(q.app, appRow[q.app].name) /\ appRow'[q.app] = appRow[q.app]
        BY <1>10, <1>12, <2>2, <4>1 DEF ReleaseOK
      <4> QED
        BY <1>8, <4>1, <4>2
    <3> QED
      BY <3>1, <3>2
  <2> QED
    BY <1>1, <1>12, <2>1, <2>2 DEF ReleaseOK
<1>13. ASSUME NEW k, DeskOK(k)  PROVE DeskOK(k)'
  <2>1. ASSUME k.pc \in {"sync", "resync"}, (k.id \in AppRows)'
        PROVE  OwnsName(k.id, appRow[k.id].name)'
    <3>1. CASE k.id = i
      BY <1>9, <3>1
    <3>2. CASE k.id # i
      <4>1. k.id \in AppRows
        BY <1>6, <2>1, <3>2
      <4>2. OwnsName(k.id, appRow[k.id].name) /\ appRow'[k.id] = appRow[k.id]
        BY <1>10, <1>13, <2>1, <4>1 DEF DeskOK
      <4> QED
        BY <1>8, <4>1, <4>2
    <3> QED
      BY <3>1, <3>2
  <2>2. ASSUME k.pc = "resync"  PROVE OwnsName(k.id, k.copy.name)'
    <3>1. OwnsName(k.id, k.copy.name)
      BY <1>13, <2>2 DEF DeskOK
    <3>2. CASE k.copy.name \in strayed
      BY <1>1, <3>2 DEF OwnsName
    <3>3. CASE k.copy.name \notin strayed
      <4>1. k.id \in AppRows
        BY <3>1, <3>3 DEF OwnsName, Managed
      <4> QED
        BY <1>8, <3>1, <4>1
    <3> QED
      BY <3>2, <3>3
  <2> QED
    BY <1>1, <1>13, <2>1, <2>2 DEF DeskOK
<1>14. ReleasesOK' /\ DesksOK'
  BY <1>1, <1>12, <1>13 DEF AppInv, ReleasesOK, DesksOK
<1>15. AppsLeftAlone'
  <2>1. ASSUME NEW m \in AppNames, RowsOf(m)' \cap Managed' = {}
        PROVE  RowsOf(m) \cap Managed = {}
    BY <1>6, <1>7, <1>10, <2>1 DEF RowsOf
  <2> QED
    BY <1>1, <2>1 DEF AppInv, AppsLeftAlone
<1> QED
  BY <1>11, <1>14, <1>15 DEF AppInv

LEMMA EjectsPreserves ==
    ASSUME AppInv, NEW c \in AppClients, Ejects(c)  PROVE AppInv'
<1> PICK i : i = desk[c].id
  OBVIOUS
<1>1. /\ desk[c] \in DeskShape /\ DeskOK(desk[c]) /\ desk[c].pc = "eject"
      /\ UNCHANGED <<releases, objects, appTally>> /\ desk' = [desk EXCEPT ![c] = NoDesk]
  BY DEF AppInv, AppShape, DesksOK, Ejects, Leaves
<1>2. /\ i \in AppIdRange /\ strayed \subseteq AppNames /\ desk[c].copy.name \in AppNames
      /\ appTally \in [calls : 0 .. MaxAppCalls, faults : SUBSET AppFaults]
      /\ desk \in [AppClients -> DeskShape]
  BY <1>1 DEF DeskOK, AppRow, AppInv, AppShape
<1>3. DeskOK(NoDesk)'
  BY DEF NoDesk, DeskOK
<1>4. CASE i \notin AppRows
  <2>1. UNCHANGED <<appRow, handed, strayed>>
    BY <1>4 DEF Ejects
  <2> QED
    BY <1>1, <1>2, <1>3, <2>1, IdleDesk, DeskAloneMoves
<1>5. CASE i \in AppRows
  <2> PICK n : n = appRow[i].name
    OBVIOUS
  <2>1. /\ appRow' = [appRow EXCEPT ![i].ejected = TRUE]
        /\ handed' = [handed EXCEPT ![n] = objects[n]]
        /\ strayed' = strayed \cup (ActsOn(i, desk[c].copy.name)
                          \cup (IF Unsettled(i) # {} \/ Desks(i, c) # {} THEN {n} ELSE {}))
    BY <1>5 DEF Ejects, Strays
  <2>2. appRow[i] \in AppRow /\ n \in AppNames
    BY <1>5, RowsAreApps DEF AppInv, AppRow
  <2>3. PICK r \in AppRow : r = [appRow[i] EXCEPT !.ejected = TRUE]
    BY <2>2 DEF AppRow
  <2>4. r # NoApp /\ r.name = n /\ r.ejected
    BY <2>2, <2>3, NamedIsApp DEF AppRow
  <2>5. /\ appRow' \in [AppIdRange -> AppRow \cup {NoApp}] /\ appRow'[i] = r
        /\ \A j \in AppIdRange : j # i => appRow'[j] = appRow[j]
    <3>1. appRow' = [appRow EXCEPT ![i] = r]
      BY <2>1, <2>3
    <3> QED
      BY <1>2, <3>1 DEF AppInv, AppShape
  <2>6. AppRows' = AppRows /\ \A j \in AppRows : j # i => appRow'[j] = appRow[j]
    BY <1>5, <2>4, <2>5 DEF AppRows
  <2>7. Managed' = Managed \ {i}
    BY <2>4, <2>5, <2>6 DEF Managed
  <2>8. \A j \in AppRows : appRow'[j].name = appRow[j].name
    BY <2>4, <2>5, <2>6
  <2>9. strayed \subseteq strayed' /\ strayed' \subseteq AppNames
    BY <1>2, <2>1, <2>2 DEF ActsOn
  <2>10. \A j, m : OwnsName(j, m) => OwnsName(j, m)' \/ (j = i /\ m = n)
    BY <2>6, <2>7, <2>9 DEF OwnsName, Managed
  <2>11. AppShape'
    <3>1. handed' \in [AppNames -> ReleaseNos]
      BY <2>1, <2>2 DEF AppInv, AppShape
    <3>2. desk' \in [AppClients -> DeskShape]
      BY <1>1, <1>2, IdleDesk
    <3> QED
      BY <1>1, <2>5, <2>9, <3>1, <3>2 DEF AppInv, AppShape
  <2>12. n \in strayed' => \A j : OwnsName(j, n)'
    BY DEF OwnsName
  <2>13. ASSUME NEW d \in DOMAIN releases, NEW q, q = releases[d]  PROVE ReleaseOK(q)'
    <3>1. ReleaseOK(q)
      BY <2>13 DEF AppInv, ReleasesOK
    <3>2. ASSUME q.app = i, (q.row /\ q.pc \in {"build", "apply", "gate"}) \/ q.pc = "restore"
          PROVE  n \in strayed'
      BY <2>1, <2>13, <3>2 DEF Unsettled
    <3>3. ASSUME q.row, q.pc \in {"build", "apply", "gate"}  PROVE OwnsName(q.app, q.name)'
      BY <2>10, <2>12, <3>1, <3>2, <3>3 DEF ReleaseOK
    <3>4. ASSUME q.pc = "restore", q.app \in AppRows  PROVE OwnsName(q.app, appRow[q.app].name)'
      <4>1. OwnsName(q.app, appRow[q.app].name)
        BY <3>1, <3>4 DEF ReleaseOK
      <4> QED
        BY <2>8, <2>10, <2>12, <3>2, <3>4, <4>1
    <3> QED
      BY <2>6, <2>9, <3>1, <3>3, <3>4 DEF ReleaseOK
  <2>14. ASSUME NEW e \in AppClients, NEW k, e # c, k = desk[e]  PROVE DeskOK(k)'
    <3>1. DeskOK(k)
      BY <2>14 DEF AppInv, DesksOK
    <3>2. ASSUME k.id = i, k.pc \in {"sync", "resync"}  PROVE n \in strayed'
      BY <2>1, <2>14, <3>2 DEF Desks
    <3>3. ASSUME k.pc \in {"sync", "resync"}, k.id \in AppRows
          PROVE  OwnsName(k.id, appRow[k.id].name)'
      <4>1. OwnsName(k.id, appRow[k.id].name)
        BY <3>1, <3>3 DEF DeskOK
      <4> QED
        BY <2>8, <2>10, <2>12, <3>2, <3>3, <4>1
    <3>4. ASSUME k.pc = "resync"  PROVE OwnsName(k.id, k.copy.name)'
      BY <2>10, <2>12, <3>1, <3>2, <3>4 DEF DeskOK
    <3> QED
      BY <1>1, <2>6, <2>9, <3>1, <3>3, <3>4 DEF DeskOK
  <2>15. ReleasesOK' /\ DesksOK'
    BY <1>1, <1>3, <2>13, <2>14, IdleDesk, OneDeskMoves DEF ReleasesOK
  <2>16. AppsLeftAlone'
    <3> SUFFICES ASSUME NEW m \in AppNames, m \notin strayed', RowsOf(m)' \cap Managed' = {}
                 PROVE  objects'[m] = handed'[m]
      BY DEF AppsLeftAlone
    <3>1. CASE m = n
      BY <1>1, <2>1, <3>1 DEF AppInv, AppShape
    <3>2. CASE m # n
      <4>1. RowsOf(m) \cap Managed = {}
        BY <2>6, <2>7, <2>8, <3>2 DEF RowsOf, Managed
      <4>2. objects[m] = handed[m]
        BY <2>9, <4>1 DEF AppInv, AppsLeftAlone
      <4> QED
        BY <1>1, <2>1, <3>2, <4>2 DEF AppInv, AppShape
    <3> QED
      BY <3>1, <3>2
  <2> QED
    BY <2>11, <2>15, <2>16 DEF AppInv
<1> QED
  BY <1>4, <1>5

LEMMA AdoptsPreserves ==
    ASSUME AppInv, NEW c \in AppClients, Adopts(c)  PROVE AppInv'
<1> PICK i, m : i = desk[c].id /\ m = desk[c].copy.name
  OBVIOUS
<1>1. /\ desk[c] \in DeskShape /\ DeskOK(desk[c]) /\ desk[c].pc = "adopt"
      /\ UNCHANGED <<releases, objects, handed, appTally>>
  BY DEF AppInv, AppShape, DesksOK, Adopts
<1>2. /\ i \in AppIdRange /\ strayed \subseteq AppNames /\ m \in AppNames
      /\ appTally \in [calls : 0 .. MaxAppCalls, faults : SUBSET AppFaults]
  BY <1>1 DEF DeskOK, AppRow, AppInv, AppShape
<1>3. CASE i \notin AppRows
  <2>1. UNCHANGED <<appRow, strayed>> /\ desk' = [desk EXCEPT ![c] = NoDesk]
    BY <1>3 DEF Adopts, Leaves
  <2>2. DeskOK(NoDesk)'
    BY DEF NoDesk, DeskOK
  <2> QED
    BY <1>1, <1>2, <2>1, <2>2, IdleDesk, DeskAloneMoves
<1>4. CASE i \in AppRows
  <2> PICK n : n = appRow[i].name
    OBVIOUS
  <2>1. /\ appRow' = [appRow EXCEPT ![i].ejected = FALSE]
        /\ desk' = [desk EXCEPT ![c].pc = "sync"]
        /\ strayed' = strayed \cup ActsOn(i, m)
    BY <1>4 DEF Adopts, Strays, DeskAt
  <2>2. appRow[i] \in AppRow /\ n \in AppNames
    BY <1>4, RowsAreApps DEF AppInv, AppRow
  <2>3. PICK r \in AppRow : r = [appRow[i] EXCEPT !.ejected = FALSE]
    BY <2>2 DEF AppRow
  <2>4. r # NoApp /\ r.name = n /\ ~ r.ejected
    BY <2>2, <2>3, NamedIsApp DEF AppRow
  <2>5. /\ appRow' \in [AppIdRange -> AppRow \cup {NoApp}] /\ appRow'[i] = r
        /\ \A j \in AppIdRange : j # i => appRow'[j] = appRow[j]
    <3>1. appRow' = [appRow EXCEPT ![i] = r]
      BY <2>1, <2>3
    <3> QED
      BY <1>2, <3>1 DEF AppInv, AppShape
  <2>6. AppRows' = AppRows /\ \A j \in AppRows : j # i => appRow'[j] = appRow[j]
    BY <1>4, <2>4, <2>5 DEF AppRows
  <2>7. Managed' = Managed \cup {i}
    BY <1>4, <2>4, <2>5, <2>6 DEF Managed
  <2>8. \A j \in AppRows : appRow'[j].name = appRow[j].name
    BY <2>4, <2>5, <2>6
  <2>9. strayed \subseteq strayed' /\ strayed' \subseteq AppNames
    BY <1>2, <2>1, <2>2 DEF ActsOn
  <2>10. \A j, q : OwnsName(j, q) => OwnsName(j, q)'
    BY <2>7, <2>8, <2>9 DEF OwnsName, Managed
  <2>11. PICK k \in DeskShape : k = [desk[c] EXCEPT !.pc = "sync"]
    BY <1>1 DEF DeskShape, DeskPCs
  <2>12. desk' = [desk EXCEPT ![c] = k] /\ k.pc = "sync" /\ k.id = i /\ k.copy \in AppRow
    BY <1>1, <2>1, <2>11 DEF DeskShape, DeskOK
  <2>13. ASSUME NEW q, ReleaseOK(q)  PROVE ReleaseOK(q)'
    BY <2>6, <2>8, <2>9, <2>10, <2>13 DEF ReleaseOK
  <2>14. ASSUME NEW j, DeskOK(j)  PROVE DeskOK(j)'
    BY <1>1, <2>6, <2>8, <2>9, <2>10, <2>14 DEF DeskOK
  <2>15. DeskOK(k)'
    <3>1. OwnsName(i, appRow[i].name)'
      BY <1>4, <2>7 DEF OwnsName
    <3> QED
      BY <1>2, <2>12, <3>1 DEF DeskOK
  <2>16. desk' \in [AppClients -> DeskShape] /\ DesksOK'
    <3>1. \A e \in AppClients : \A j : e # c /\ j = desk[e] => DeskOK(j)'
      BY <2>14 DEF AppInv, DesksOK
    <3> QED
      BY <2>12, <2>15, <3>1, OneDeskMoves
  <2>17. AppShape'
    BY <1>1, <2>5, <2>9, <2>16 DEF AppInv, AppShape
  <2>18. ReleasesOK'
    BY <1>1, <2>13 DEF AppInv, ReleasesOK
  <2>19. AppsLeftAlone'
    <3>1. ASSUME NEW q \in AppNames, RowsOf(q)' \cap Managed' = {}
          PROVE  RowsOf(q) \cap Managed = {}
      BY <2>6, <2>7, <2>8, <3>1 DEF RowsOf
    <3> QED
      BY <1>1, <2>9, <3>1 DEF AppInv, AppsLeftAlone
  <2> QED
    BY <2>16, <2>17, <2>18, <2>19 DEF AppInv
<1> QED
  BY <1>3, <1>4

\* DeleteApp: its deploys lose their rows, and what is being applied strays.
LEMMA DeletesRowPreserves ==
    ASSUME AppInv, NEW c \in AppClients, DeletesAppRow(c)  PROVE AppInv'
<1> PICK i, copy : i = desk[c].id /\ copy = desk[c].copy
  OBVIOUS
<1>1. /\ desk[c] \in DeskShape /\ DeskOK(desk[c]) /\ desk[c].pc = "row"
      /\ UNCHANGED <<objects, appTally>> /\ desk' = [desk EXCEPT ![c] = NoDesk]
  BY DEF AppInv, AppShape, DesksOK, DeletesAppRow, Leaves
<1>2. /\ i \in AppIdRange /\ strayed \subseteq AppNames /\ copy \in AppRow
      /\ appTally \in [calls : 0 .. MaxAppCalls, faults : SUBSET AppFaults]
      /\ desk \in [AppClients -> DeskShape] /\ releases \in Seq(Release)
  BY <1>1 DEF DeskOK, AppInv, AppShape
<1>3. DeskOK(NoDesk)'
  BY DEF NoDesk, DeskOK
<1>4. CASE i \notin AppRows
  <2>1. UNCHANGED <<appRow, releases, handed, strayed>>
    BY <1>4 DEF DeletesAppRow
  <2> QED
    BY <1>1, <1>2, <1>3, <2>1, IdleDesk, DeskAloneMoves
<1>5. CASE i \in AppRows
  <2> PICK n : n = appRow[i].name
    OBVIOUS
  <2> DEFINE applying == {d \in OfApp(i) : releases[d].pc = "apply"}
             resyncs  == {e \in Desks(i, c) : desk[e].pc = "resync"}
  <2>1. /\ appRow' = [appRow EXCEPT ![i] = NoApp]
        /\ releases' = [d \in DOMAIN releases |->
                          IF d \in OfApp(i) THEN [releases[d] EXCEPT !.row = FALSE]
                                            ELSE releases[d]]
        /\ handed' = IF copy.ejected THEN handed ELSE [handed EXCEPT ![n] = 0]
        /\ strayed' = strayed \cup
                        (IF applying # {} \/ resyncs # {} \/ appRow[i] # copy
                         THEN {n, copy.name} ELSE {})
    BY <1>5 DEF DeletesAppRow, Strays
  <2>2. appRow[i] \in AppRow /\ n \in AppNames /\ copy.name \in AppNames
    BY <1>2, <1>5, RowsAreApps DEF AppInv, AppRow
  <2>3. /\ appRow' \in [AppIdRange -> AppRow \cup {NoApp}] /\ appRow'[i] = NoApp
        /\ \A j \in AppIdRange : j # i => appRow'[j] = appRow[j]
    BY <1>2, <2>1 DEF AppInv, AppShape
  <2>4. AppRows' = AppRows \ {i} /\ \A j \in AppRows : j # i => appRow'[j] = appRow[j]
    BY <2>3 DEF AppRows
  <2>5. Managed' = Managed \ {i}
    BY <2>4 DEF Managed
  <2>6. strayed \subseteq strayed' /\ strayed' \subseteq AppNames
    BY <1>2, <2>1, <2>2
  <2>7. \A j, m : OwnsName(j, m) => OwnsName(j, m)' \/ (j = i /\ m = n)
    BY <2>4, <2>5, <2>6 DEF OwnsName, Managed
  <2>8. \A j, m : m \in strayed' => OwnsName(j, m)'
    BY DEF OwnsName
  <2>9. /\ applying # {} => n \in strayed'
        /\ resyncs # {} => n \in strayed'
        /\ appRow[i] # copy => n \in strayed'
    BY <2>1
  <2>10. /\ releases' \in Seq(Release) /\ Len(releases') = Len(releases)
         /\ DOMAIN releases' = DOMAIN releases
    <3>1. \A d \in DOMAIN releases :
              releases[d] \in Release /\ [releases[d] EXCEPT !.row = FALSE] \in Release
      <4>1. \A o \in Release : [o EXCEPT !.row = FALSE] \in Release
        BY DEF Release
      <4> QED
        BY <1>2, <4>1
    <3>2. Len(releases) \in Nat /\ DOMAIN releases = 1 .. Len(releases)
      BY <1>2, LenProperties
    <3>3. releases' \in [1 .. Len(releases) -> Release]
      BY <2>1, <3>1, <3>2
    <3>4. releases' \in Seq(Release)
      BY <3>2, <3>3, SeqDef
    <3> QED
      BY <3>2, <3>3, <3>4, LenProperties
  <2>11. ASSUME NEW d \in DOMAIN releases, NEW q, q = releases'[d]  PROVE ReleaseOK(q)'
    <3> PICK o : o = releases[d]
      OBVIOUS
    <3>1. ReleaseOK(o) /\ o \in Release
      BY <1>2 DEF AppInv, ReleasesOK
    <3>2. ASSUME o.pc = "restore", (o.app \in AppRows)'
          PROVE  OwnsName(o.app, appRow[o.app].name)'
      <4>1. o.app \in AppRows /\ o.app # i
        BY <2>4, <3>2
      <4>2. OwnsName(o.app, appRow[o.app].name)
        BY <3>1, <3>2, <4>1 DEF ReleaseOK
      <4> QED
        BY <2>4, <2>7, <4>1, <4>2
    <3>3. CASE o.row /\ o.app = i
      <4>1. q = [o EXCEPT !.row = FALSE]
        BY <2>1, <2>11, <3>3 DEF OfApp
      <4>2. ~ q.row /\ q.pc = o.pc /\ q.app = o.app /\ q.name = o.name
        BY <3>1, <4>1 DEF Release
      <4>3. q.pc = "apply" => q.name \in strayed'
        <5>1. ASSUME q.pc = "apply"  PROVE q.name \in strayed'
          <6>1. n \in strayed'
            BY <2>9, <3>3, <4>2, <5>1 DEF OfApp
          <6>2. OwnsName(i, q.name)
            BY <3>1, <3>3, <4>2, <5>1 DEF ReleaseOK
          <6> QED
            BY <2>6, <6>1, <6>2 DEF OwnsName
        <5> QED
          BY <5>1
      <4> QED
        BY <3>2, <4>2, <4>3 DEF ReleaseOK
    <3>4. CASE ~ (o.row /\ o.app = i)
      <4>1. q = o
        BY <2>1, <2>11, <3>4 DEF OfApp
      <4>2. o.row => (o.app \in AppRows)' /\ (OwnsName(o.app, o.name) => OwnsName(o.app, o.name)')
        BY <2>4, <2>7, <3>1, <3>4 DEF ReleaseOK
      <4> QED
        BY <2>6, <3>1, <3>2, <4>1, <4>2 DEF ReleaseOK
    <3> QED
      BY <3>3, <3>4
  <2>12. ASSUME NEW e \in AppClients, NEW k, e # c, k = desk[e]  PROVE DeskOK(k)'
    <3>1. DeskOK(k)
      BY <2>12 DEF AppInv, DesksOK
    <3>2. ASSUME k.pc \in {"sync", "resync"}, (k.id \in AppRows)'
          PROVE  OwnsName(k.id, appRow[k.id].name)'
      <4>1. k.id \in AppRows /\ k.id # i
        BY <2>4, <3>2
      <4>2. OwnsName(k.id, appRow[k.id].name)
        BY <3>1, <3>2, <4>1 DEF DeskOK
      <4> QED
        BY <2>4, <2>7, <4>1, <4>2
    <3>3. ASSUME k.pc = "resync"  PROVE OwnsName(k.id, k.copy.name)'
      <4>1. OwnsName(k.id, k.copy.name)
        BY <3>1, <3>3 DEF DeskOK
      <4>2. ASSUME k.id = i  PROVE n \in strayed'
        <5>1. e \in resyncs
          BY <2>12, <3>3, <4>2 DEF Desks
        <5> QED
          BY <2>9, <5>1
      <4> QED
        BY <2>7, <2>8, <4>1, <4>2
    <3> QED
      BY <1>1, <2>6, <3>1, <3>2, <3>3 DEF DeskOK
  <2>13. desk' \in [AppClients -> DeskShape] /\ DesksOK'
    BY <1>1, <1>3, <2>12, IdleDesk, OneDeskMoves
  <2>14. AppShape'
    <3>1. 0 \in ReleaseNos
      BY Bounds DEF ReleaseNos
    <3>2. handed' \in [AppNames -> ReleaseNos]
      BY <2>1, <2>2, <3>1 DEF AppInv, AppShape
    <3> QED
      BY <1>1, <2>3, <2>6, <2>10, <2>13, <3>2 DEF AppInv, AppShape
  <2>15. ReleasesOK'
    BY <2>10, <2>11 DEF ReleasesOK
  <2>16. AppsLeftAlone'
    <3> SUFFICES ASSUME NEW m \in AppNames, m \notin strayed', RowsOf(m)' \cap Managed' = {}
                 PROVE  objects'[m] = handed'[m]
      BY DEF AppsLeftAlone
    <3>1. CASE m = n
      <4>1. appRow[i] = copy /\ copy.name = n /\ n \notin strayed
        BY <2>6, <2>9, <3>1
      <4>2. CASE copy.ejected
        <5>1. i \notin Managed
          BY <4>1, <4>2 DEF Managed
        <5>2. RowsOf(m) \cap Managed = {}
          BY <2>4, <2>5, <5>1 DEF RowsOf, Managed
        <5> QED
          BY <1>1, <2>1, <3>1, <4>1, <4>2, <5>2 DEF AppInv, AppsLeftAlone
      <4>3. CASE ~ copy.ejected
        <5>1. objects[n] = 0
          BY <1>1, <4>1, <4>3 DEF DeskOK
        <5> QED
          BY <1>1, <2>1, <2>2, <3>1, <4>3, <5>1 DEF AppInv, AppShape
      <4> QED
        BY <4>2, <4>3
    <3>2. CASE m # n
      <4>1. RowsOf(m) \cap Managed = {}
        BY <2>4, <2>5, <3>2 DEF RowsOf, Managed
      <4>2. objects[m] = handed[m]
        BY <2>6, <4>1 DEF AppInv, AppsLeftAlone
      <4> QED
        BY <1>1, <2>1, <3>2, <4>2 DEF AppInv, AppShape
    <3> QED
      BY <3>1, <3>2
  <2> QED
    BY <2>13, <2>14, <2>15, <2>16 DEF AppInv
<1> QED
  BY <1>4, <1>5

--------------------------------
\* A restart, and the theorems.

\* A restart resumes the deploys that have a row and have not ended.
LEMMA RestartPreserves == AppInv /\ AppsRestart => AppInv'
<1> SUFFICES ASSUME AppInv, AppsRestart  PROVE AppInv'
  OBVIOUS
<1>1. /\ UNCHANGED <<appRow, objects, handed, strayed>>
      /\ desk' = [c \in AppClients |-> NoDesk]
      /\ releases \in Seq(Release)
  BY DEF AppsRestart, AppInv, AppShape
<1>2. PICK lost : releases' = Resumed(lost)
  BY DEF AppsRestart
<1>3. DOMAIN releases' = DOMAIN releases
  BY <1>2 DEF Resumed
<1>4. ASSUME NEW d \in DOMAIN releases, NEW q, q = releases'[d]
      PROVE  q \in Release /\ ReleaseOK(q)'
  <2> PICK o : o = releases[d]
    OBVIOUS
  <2>1. o \in Release /\ ReleaseOK(o)
    BY <1>1 DEF AppInv, ReleasesOK
  <2>2. q = IF ~ o.row THEN [o EXCEPT !.pc = "none"]
            ELSE CASE o.status = "building" /\ d \notin lost -> [o EXCEPT !.pc = "build"]
                   [] o.status = "building" /\ d \in lost ->
                         [o EXCEPT !.pc = "none", !.status = "failed"]
                   [] o.status = "deploying" -> [o EXCEPT !.pc = "apply"]
                   [] OTHER -> [o EXCEPT !.pc = "none"]
    BY <1>2, <1>4 DEF Resumed
  <2>3. /\ q \in Release /\ q.row = o.row /\ q.app = o.app /\ q.name = o.name
        /\ q.pc \in {"none", "build", "apply"} /\ (~ o.row => q.pc = "none")
    <3>1. \A pc \in {"none", "build", "apply"} : [o EXCEPT !.pc = pc] \in Release
      BY <2>1 DEF Release, ReleasePCs
    <3>2. [o EXCEPT !.pc = "none", !.status = "failed"] \in Release
      BY <2>1 DEF Release, ReleasePCs
    <3>3. q \in Release
      BY <2>2, <3>1, <3>2
    <3>4. q.row = o.row /\ q.app = o.app /\ q.name = o.name
      BY <2>1, <2>2 DEF Release
    <3>5. q.pc \in {"none", "build", "apply"} /\ (~ o.row => q.pc = "none")
      <4>1. CASE ~ o.row
        BY <2>1, <2>2, <4>1 DEF Release
      <4>2. CASE o.row /\ o.status = "building"
        BY <2>1, <2>2, <4>2 DEF Release
      <4>3. CASE o.row /\ o.status # "building"
        BY <2>1, <2>2, <4>3 DEF Release
      <4> QED
        BY <4>1, <4>2, <4>3
    <3> QED
      BY <3>3, <3>4, <3>5
  <2>4. o.row => /\ q.pc = "build" <=> q.status = "building"
                 /\ q.pc = "apply" <=> q.status = "deploying"
                 /\ q.pc \in {"build", "apply"} => o.pc \in {"build", "apply", "gate"}
    <3>1. CASE o.row /\ o.status = "building"
      BY <2>1, <2>2, <3>1 DEF Release, ReleaseOK
    <3>2. CASE o.row /\ o.status = "deploying"
      BY <2>1, <2>2, <3>2 DEF Release, ReleaseOK
    <3>3. CASE o.row /\ o.status \in {"live", "failed"}
      BY <2>1, <2>2, <3>3 DEF Release, ReleaseOK
    <3> QED
      BY <2>1, <3>1, <3>2, <3>3 DEF Release
  <2>5. ReleaseOK(q)
    BY <2>1, <2>3, <2>4 DEF ReleaseOK
  <2> QED
    BY <1>1, <2>3, <2>5, ReleaseStays
<1>5. /\ releases' \in Seq(Release) /\ Len(releases') = Len(releases)
  <2>1. Len(releases) \in Nat /\ DOMAIN releases = 1 .. Len(releases)
    BY <1>1, LenProperties
  <2>2. releases' \in [1 .. Len(releases) -> Release]
    <3>1. releases' = [d \in DOMAIN releases |-> releases'[d]]
      <4>1. \A f : f = Resumed(lost) => f = [d \in DOMAIN releases |-> f[d]]
        BY DEF Resumed
      <4> QED
        BY <1>2, <4>1
    <3>2. \A d \in 1 .. Len(releases) : releases'[d] \in Release
      BY <1>4, <2>1
    <3> QED
      BY <2>1, <3>1, <3>2
  <2>3. releases' \in Seq(Release)
    BY <2>1, <2>2, SeqDef
  <2> QED
    BY <1>3, <2>1, <2>3, LenProperties
<1>6. ReleasesOK'
  BY <1>3, <1>4 DEF ReleasesOK
<1>7. DesksOK'
  BY <1>1 DEF DesksOK, DeskOK, NoDesk
<1>8. AppShape'
  <2>1. appTally' \in [calls : 0 .. MaxAppCalls, faults : SUBSET AppFaults]
    BY FaultNoted DEF AppsRestart
  <2>2. desk' \in [AppClients -> DeskShape]
    BY <1>1, IdleDesk
  <2> QED
    BY <1>1, <1>5, <2>1, <2>2 DEF AppInv, AppShape
<1>9. AppsLeftAlone'
  BY <1>1, AloneStays DEF AppInv
<1> QED
  BY <1>6, <1>7, <1>8, <1>9 DEF AppInv

LEMMA AppStep == AppInv /\ [AppNext]_appVars => AppInv'
<1> SUFFICES ASSUME AppInv, [AppNext]_appVars  PROVE AppInv'
  OBVIOUS
<1>1. ASSUME NEW n \in AppNames, CreatesApp(n)  PROVE AppInv'
  BY <1>1, CreatesPreserves
<1>2. ASSUME NEW c \in AppClients, DeskStep(c)  PROVE AppInv'
  BY <1>2, AskingPreserves, InsertsPreserves, SyncReadsPreserves, SyncAppliesPreserves,
     EjectsPreserves, AdoptsPreserves, DeletesObjectsPreserves, DeletesRowPreserves
     DEF DeskStep
<1>3. ASSUME NEW d \in DOMAIN releases, ReleaseStep(d)  PROVE AppInv'
  BY <1>3, BuildSucceedsPreserves, BuildFailsPreserves, AppliesPreserves, GatePreserves,
     FindsPreserves, RollsBackPreserves DEF ReleaseStep
<1>4. CASE AppsRestart
  BY <1>4, RestartPreserves
<1>5. CASE UNCHANGED appVars
  BY <1>5 DEF appVars, AppInv, AppShape, ReleasesOK, ReleaseOK, DesksOK, DeskOK, AppsLeftAlone,
     OwnsName, Managed, AppRows, RowsOf
<1> QED
  BY <1>1, <1>2, <1>3, <1>4, <1>5 DEF AppNext

\* The tables, the goroutines and the objects keep their shape (apps.go, eject.go).
THEOREM AppsTyped == AppSpec => []AppTypeOK
<1>1. AppInv => AppTypeOK
  BY DEF AppInv, AppShape, AppTypeOK, DeskShape
<1> QED
  BY <1>1, AppsInitially, AppStep, PTL DEF AppSpec

\* An ejected app stays as it was handed over and a destroyed one stays gone, whatever
\* still runs of it (ejectApp, destroyApp, finishDeploy, rollback, reconcileUnfinished).
THEOREM AppsLeftAloneAlways == AppSpec => []AppsLeftAlone
<1>1. AppInv => AppsLeftAlone
  BY DEF AppInv
<1> QED
  BY <1>1, AppsInitially, AppStep, PTL DEF AppSpec

--------------------------------
\* Addons: what a request relies on for the name it works on.

\* What an environment may be rendered to: no two URLs have one key.
UrlSets == {U \in SUBSET Url : \A u, v \in U : u.key = v.key => u = v}

CallRecord ==
    [pc : CallerPCs, kind : AllAddonKinds \cup {NoCall.kind}, name : AddonNames \cup {NoCall.name},
     id : 0 .. MaxAddonId, row : AddonRow \cup {NoAddon}, urls : UrlSets]

WorkRecord ==
    [status : {"deploying", "live", "failed"}, urls : UrlSets,
     pc : {"idle", "render", "apply", "gate"}]

AddonTally == [minted : 0 .. MaxMinted, calls : 0 .. MaxCalls, faults : SUBSET AddonFaultKinds]

AddonTypes ==
    /\ addon \in [AddonIds -> AddonRow \cup {NoAddon}] /\ attached \subseteq AddonRows
    /\ instance \in [AddonNames -> Instance] /\ urls \in UrlSets
    /\ caller \in [AddonClients -> CallRecord] /\ appWork \in WorkRecord
    /\ wanted \subseteq AddonNames /\ astray \subseteq AddonNames
    /\ outdated \in BOOLEAN /\ tally \in AddonTally

\* Where a request on an addon can be, for what it asks.
CallLegal(q) ==
    q.pc # "idle" =>
        /\ q.name \in AddonNames /\ q.kind \in AllAddonKinds
        /\ q.kind \in Removals <=> q.pc \in {"check", "objects", "volume", "row"}
        /\ q.pc = "volume" => q.kind # "keep"
        /\ q.pc # "insert" => q.id \in AddonIds

RowNamed(i, n) == addon[i] # NoAddon /\ addon[i].name = n

\* No two rows have one name.
NamesOwn == \A i, j \in AddonRows : addon[i].name = addon[j].name => i = j

CallsKnow(n) ==
    \A c \in CallsOn(n) :
        /\ caller[c].pc # "insert" => RowNamed(caller[c].id, n) /\ caller[c].row = addon[caller[c].id]
        /\ caller[c].pc \in {"objects", "volume", "row"} => caller[c].id \notin attached
        /\ caller[c].kind \in Removals => CallsOn(n) = {c}

AttachedAsWanted(n) == n \in wanted <=> \E i \in attached : addon[i].name = n

\* No request on the name has a sync to do.
NoSync(n) == \A c \in CallsOn(n) : caller[c].pc \notin {"sync", "render", "send"}

UrlsInStep(n) ==
    ~ outdated /\ NoSync(n) =>
        /\ \A u \in urls : u.name = n =>
              \E i \in attached : addon[i].name = n /\ addon[i].password = u.password
        /\ \A i \in attached : addon[i].name = n => \E u \in urls : u.name = n

Running(p) == [up |-> TRUE, secret |-> p, volume |-> p]

ObjectsInStep(n) ==
    /\ AddonsOf(n) = {} => instance[n] = NoInstance
    /\ \A c \in CallsOn(n) :
          /\ caller[c].pc = "volume" => ~ instance[n].up /\ instance[n].secret = 0
          /\ caller[c].pc = "row" /\ caller[c].kind # "keep" => instance[n] = NoInstance
    /\ \A i \in AddonsOf(n) :
          \/ instance[n] = Running(addon[i].password)
          \/ instance[n] = NoInstance /\ \E c \in CallsOn(n) : caller[c].pc = "apply"
          \/ \E c \in CallsOn(n) : caller[c].pc \in {"volume", "row"}

AddonInStep(n) ==
    CallsKnow(n) /\ AttachedAsWanted(n) /\ UrlsInStep(n) /\ ObjectsInStep(n)

AddonInv ==
    /\ AddonTypes
    /\ \A c \in AddonClients : CallLegal(caller[c])
    /\ NamesOwn
    /\ \A n \in AddonNames \ astray : AddonInStep(n)

LEMMA AddonConstants ==
    /\ IsFiniteSet(AddonNames) /\ IsFiniteSet(AddonClients)
    /\ AddonKinds \subseteq AllAddonKinds /\ AddonFaults \subseteq AddonFaultKinds
    /\ MaxAddonId \in Nat /\ MaxAddonId # 0 /\ MaxMinted \in Nat /\ MaxCalls \in Nat
<1>1. MaxAddonId \in Nat \ {0}
  BY AddonAssumption, Zenon
<1>2. MaxAddonId \in Nat /\ MaxAddonId # 0
  BY <1>1, Zenon
<1> QED
  BY <1>2, AddonAssumption, Zenon

LEMMA NoAddonName == NoAddon.name = ""
  BY Zenon DEF NoAddon

LEMMA NoAddonIsNoRow ==
    /\ NoAddon \notin AddonRow /\ NoAddon.name \notin AddonNames
    /\ NoAddon.password = 0
<1>1. NoAddon.name = "" /\ NoAddon.password = 0
  BY Zenon DEF NoAddon
<1>2. "" \notin AddonNames
  BY AddonAssumption, Zenon
<1>3. \A r \in AddonRow : r.name \in AddonNames
  BY DEF AddonRow
<1> QED
  BY <1>1, <1>2, <1>3, Zenon

LEMMA NothingRendered == {} \in UrlSets /\ \A U \in UrlSets : U \subseteq Url
  BY DEF UrlSets

LEMMA NoCallIsIdle ==
    /\ NoCall \in CallRecord /\ NoCall.pc = "idle" /\ NoCall.name = NoAddon.name
<1>1. /\ NoCall.pc = "idle" /\ NoCall.name = "" /\ NoCall.kind = "" /\ NoCall.id = 0
      /\ NoCall.row = NoAddon /\ NoCall.urls = {}
  BY Zenon DEF NoCall
<1>2. NoCall = [pc |-> NoCall.pc, kind |-> NoCall.kind, name |-> NoCall.name,
                id |-> NoCall.id, row |-> NoCall.row, urls |-> NoCall.urls]
  BY Zenon DEF NoCall
<1>3. 0 \in 0 .. MaxAddonId /\ "idle" \in CallerPCs /\ {} \in UrlSets
  BY AddonConstants, NothingRendered DEF CallerPCs
<1>4. NoCall \in CallRecord
  BY <1>1, <1>2, <1>3 DEF CallRecord
<1> QED
  BY <1>1, <1>4, NoAddonName, Zenon

\* What a row is when there is one.
LEMMA AddonRowsAre ==
    ASSUME AddonTypes
    PROVE  /\ \A i \in AddonRows : i \in AddonIds /\ addon[i] \in AddonRow /\ addon[i].name \in AddonNames
           /\ \A i \in AddonIds, n \in AddonNames : addon[i].name = n => i \in AddonRows
           /\ attached \subseteq AddonRows /\ AddonRows \in SUBSET Nat
<1>1. \A i \in AddonIds : addon[i] \in AddonRow \cup {NoAddon} /\ i \in Nat
  BY AddonConstants DEF AddonTypes, AddonIds
<1>2. \A r \in AddonRow : r.name \in AddonNames /\ r # NoAddon
  BY NoAddonIsNoRow DEF AddonRow
<1> QED
  BY <1>1, <1>2, NoAddonIsNoRow DEF AddonTypes, AddonRows

\* One URL for each attached addon, each under its own key.
LEMMA InjectedIs ==
    ASSUME AddonTypes, NamesOwn
    PROVE  /\ Current \in UrlSets
           /\ \A i \in attached : \E u \in Current : u.name = addon[i].name
           /\ \A u \in Current :
                 \E i \in attached : u.name = addon[i].name /\ u.password = addon[i].password
<1> DEFINE Key(i) == IF \A j \in attached : i <= j THEN NoAddon.name ELSE addon[i].name
           UrlOf(i) == [key |-> Key(i), name |-> addon[i].name, password |-> addon[i].password]
<1>1. Current = {UrlOf(i) : i \in attached}
  <2>1. NoAddon.name = ""
    BY NoAddonName, Zenon
  <2> QED
    BY <2>1, Zenon DEF Current, Injected
<1>2. Url = [key : AddonNames \cup {NoAddon.name}, name : AddonNames, password : Passwords]
  <2>1. NoAddon.name = ""
    BY NoAddonName, Zenon
  <2> QED
    BY <2>1, Zenon DEF Url
<1>3. \A i \in attached : /\ addon[i].name \in AddonNames /\ addon[i].password \in Passwords
                          /\ i \in AddonRows /\ i \in Nat
  BY AddonRowsAre DEF AddonRow
<1>4. \A i \in attached : UrlOf(i) \in Url
  BY <1>2, <1>3
<1>5. \A i, j \in attached : Key(i) = Key(j) => i = j
  <2>1. TAKE i, j \in attached
  <2>2. CASE (\A k \in attached : i <= k) /\ (\A k \in attached : j <= k)
    <3>1. i \in Nat /\ j \in Nat /\ i <= j /\ j <= i
      BY <1>3, <2>2
    <3> QED
      BY <3>1
  <2>3. CASE ~ (\A k \in attached : i <= k) /\ ~ (\A k \in attached : j <= k)
    BY <1>3, <2>3 DEF NamesOwn
  <2>4. NoAddon.name # addon[i].name /\ NoAddon.name # addon[j].name
    BY <1>3, NoAddonIsNoRow
  <2> QED
    BY <2>2, <2>3, <2>4
<1>6. \A i, j \in attached : UrlOf(i).key = UrlOf(j).key => UrlOf(i) = UrlOf(j)
  BY <1>5
<1>7. \A i \in attached : UrlOf(i).name = addon[i].name /\ UrlOf(i).password = addon[i].password
  OBVIOUS
<1> HIDE DEF UrlOf
<1>8. Current \in UrlSets
  BY <1>1, <1>4, <1>6 DEF UrlSets
<1> QED
  BY <1>1, <1>7, <1>8

--------------------------------
\* Steps that leave a name alone, and steps of one request.

OnName(q, n) == q.pc # "idle" /\ q.name = n

Untouched(n) ==
    /\ \A d \in AddonClients :
          OnName(caller[d], n) \/ OnName(caller'[d], n) => caller'[d] = caller[d]
    /\ \A i \in AddonIds : addon[i].name = n \/ addon'[i].name = n =>
          addon'[i] = addon[i] /\ (i \in attached' <=> i \in attached)
    /\ n \in wanted' <=> n \in wanted
    /\ instance'[n] = instance[n]
    /\ urls' = urls /\ outdated' = outdated

LEMMA CallsOnAre ==
    /\ \A n, c : c \in CallsOn(n) <=> c \in AddonClients /\ OnName(caller[c], n)
    /\ \A n, c : c \in CallsOn(n)' <=> c \in AddonClients /\ OnName(caller'[c], n)
  BY DEF CallsOn, OnName

LEMMA UntouchedCalls ==
    ASSUME NEW n \in AddonNames, Untouched(n)
    PROVE  /\ CallsOn(n)' = CallsOn(n)
           /\ \A c \in CallsOn(n) : caller'[c] = caller[c]
  BY CallsOnAre DEF Untouched

LEMMA UntouchedRows ==
    ASSUME AddonTypes, AddonTypes', NEW n \in AddonNames, Untouched(n)
    PROVE  /\ AddonsOf(n)' = AddonsOf(n)
           /\ \A i \in AddonsOf(n) : addon'[i] = addon[i]
           /\ \A i \in AddonIds : RowNamed(i, n) => RowNamed(i, n)' /\ addon'[i] = addon[i]
           /\ \A i : i \in attached /\ addon[i].name = n => i \in attached' /\ addon'[i] = addon[i]
           /\ \A i : i \in attached' /\ addon'[i].name = n => i \in attached /\ addon'[i] = addon[i]
<1>1. AddonRows \subseteq AddonIds /\ (AddonRows \subseteq AddonIds)'
  BY DEF AddonRows
<1>2. attached \subseteq AddonIds /\ attached' \subseteq AddonIds
  BY <1>1 DEF AddonTypes
<1> QED
  BY <1>1, <1>2 DEF AddonsOf, AddonRows, Untouched, RowNamed

LEMMA UntouchedInStep ==
    ASSUME AddonTypes, AddonTypes', \A c \in AddonClients : CallLegal(caller[c]),
           NEW n \in AddonNames, Untouched(n), AddonInStep(n)
    PROVE  AddonInStep(n)'
<1> USE UntouchedCalls, UntouchedRows
<1>1. CallsKnow(n)'
  <2>1. \A c \in CallsOn(n) : c \in AddonClients /\ caller[c].pc # "idle"
    BY CallsOnAre DEF OnName
  <2> QED
    BY <2>1 DEF AddonInStep, CallsKnow, CallLegal, RowNamed
<1>2. AttachedAsWanted(n)'
  BY DEF AddonInStep, AttachedAsWanted, Untouched
<1>3. UrlsInStep(n)'
  BY DEF AddonInStep, UrlsInStep, NoSync, Untouched
<1>4. ObjectsInStep(n)'
  BY DEF AddonInStep, ObjectsInStep, Untouched
<1> QED
  BY <1>1, <1>2, <1>3, <1>4 DEF AddonInStep

\* A request moves on.
LEMMA CallMoved ==
    ASSUME AddonTypes, NEW c \in AddonClients, NEW pc \in CallerPCs, CallAt(c, pc)
    PROVE  /\ caller' \in [AddonClients -> CallRecord]
           /\ \A d \in AddonClients : d # c => caller'[d] = caller[d]
           /\ caller'[c].pc = pc /\ caller'[c].kind = caller[c].kind
           /\ caller'[c].name = caller[c].name /\ caller'[c].id = caller[c].id
           /\ caller'[c].row = caller[c].row
<1>1. caller[c] \in CallRecord
  BY DEF AddonTypes
<1>2. PICK e \in CallRecord : e = [caller[c] EXCEPT !.pc = pc]
  BY <1>1 DEF CallRecord
<1>3. caller' = [caller EXCEPT ![c] = e]
  BY <1>2 DEF CallAt
<1>4. e.pc = pc /\ e.kind = caller[c].kind /\ e.name = caller[c].name /\ e.id = caller[c].id
      /\ e.row = caller[c].row
  BY <1>1, <1>2 DEF CallRecord
<1> QED
  BY <1>3, <1>4 DEF AddonTypes

\* A request ends.
LEMMA CallAnswered ==
    ASSUME AddonTypes, NEW c \in AddonClients, Answered(c)
    PROVE  /\ caller' \in [AddonClients -> CallRecord]
           /\ \A d \in AddonClients : d # c => caller'[d] = caller[d]
           /\ caller'[c].pc = "idle"
  BY NoCallIsIdle DEF AddonTypes, Answered

\* What a step of one request leaves of the requests on each name.
LEMMA CallsLeft ==
    ASSUME AddonTypes, NEW c \in AddonClients,
           \A d \in AddonClients : d # c => caller'[d] = caller[d],
           caller'[c].pc = "idle" \/ caller'[c].name = caller[c].name,
           caller[c].pc # "idle"
    PROVE  /\ \A n : CallsOn(n)' \subseteq CallsOn(n)
           /\ \A n : n # caller[c].name => CallsOn(n)' = CallsOn(n)
           /\ \A n : c \in CallsOn(n)' <=> caller'[c].pc # "idle" /\ n = caller[c].name
           /\ \A n, d : d # c => (d \in CallsOn(n)' <=> d \in CallsOn(n))
           /\ c \in CallsOn(caller[c].name)
  BY CallsOnAre DEF OnName

--------------------------------
\* The steps.

LEMMA AddonInitially == AddonInit => AddonInv
<1> SUFFICES ASSUME AddonInit  PROVE AddonInv
  OBVIOUS
<1> USE DEF AddonInit
<1>1. AddonRows = {} /\ \A n : AddonsOf(n) = {}
  BY DEF AddonRows, AddonsOf
<1>2. \A n : CallsOn(n) = {}
  BY NoCallIsIdle DEF CallsOn
<1>3. AddonTypes
  <2>1. NoInstance \in Instance
    BY AddonConstants DEF NoInstance, Instance, Passwords
  <2>2. tally \in AddonTally
    BY AddonConstants DEF AddonTally
  <2>3. urls \in UrlSets /\ appWork \in WorkRecord
    BY NothingRendered DEF WorkRecord
  <2> QED
    BY <1>1, <2>1, <2>2, <2>3, NoCallIsIdle DEF AddonTypes
<1>4. \A c \in AddonClients : CallLegal(caller[c])
  BY NoCallIsIdle DEF CallLegal
<1>5. NamesOwn
  BY <1>1 DEF NamesOwn
<1>6. \A n \in AddonNames : AddonInStep(n)
  BY <1>1, <1>2 DEF AddonInStep, CallsKnow, AttachedAsWanted, UrlsInStep, ObjectsInStep
<1> QED
  BY <1>3, <1>4, <1>5, <1>6 DEF AddonInv

\* A request begins.
Begins(kind, n, i, pc) ==
    /\ kind \in AllAddonKinds /\ n \in AddonNames
    /\ \/ pc = "insert" /\ kind \notin Removals /\ i = 0
       \/ pc \in {"attach", "detach", "version"} /\ kind \notin Removals /\ i \in AddonRows
       \/ pc = "check" /\ kind \in Removals /\ i \in AddonRows
    /\ i \in AddonRows => addon[i].name = n

LEMMA CallKeeps ==
    ASSUME AddonInv, NEW c \in AddonClients, NEW kind, NEW n, NEW i, NEW pc,
           Begins(kind, n, i, pc), Calls(c, kind, n, i, pc)
    PROVE  AddonInv'
<1>1. AddonTypes /\ AddonRows \in SUBSET Nat /\ 0 \notin AddonRows
  BY AddonRowsAre DEF AddonInv, AddonRows, AddonIds
<1>2. PICK e \in CallRecord : /\ e = [pc |-> pc, kind |-> kind, name |-> n, id |-> i,
                                      urls |-> {}, row |-> IF i = 0 THEN NoAddon ELSE addon[i]]
                              /\ e.pc = pc /\ e.kind = kind /\ e.name = n /\ e.id = i
                              /\ i \in AddonRows => e.row = addon[i]
  <2>1. pc \in CallerPCs /\ i \in 0 .. MaxAddonId
    BY AddonConstants DEF Begins, CallerPCs, AddonRows, AddonIds
  <2>2. (IF i = 0 THEN NoAddon ELSE addon[i]) \in AddonRow \cup {NoAddon}
    BY <1>1, AddonRowsAre DEF Begins
  <2> QED
    <3>1. PICK r \in AddonRow \cup {NoAddon} :
              /\ r = (IF i = 0 THEN NoAddon ELSE addon[i])
              /\ i \in AddonRows => r = addon[i]
      BY <1>1, <2>2
    <3>2. kind \in AllAddonKinds /\ n \in AddonNames
      BY DEF Begins
    <3>3. [pc |-> pc, kind |-> kind, name |-> n, id |-> i, urls |-> {}, row |-> r] \in CallRecord
      BY <2>1, <3>1, <3>2, NothingRendered DEF CallRecord
    <3> QED
      BY <3>1, <3>3
<1>3. caller' = [caller EXCEPT ![c] = e]
  BY <1>2 DEF Calls
<1>4. /\ caller' \in [AddonClients -> CallRecord]
      /\ \A d \in AddonClients : d # c => caller'[d] = caller[d]
      /\ caller'[c] = e /\ caller[c].pc = "idle" /\ e.pc # "idle"
      /\ UNCHANGED <<addon, attached, instance, urls, appWork, wanted, outdated>>
      /\ astray \subseteq astray' /\ astray' \subseteq AddonNames
  BY <1>1, <1>2, <1>3 DEF AddonTypes, Calls, Begins
<1>5. /\ \A m : m # n => CallsOn(m)' = CallsOn(m)
      /\ CallsOn(n)' = CallsOn(n) \cup {c} /\ c \notin CallsOn(n)
      /\ \A m : c \notin CallsOn(m)
      /\ n \notin astray' =>
            \A d \in CallsOn(n) : kind \notin Removals /\ caller[d].kind \notin Removals
  <2>1. /\ ~ OnName(caller[c], n) /\ OnName(caller'[c], n)
        /\ \A m : ~ OnName(caller[c], m) /\ (m # n => ~ OnName(caller'[c], m))
        /\ \A m, d : d \in AddonClients /\ d # c => (OnName(caller'[d], m) <=> OnName(caller[d], m))
    BY <1>2, <1>4 DEF OnName
  <2>2. /\ \A m : m # n => CallsOn(m)' = CallsOn(m)
        /\ CallsOn(n)' = CallsOn(n) \cup {c}
        /\ \A m : c \notin CallsOn(m)
    <3>1. ASSUME NEW m  PROVE m # n => CallsOn(m)' = CallsOn(m)
      BY <2>1 DEF CallsOn, OnName
    <3>2. CallsOn(n)' = CallsOn(n) \cup {c}
      BY <2>1 DEF CallsOn, OnName
    <3>3. ASSUME NEW m  PROVE c \notin CallsOn(m)
      BY <2>1 DEF CallsOn, OnName
    <3> QED
      BY <3>1, <3>2, <3>3
  <2>3. ASSUME n \notin astray', NEW d \in CallsOn(n)
        PROVE  kind \notin Removals /\ caller[d].kind \notin Removals
    <3>1. {kind, caller[d].kind} \cap Removals = {}
      BY <2>3 DEF Calls
    <3> QED
      BY <3>1
  <2> QED
    BY <2>2, <2>3
<1>6. AddonTypes'
  <2>1. tally' \in AddonTally
    <3>1. PICK k : k = tally.calls + 1
      OBVIOUS
    <3>2. tally.calls \in 0 .. MaxCalls
      BY <1>1 DEF AddonTypes, AddonTally
    <3>3. k \in 0 .. MaxCalls
      BY <3>1, <3>2, AddonConstants DEF Calls
    <3>4. tally' = [tally EXCEPT !.calls = k]
      BY <3>1 DEF Calls
    <3> QED
      BY <1>1, <3>3, <3>4 DEF AddonTypes, AddonTally
  <2>2. AddonRows' = AddonRows
    BY <1>4 DEF AddonRows
  <2> QED
    BY <1>1, <1>4, <2>1, <2>2 DEF AddonTypes
<1>7. \A d \in AddonClients : CallLegal(caller'[d])
  <2>1. CallLegal(e)
    BY <1>1, <1>2, AddonRowsAre DEF CallLegal, Begins, Removals
  <2> QED
    BY <1>4, <2>1 DEF AddonInv
<1>8. NamesOwn'
  BY <1>4 DEF AddonInv, NamesOwn, AddonRows
<1>9. ASSUME NEW m \in AddonNames, m \notin astray'  PROVE AddonInStep(m)'
  <2>1. AddonInStep(m)
    BY <1>4, <1>9 DEF AddonInv
  <2>2. CASE m # n
    <3>1. Untouched(m)
      BY <1>2, <1>4, <2>2 DEF Untouched, OnName
    <3> QED
      BY <1>1, <1>6, <2>1, <3>1, UntouchedInStep DEF AddonInv
  <2>3. CASE m = n
    <3>1. \A d \in CallsOn(n) : caller'[d] = caller[d]
      BY <1>4, <1>5, CallsOnAre
    <3>2. AddonRows' = AddonRows /\ AddonsOf(n)' = AddonsOf(n)
      BY <1>4 DEF AddonRows, AddonsOf
    <3>3. CallsKnow(n)'
      <4>1. pc # "insert" => RowNamed(i, n) /\ e.row = addon[i]
        BY <1>2 DEF Begins, RowNamed, AddonRows
      <4>2. pc \notin {"objects", "volume", "row"}
        BY DEF Begins
      <4>3. kind \in Removals => CallsOn(n)' = {c}
        BY <1>5, <1>9, <2>3
      <4>4. \A d \in CallsOn(n) : caller[d].kind \in Removals => FALSE
        BY <1>5, <1>9, <2>3
      <4> QED
        BY <1>2, <1>4, <1>5, <2>1, <2>3, <3>1, <4>1, <4>2, <4>3, <4>4
           DEF AddonInStep, CallsKnow, RowNamed
    <3>4. AttachedAsWanted(n)'
      BY <1>4, <2>1, <2>3 DEF AddonInStep, AttachedAsWanted
    <3>5. UrlsInStep(n)'
      BY <1>4, <1>5, <2>1, <2>3, <3>1 DEF AddonInStep, UrlsInStep, NoSync
    <3>6. ObjectsInStep(n)'
      BY <1>2, <1>4, <1>5, <2>1, <2>3, <3>1, <3>2 DEF AddonInStep, ObjectsInStep, Begins
    <3> QED
      BY <2>3, <3>3, <3>4, <3>5, <3>6 DEF AddonInStep
  <2> QED
    BY <2>2, <2>3
<1> QED
  BY <1>6, <1>7, <1>8, <1>9 DEF AddonInv

LEMMA AskedKeeps ==
    ASSUME AddonInv, NEW c \in AddonClients,
           \/ AddonAsked(c) \/ AttachAsked(c) \/ DetachAsked(c) \/ UpgradeAsked(c)
           \/ RemoveAsked(c)
    PROVE  AddonInv'
<1>1. \A i \in AddonRows : addon[i].name \in AddonNames
  BY AddonRowsAre DEF AddonInv
<1>2. 0 \notin AddonRows
  BY DEF AddonRows, AddonIds
<1>3. PICK kind, n, i, pc : Begins(kind, n, i, pc) /\ Calls(c, kind, n, i, pc)
  BY <1>1, <1>2 DEF AddonAsked, AttachAsked, DetachAsked, UpgradeAsked, RemoveAsked, Begins,
                    Removals, AllAddonKinds
<1> QED
  BY <1>3, CallKeeps

\* A request ends without having changed anything: nobody counted on it.
LEMMA AnswerKeeps ==
    ASSUME AddonInv, NEW c \in AddonClients, Answered(c), caller[c].pc # "idle",
           \/ caller[c].pc \notin {"sync", "render", "send", "apply", "volume", "row"}
           \/ caller[c].pc \in {"sync", "send"} /\ outdated'
           \/ caller[c].name \in astray',
           UNCHANGED <<addon, attached, instance, urls, appWork, wanted>>,
           outdated' \in BOOLEAN, outdated => outdated',
           astray \subseteq astray', astray' \subseteq AddonNames,
           tally' \in AddonTally
    PROVE  AddonInv'
<1>1. /\ caller' \in [AddonClients -> CallRecord] /\ caller'[c].pc = "idle"
      /\ \A d \in AddonClients : d # c => caller'[d] = caller[d]
      /\ AddonTypes
  BY CallAnswered DEF AddonInv
<1>2. PICK n : n = caller[c].name
  OBVIOUS
<1>3. /\ \A m : CallsOn(m)' \subseteq CallsOn(m) \ {c}
      /\ \A m : m # n => CallsOn(m)' = CallsOn(m) /\ c \notin CallsOn(m)
      /\ CallsOn(n)' = CallsOn(n) \ {c}
      /\ \A m : \A d \in CallsOn(m)' : d \in AddonClients /\ caller'[d] = caller[d]
  <2>1. ASSUME NEW m  PROVE CallsOn(m)' = CallsOn(m) \ {c} /\ (m # n => c \notin CallsOn(m))
    BY <1>1, <1>2 DEF CallsOn
  <2>2. ASSUME NEW m, NEW d \in CallsOn(m)'  PROVE d \in AddonClients /\ d # c
    BY <1>1 DEF CallsOn
  <2>3. ASSUME NEW m  PROVE CallsOn(m)' \subseteq CallsOn(m) \ {c}
    BY <2>1
  <2>4. ASSUME NEW m  PROVE m # n => CallsOn(m)' = CallsOn(m) /\ c \notin CallsOn(m)
    BY <2>1
  <2>5. ASSUME NEW m, NEW d \in CallsOn(m)'  PROVE d \in AddonClients /\ caller'[d] = caller[d]
    BY <1>1, <2>2
  <2>6. CallsOn(n)' = CallsOn(n) \ {c}
    BY <2>1
  <2> QED
    BY <2>3, <2>4, <2>5, <2>6
<1>4. AddonRows' = AddonRows /\ \A m : AddonsOf(m)' = AddonsOf(m)
  BY DEF AddonRows, AddonsOf
<1>5. AddonTypes'
  BY <1>1, <1>4 DEF AddonTypes
<1>6. \A d \in AddonClients : CallLegal(caller'[d])
  BY <1>1 DEF AddonInv, CallLegal
<1>7. NamesOwn'
  BY <1>4 DEF AddonInv, NamesOwn
<1>8. ASSUME NEW m \in AddonNames, m \notin astray'  PROVE AddonInStep(m)'
  <2>1. AddonInStep(m)
    BY <1>8 DEF AddonInv
  <2>2. c \in CallsOn(m) => /\ caller[c].pc \notin {"apply", "volume", "row"}
                            /\ caller[c].pc \in {"sync", "render", "send"} => outdated'
    BY <1>2, <1>3, <1>8
  <2>3. \A d \in CallsOn(m) : d = c \/ d \in CallsOn(m)'
    BY <1>2, <1>3
  <2>4. CallsKnow(m)'
    BY <1>3, <2>1, <2>3 DEF AddonInStep, CallsKnow, RowNamed
  <2>5. AttachedAsWanted(m)'
    BY <2>1 DEF AddonInStep, AttachedAsWanted
  <2>6. UrlsInStep(m)'
    BY <1>3, <2>1, <2>2, <2>3 DEF AddonInStep, UrlsInStep, NoSync
  <2>7. ObjectsInStep(m)'
    BY <1>3, <1>4, <2>1, <2>2, <2>3 DEF AddonInStep, ObjectsInStep
  <2> QED
    BY <2>4, <2>5, <2>6, <2>7 DEF AddonInStep
<1> QED
  BY <1>5, <1>6, <1>7, <1>8 DEF AddonInv

LEMMA NextIdIsFree ==
    ASSUME AddonTypes
    PROVE  NextAddonId \notin AddonRows
<1>1. AddonRows \cup {0} \in SUBSET Nat /\ \A i \in AddonRows \cup {0} : i <= MaxAddonId
  BY AddonConstants DEF AddonRows, AddonIds
<1>2. /\ Max(AddonRows \cup {0}) \in AddonRows \cup {0}
      /\ \A i \in AddonRows \cup {0} : i <= Max(AddonRows \cup {0})
  <2>1. PICK S : S = AddonRows \cup {0}
    OBVIOUS
  <2>2. S \in SUBSET Nat /\ S # {} /\ MaxAddonId \in Nat /\ \A i \in S : i <= MaxAddonId
    BY <1>1, <2>1, AddonConstants
  <2>3. Max(S) \in S /\ \A i \in S : i <= Max(S)
    BY <2>2, MaxPicks
  <2> QED
    BY <2>1, <2>3
<1>3. PICK k \in Nat : k = Max(AddonRows \cup {0})
  BY <1>1, <1>2
<1>4. \A i \in AddonRows : i \in Nat /\ i <= k
  BY <1>1, <1>2, <1>3
<1> QED
  BY <1>3, <1>4 DEF NextAddonId

LEMMA InsertKeeps ==
    ASSUME AddonInv, NEW c \in AddonClients, InsertsAddon(c)
    PROVE  AddonInv'
<1>1. AddonTypes /\ caller[c] \in CallRecord /\ caller[c].pc = "insert" /\ caller[c].name \in AddonNames
      /\ caller[c].kind \in AllAddonKinds /\ caller[c].kind \notin Removals
  BY DEF AddonInv, AddonTypes, InsertsAddon, CallLegal
<1>0. PICK n, i : n = caller[c].name /\ i = NextAddonId
  OBVIOUS
<1> USE <1>0
<1>2. UNCHANGED <<attached, instance, urls, appWork, wanted, outdated, astray>>
  BY DEF InsertsAddon
<1>3. CASE AddonsOf(n) # {} /\ Answered(c) /\ UNCHANGED <<addon, tally>>
  <2>1. astray \subseteq astray' /\ astray' \subseteq AddonNames
    BY <1>1, <1>2 DEF AddonTypes
  <2>2. tally' \in AddonTally /\ outdated \in BOOLEAN
    BY <1>1, <1>3 DEF AddonTypes
  <2> QED
    BY <1>1, <1>2, <1>3, <2>1, <2>2, AnswerKeeps
<1>4. CASE /\ AddonsOf(n) = {} /\ i \in AddonIds /\ tally.minted < MaxMinted
           /\ addon' = [addon EXCEPT ![i] = [name |-> n, password |-> tally.minted + 1]]
           /\ tally' = [tally EXCEPT !.minted = @ + 1]
           /\ caller' = [caller EXCEPT ![c].pc = "apply", ![c].id = i,
                                       ![c].row = [name |-> n, password |-> tally.minted + 1]]
  <2>1. PICK k \in 0 .. MaxMinted : k = tally.minted + 1
    <3>1. tally.minted \in 0 .. MaxMinted
      BY <1>1 DEF AddonTypes, AddonTally
    <3> QED
      BY <1>4, <3>1, AddonConstants
  <2>2. PICK row \in AddonRow : row = [name |-> n, password |-> k]
    BY <1>1 DEF AddonRow, Passwords
  <2>3. row.name = n /\ row.password = k /\ row # NoAddon
    BY <2>2, NoAddonIsNoRow
  <2>4. PICK e \in CallRecord : e = [caller[c] EXCEPT !.pc = "apply", !.id = i, !.row = row]
    <3>1. "apply" \in CallerPCs /\ i \in 0 .. MaxAddonId
      BY <1>4, AddonConstants DEF CallerPCs, AddonIds
    <3> QED
      BY <1>1, <3>1 DEF CallRecord
  <2>5. e.pc = "apply" /\ e.kind = caller[c].kind /\ e.name = n /\ e.id = i /\ e.row = row
    BY <1>1, <2>4 DEF CallRecord
  <2>6. caller' = [caller EXCEPT ![c] = e] /\ addon' = [addon EXCEPT ![i] = row]
    BY <1>4, <2>1, <2>2, <2>4
  <2>7. /\ caller' \in [AddonClients -> CallRecord] /\ caller'[c] = e
        /\ \A d \in AddonClients : d # c => caller'[d] = caller[d]
        /\ addon' \in [AddonIds -> AddonRow \cup {NoAddon}] /\ addon'[i] = row
        /\ \A j \in AddonIds : j # i => addon'[j] = addon[j]
        /\ i \notin AddonRows /\ addon[i] = NoAddon /\ i \notin attached
    <3>1. i \notin AddonRows /\ addon[i] = NoAddon /\ i \notin attached
      BY <1>1, <1>4, NextIdIsFree DEF AddonTypes, AddonRows
    <3>2. i \in AddonIds
      BY <1>4
    <3> QED
      BY <1>1, <2>6, <3>1, <3>2 DEF AddonTypes
  <2>8. AddonRows' = AddonRows \cup {i}
    BY <1>4, <2>3, <2>7 DEF AddonRows
  <2>9. AddonTypes'
    <3>1. tally' = [tally EXCEPT !.minted = k]
      BY <1>4, <2>1
    <3>2. tally' \in AddonTally
      BY <1>1, <3>1 DEF AddonTypes, AddonTally
    <3> QED
      BY <1>1, <1>2, <2>7, <2>8, <3>2 DEF AddonTypes
  <2>10. /\ \A m : CallsOn(m)' = CallsOn(m)
         /\ \A m : c \in CallsOn(m) <=> m = n
    <3>1. ASSUME NEW m  PROVE CallsOn(m)' = CallsOn(m) /\ (c \in CallsOn(m) <=> m = n)
      BY <1>1, <2>5, <2>7 DEF CallsOn
    <3> QED
      BY <3>1
  <2>11. \A d \in AddonClients : CallLegal(caller'[d])
    <3>1. CallLegal(e)
      BY <1>1, <1>4, <2>5 DEF CallLegal
    <3> QED
      BY <2>7, <3>1 DEF AddonInv
  <2>12. NamesOwn'
    <3>1. \A j \in AddonRows : addon[j].name # n
      BY <1>4 DEF AddonsOf
    <3> QED
      BY <2>3, <2>7, <2>8, <3>1 DEF AddonInv, NamesOwn, AddonRows
  <2>14. ASSUME NEW m \in AddonNames, m \notin astray'  PROVE AddonInStep(m)'
    <3>1. AddonInStep(m)
      BY <1>2, <2>14 DEF AddonInv
    <3>2. CASE m # n
      <4>1. Untouched(m)
        <5>1. addon[i].name # m
          BY <2>7, NoAddonIsNoRow
        <5> QED
          BY <1>1, <1>2, <2>3, <2>5, <2>7, <3>2, <5>1 DEF Untouched, OnName
      <4> QED
        BY <1>1, <2>9, <3>1, <4>1, UntouchedInStep DEF AddonInv
    <3>3. CASE m = n
      <4>1. \A d \in CallsOn(n) : d # c => caller'[d] = caller[d] /\ caller[d].pc = "insert"
        <5>1. \A j \in AddonIds : ~ RowNamed(j, n)
          BY <1>4 DEF AddonsOf, AddonRows, RowNamed
        <5>2. \A d \in CallsOn(n) : caller[d].pc # "insert" => caller[d].id \in AddonIds
          BY CallsOnAre DEF AddonInv, CallLegal, OnName
        <5>3. \A d \in CallsOn(n) : caller[d].pc = "insert"
          BY <3>1, <3>3, <5>1, <5>2 DEF AddonInStep, CallsKnow
        <5> QED
          BY <2>7, <5>3, CallsOnAre
      <4>2. CallsKnow(n)'
        <5>1. RowNamed(i, n)'
          BY <2>3, <2>7 DEF RowNamed
        <5>2. e.kind \notin Removals
          BY <1>1, <2>5
        <5>3. \A d \in CallsOn(n) : caller[d].kind \in Removals => CallsOn(n) = {d}
          BY <3>1, <3>3 DEF AddonInStep, CallsKnow
        <5> QED
          BY <2>5, <2>7, <2>10, <4>1, <5>1, <5>2, <5>3 DEF CallsKnow
      <4>3. \A j \in attached : addon'[j] = addon[j]
        BY <1>1, <2>7 DEF AddonTypes, AddonRows
      <4>4. AttachedAsWanted(n)'
        BY <1>2, <3>1, <3>3, <4>3 DEF AddonInStep, AttachedAsWanted
      <4>5. UrlsInStep(n)'
        <5>1. NoSync(n)
          BY <1>1, <4>1 DEF NoSync
        <5> QED
          BY <1>2, <2>10, <3>1, <3>3, <4>3, <5>1 DEF AddonInStep, UrlsInStep
      <4>6. ObjectsInStep(n)'
        <5>1. AddonsOf(n)' = {i}
          BY <1>4, <2>3, <2>7, <2>8 DEF AddonsOf, AddonRows
        <5>2. instance[n] = NoInstance
          BY <1>4, <3>1, <3>3 DEF AddonInStep, ObjectsInStep
        <5> QED
          BY <1>2, <2>5, <2>7, <2>10, <4>1, <5>1, <5>2 DEF ObjectsInStep
      <4> QED
        BY <3>3, <4>2, <4>4, <4>5, <4>6 DEF AddonInStep
    <3> QED
      BY <3>2, <3>3
  <2> QED
    BY <2>9, <2>11, <2>12, <2>14 DEF AddonInv
<1> QED
  BY <1>3, <1>4 DEF InsertsAddon

\* A request on a name takes a step on its objects or its attachment.
Onward(c) ==
    /\ caller' \in [AddonClients -> CallRecord]
    /\ \A d \in AddonClients : d # c => caller'[d] = caller[d]
    /\ \/ caller'[c].pc = "idle"
       \/ /\ CallLegal(caller'[c]) /\ caller'[c].kind = caller[c].kind
          /\ caller'[c].name = caller[c].name /\ caller'[c].id = caller[c].id
          /\ caller'[c].row = caller[c].row

OnItsOwn(n) ==
    /\ attached' \subseteq AddonRows /\ wanted' \subseteq AddonNames
    /\ instance' \in [AddonNames -> Instance]
    /\ astray \subseteq astray' /\ astray' \subseteq AddonNames
    /\ UNCHANGED <<addon, urls, appWork, outdated>>
    /\ tally' \in AddonTally
    /\ \A m \in AddonNames \ astray' : m # n =>
          /\ \A i \in AddonRows : addon[i].name = m => (i \in attached' <=> i \in attached)
          /\ m \in wanted' <=> m \in wanted
          /\ instance'[m] = instance[m]

LEMMA StepKeeps ==
    ASSUME AddonInv, NEW c \in AddonClients, NEW n, n = caller[c].name, caller[c].pc # "idle",
           Onward(c), OnItsOwn(n),
           n \in AddonNames /\ n \notin astray' => AddonInStep(n)'
    PROVE  AddonInv'
<1>1. AddonTypes
  BY DEF AddonInv
<1>2. AddonRows' = AddonRows
  BY DEF OnItsOwn, AddonRows
<1>3. AddonTypes'
  BY <1>1, <1>2 DEF AddonTypes, Onward, OnItsOwn
<1>4. \A d \in AddonClients : CallLegal(caller'[d])
  BY DEF AddonInv, Onward, CallLegal
<1>5. NamesOwn'
  BY <1>2 DEF AddonInv, NamesOwn, OnItsOwn
<1>6. ASSUME NEW m \in AddonNames, m \notin astray', m # n  PROVE AddonInStep(m)'
  <2>1. AddonInStep(m)
    BY <1>6 DEF AddonInv, OnItsOwn
  <2>2. \A i \in AddonIds : addon[i].name = m => i \in AddonRows
    BY <1>1, AddonRowsAre
  <2>3. Untouched(m)
    BY <1>6, <2>2 DEF Untouched, Onward, OnItsOwn, OnName
  <2> QED
    BY <1>1, <1>3, <2>1, <2>3, UntouchedInStep DEF AddonInv
<1> QED
  BY <1>3, <1>4, <1>5, <1>6 DEF AddonInv

\* What is known of a request on a name that is not astray, and of the others on it.
LEMMA CallOnName ==
    ASSUME AddonInv, NEW c \in AddonClients, caller[c].pc # "idle", NEW n, n = caller[c].name
    PROVE  /\ n \in AddonNames /\ c \in CallsOn(n) /\ caller[c] \in CallRecord /\ CallLegal(caller[c])
           /\ caller[c].pc # "insert" => caller[c].id \in AddonIds
           /\ n \notin astray => AddonInStep(n)
           /\ Onward(c) =>
                /\ \A d \in CallsOn(n)' : /\ d \in CallsOn(n)
                                          /\ d # c => caller'[d] = caller[d]
                /\ \A d \in CallsOn(n) : d # c => d \in CallsOn(n)' /\ caller'[d] = caller[d]
                /\ c \in CallsOn(n)' <=> caller'[c].pc # "idle"
<1>1. /\ n \in AddonNames /\ c \in CallsOn(n) /\ caller[c] \in CallRecord /\ CallLegal(caller[c])
      /\ caller[c].pc # "insert" => caller[c].id \in AddonIds
      /\ n \notin astray => AddonInStep(n)
  BY DEF AddonInv, AddonTypes, CallLegal, CallsOn
<1>2. ASSUME Onward(c)
      PROVE  /\ \A d \in CallsOn(n)' : d \in CallsOn(n) /\ (d # c => caller'[d] = caller[d])
             /\ \A d \in CallsOn(n) : d # c => d \in CallsOn(n)' /\ caller'[d] = caller[d]
             /\ c \in CallsOn(n)' <=> caller'[c].pc # "idle"
  BY <1>2 DEF CallsOn, Onward
<1> QED
  BY <1>1, <1>2

LEMMA AtOnward ==
    ASSUME AddonInv, NEW c \in AddonClients, caller[c].pc # "idle", NEW pc \in CallerPCs,
           CallAt(c, pc), pc \notin {"idle", "insert"}, caller[c].pc # "insert",
           caller[c].kind \in Removals <=> pc \in {"check", "objects", "volume", "row"},
           pc = "volume" => caller[c].kind # "keep"
    PROVE  /\ Onward(c) /\ caller'[c].pc = pc /\ caller'[c].kind = caller[c].kind
           /\ caller'[c].name = caller[c].name /\ caller'[c].id = caller[c].id
           /\ caller'[c].row = caller[c].row
<1>1. AddonTypes
  BY DEF AddonInv
<1>2. /\ caller' \in [AddonClients -> CallRecord]
      /\ \A d \in AddonClients : d # c => caller'[d] = caller[d]
      /\ caller'[c].pc = pc /\ caller'[c].kind = caller[c].kind
      /\ caller'[c].name = caller[c].name /\ caller'[c].id = caller[c].id
      /\ caller'[c].row = caller[c].row
  BY <1>1, CallMoved
<1>3. CallLegal(caller'[c])
  BY <1>2 DEF AddonInv, CallLegal
<1> QED
  BY <1>2, <1>3 DEF Onward

LEMMA AnsweredOnward ==
    ASSUME AddonInv, NEW c \in AddonClients, Answered(c)
    PROVE  Onward(c) /\ caller'[c].pc = "idle"
  BY CallAnswered DEF AddonInv, Onward

LEMMA ApplyKeeps ==
    ASSUME AddonInv, NEW c \in AddonClients, AppliesAddon(c)
    PROVE  AddonInv'
<1>0. PICK n : n = caller[c].name
  OBVIOUS
<1>1. /\ caller[c].pc = "apply" /\ caller[c].pc # "idle" /\ AddonTypes
      /\ UNCHANGED <<addon, attached, urls, appWork, wanted, outdated, astray, tally>>
  BY DEF AppliesAddon, AddonInv
<1>2. n \in AddonNames /\ c \in CallsOn(n) /\ caller[c] \in CallRecord /\ CallLegal(caller[c])
      /\ caller[c].id \in AddonIds /\ (n \notin astray => AddonInStep(n))
  BY <1>0, <1>1, CallOnName
<1>3. PICK p \in Passwords : p = caller[c].row.password
  <2>1. NoAddon.password \in Passwords
    BY NoAddonIsNoRow, AddonConstants DEF Passwords
  <2> QED
    BY <1>2, <2>1 DEF CallRecord, AddonRow
<1>4. /\ Onward(c)
      /\ caller'[c].pc \in {"idle", "attach"}
      /\ caller'[c].pc = "attach" => /\ caller'[c].kind = caller[c].kind
                                     /\ caller'[c].id = caller[c].id /\ caller'[c].row = caller[c].row
  <2>1. CASE caller[c].kind = "add" /\ CallAt(c, "attach")
    <3>1. "attach" \in CallerPCs /\ caller[c].kind \notin Removals
      BY <2>1 DEF CallerPCs, Removals
    <3> QED
      BY <1>1, <2>1, <3>1, AtOnward
  <2>2. CASE Answered(c)
    BY <2>2, AnsweredOnward
  <2> QED
    BY <2>1, <2>2 DEF AppliesAddon
<1>5. PICK inst \in Instance :
        /\ inst = [up |-> TRUE, secret |-> p,
                   volume |-> IF instance[n].volume = 0 THEN p ELSE instance[n].volume]
  BY <1>1, <1>2, <1>3 DEF AddonTypes, Instance
<1>6. instance' = [instance EXCEPT ![n] = inst]
  BY <1>0, <1>3, <1>5 DEF AppliesAddon, AppliedInstance
<1>7. /\ instance' \in [AddonNames -> Instance] /\ instance'[n] = inst
      /\ \A m \in AddonNames : m # n => instance'[m] = instance[m]
  BY <1>1, <1>2, <1>5, <1>6 DEF AddonTypes
<1>8. OnItsOwn(n)
  BY <1>1, <1>7 DEF OnItsOwn, AddonTypes
<1>9. ASSUME n \notin astray'  PROVE AddonInStep(n)'
  <2>1. AddonInStep(n)
    BY <1>1, <1>2, <1>9
  <2>2. PICK i \in AddonIds : i = caller[c].id
    BY <1>2
  <2>3. RowNamed(i, n) /\ addon[i].password = p
    BY <1>1, <1>2, <1>3, <2>1, <2>2 DEF AddonInStep, CallsKnow
  <2>4. AddonsOf(n) = {i}
    BY <2>2, <2>3 DEF AddonInv, NamesOwn, AddonsOf, AddonRows, RowNamed
  <2>5. \A d \in CallsOn(n) : d # c => caller[d].pc \notin {"check", "objects", "volume", "row"}
    <3>1. \A d \in CallsOn(n) : d \in AddonClients /\ caller[d].pc # "idle"
      BY DEF CallsOn
    <3>2. \A d \in CallsOn(n) : d # c => caller[d].kind \notin Removals
      BY <1>2, <2>1 DEF AddonInStep, CallsKnow
    <3> QED
      BY <3>1, <3>2 DEF AddonInv, CallLegal
  <2>6. inst = Running(p)
    <3>1. instance[n] = Running(p) \/ instance[n] = NoInstance
      BY <1>1, <2>1, <2>3, <2>4, <2>5 DEF AddonInStep, ObjectsInStep
    <3>2. instance[n].volume \in {0, p}
      BY <3>1 DEF Running, NoInstance
    <3> QED
      BY <1>5, <3>2 DEF Running
  <2>7. /\ \A d \in CallsOn(n)' : d \in CallsOn(n) /\ (d # c => caller'[d] = caller[d])
        /\ \A d \in CallsOn(n) : d # c => d \in CallsOn(n)' /\ caller'[d] = caller[d]
        /\ c \in CallsOn(n)' <=> caller'[c].pc # "idle"
    BY <1>0, <1>1, <1>4, CallOnName
  <2>8. AddonsOf(n)' = AddonsOf(n)
    BY <1>1 DEF AddonsOf, AddonRows
  <2>9. CallsKnow(n)'
    <3>1. caller[c].kind \notin Removals
      BY <1>1, <1>2 DEF CallLegal
    <3>2. \A d \in CallsOn(n) : d # c => caller[d].kind \notin Removals
      BY <1>2, <2>1 DEF AddonInStep, CallsKnow
    <3> QED
      BY <1>1, <1>2, <1>4, <2>1, <2>7, <3>1, <3>2 DEF AddonInStep, CallsKnow, RowNamed
  <2>10. AttachedAsWanted(n)'
    BY <1>1, <2>1 DEF AddonInStep, AttachedAsWanted
  <2>11. UrlsInStep(n)'
    <3>1. NoSync(n)' => NoSync(n)
      BY <1>1, <2>7 DEF NoSync
    <3> QED
      BY <1>1, <2>1, <3>1 DEF AddonInStep, UrlsInStep
  <2>12. ObjectsInStep(n)'
    BY <1>1, <1>4, <1>7, <2>3, <2>4, <2>5, <2>6, <2>7, <2>8 DEF ObjectsInStep
  <2> QED
    BY <2>9, <2>10, <2>11, <2>12 DEF AddonInStep
<1> QED
  BY <1>0, <1>1, <1>4, <1>8, <1>9, StepKeeps

LEMMA AttachKeeps ==
    ASSUME AddonInv, NEW c \in AddonClients, Attaches(c) \/ Detaches(c)
    PROVE  AddonInv'
<1>0. PICK n, i : n = caller[c].name /\ i = caller[c].id
  OBVIOUS
<1>1. /\ caller[c].pc \in {"attach", "detach"} /\ caller[c].pc # "idle" /\ caller[c].pc # "insert"
      /\ AddonTypes /\ caller[c].kind \notin Removals
      /\ UNCHANGED <<addon, instance, urls, appWork, outdated, tally>>
  BY DEF Attaches, Detaches, AddonInv, CallLegal
<1>2. n \in AddonNames /\ c \in CallsOn(n) /\ caller[c] \in CallRecord /\ CallLegal(caller[c])
      /\ i \in AddonIds /\ (n \notin astray => AddonInStep(n))
  BY <1>0, <1>1, CallOnName
<1>3. CASE Answered(c) /\ UNCHANGED <<attached, wanted, astray>>
  <2>1. astray \subseteq astray' /\ astray' \subseteq AddonNames
    BY <1>1, <1>3 DEF AddonTypes
  <2>2. tally' \in AddonTally /\ outdated \in BOOLEAN
    BY <1>1 DEF AddonTypes
  <2>3. caller[c].pc \notin {"sync", "render", "send", "apply", "volume", "row"}
    BY <1>1
  <2> QED
    BY <1>1, <1>3, <2>1, <2>2, <2>3, AnswerKeeps
<1>4. CASE /\ CallAt(c, "sync") /\ i \in AddonRows
           /\ \/ attached' = attached \cup {i} /\ wanted' = wanted \cup {n}
              \/ attached' = attached \ {i} /\ wanted' = wanted \ {n}
           /\ astray' = IF addon[i].name # n THEN astray \cup {addon[i].name, n} ELSE astray
  <2>1. /\ Onward(c) /\ caller'[c].pc = "sync" /\ caller'[c].kind = caller[c].kind
        /\ caller'[c].name = n /\ caller'[c].id = i /\ caller'[c].row = caller[c].row
    <3>1. "sync" \in CallerPCs
      BY DEF CallerPCs
    <3> QED
      BY <1>0, <1>1, <1>4, <3>1, AtOnward
  <2>2. OnItsOwn(n)
    <3>1. addon[i].name \in AddonNames
      BY <1>1, <1>4, AddonRowsAre
    <3>2. /\ astray \subseteq astray' /\ astray' \subseteq AddonNames
          /\ attached' \subseteq AddonRows /\ wanted' \subseteq AddonNames
      BY <1>1, <1>2, <1>4, <3>1 DEF AddonTypes
    <3>3. ASSUME NEW m \in AddonNames, m \notin astray', m # n
          PROVE  /\ \A j \in AddonRows : addon[j].name = m => (j \in attached' <=> j \in attached)
                 /\ m \in wanted' <=> m \in wanted
      <4>1. addon[i].name # m
        BY <1>4, <3>3
      <4> QED
        BY <1>4, <3>3, <4>1
    <3> QED
      BY <1>1, <3>2, <3>3 DEF OnItsOwn, AddonTypes
  <2>3. ASSUME n \notin astray'  PROVE AddonInStep(n)'
    <3>1. addon[i].name = n /\ AddonInStep(n)
      BY <1>2, <1>4, <2>3
    <3>2. /\ \A d \in CallsOn(n)' : d \in CallsOn(n) /\ (d # c => caller'[d] = caller[d])
          /\ \A d \in CallsOn(n) : d # c => d \in CallsOn(n)' /\ caller'[d] = caller[d]
          /\ c \in CallsOn(n)'
      BY <1>0, <1>1, <2>1, CallOnName
    <3>3. \A d \in CallsOn(n) : caller[d].pc \notin {"objects", "volume", "row", "check"} /\ caller[d].kind \notin Removals
      <4>1. \A d \in CallsOn(n) : d \in AddonClients /\ caller[d].pc # "idle"
        BY DEF CallsOn
      <4>2. \A d \in CallsOn(n) : caller[d].kind \notin Removals
        BY <1>1, <1>2, <3>1 DEF AddonInStep, CallsKnow
      <4> QED
        BY <4>1, <4>2 DEF AddonInv, CallLegal
    <3>4. AddonsOf(n)' = AddonsOf(n)
      BY <1>1 DEF AddonsOf, AddonRows
    <3>5. CallsKnow(n)'
      BY <1>0, <1>1, <1>2, <2>1, <3>1, <3>2, <3>3 DEF AddonInStep, CallsKnow, RowNamed
    <3>6. AttachedAsWanted(n)'
      <4>1. \A j \in attached : addon[j].name = n => j = i
        BY <1>1, <1>4, <3>1 DEF AddonInv, NamesOwn, AddonTypes
      <4> QED
        BY <1>1, <1>2, <1>4, <3>1, <4>1 DEF AttachedAsWanted
    <3>7. UrlsInStep(n)'
      BY <2>1, <3>2 DEF UrlsInStep, NoSync
    <3>8. ObjectsInStep(n)'
      BY <1>1, <2>1, <3>1, <3>2, <3>3, <3>4 DEF AddonInStep, ObjectsInStep
    <3> QED
      BY <3>5, <3>6, <3>7, <3>8 DEF AddonInStep
  <2> QED
    BY <1>0, <1>1, <2>1, <2>2, <2>3, StepKeeps
<1> QED
  <2>1. attached \subseteq AddonRows
    BY <1>1 DEF AddonTypes
  <2> QED
    BY <1>0, <1>3, <1>4, <2>1 DEF Attaches, Detaches

LEMMA VersionKeeps ==
    ASSUME AddonInv, NEW c \in AddonClients, SetsVersion(c)
    PROVE  AddonInv'
<1>0. PICK n : n = caller[c].name
  OBVIOUS
<1>1. /\ caller[c].pc = "version" /\ caller[c].pc # "idle" /\ caller[c].pc # "insert"
      /\ AddonTypes /\ caller[c].kind \notin Removals
      /\ UNCHANGED <<addon, attached, instance, urls, appWork, wanted, outdated, astray, tally>>
  BY DEF SetsVersion, AddonInv, CallLegal
<1>2. n \in AddonNames /\ c \in CallsOn(n) /\ (n \notin astray => AddonInStep(n))
  BY <1>0, <1>1, CallOnName
<1>3. /\ astray \subseteq astray' /\ astray' \subseteq AddonNames
      /\ tally' \in AddonTally /\ outdated \in BOOLEAN
  BY <1>1 DEF AddonTypes
<1>4. CASE Answered(c)
  <2>1. caller[c].pc \notin {"sync", "render", "send", "apply", "volume", "row"}
    BY <1>1
  <2> QED
    BY <1>1, <1>3, <1>4, <2>1, AnswerKeeps
<1>5. CASE CallAt(c, "apply")
  <2>1. /\ Onward(c) /\ caller'[c].pc = "apply" /\ caller'[c].kind = caller[c].kind
        /\ caller'[c].name = n /\ caller'[c].id = caller[c].id /\ caller'[c].row = caller[c].row
    <3>1. "apply" \in CallerPCs
      BY DEF CallerPCs
    <3> QED
      BY <1>0, <1>1, <1>5, <3>1, AtOnward
  <2>2. OnItsOwn(n)
    BY <1>1, <1>3 DEF OnItsOwn, AddonTypes
  <2>3. ASSUME n \notin astray'  PROVE AddonInStep(n)'
    <3>1. AddonInStep(n)
      BY <1>1, <1>2, <2>3
    <3>2. /\ \A d \in CallsOn(n)' : d \in CallsOn(n) /\ (d # c => caller'[d] = caller[d])
          /\ \A d \in CallsOn(n) : d # c => d \in CallsOn(n)' /\ caller'[d] = caller[d]
          /\ c \in CallsOn(n)'
      BY <1>0, <1>1, <2>1, CallOnName
    <3>3. AddonsOf(n)' = AddonsOf(n)
      BY <1>1 DEF AddonsOf, AddonRows
    <3>4. CallsKnow(n)'
      BY <1>1, <1>2, <2>1, <3>1, <3>2 DEF AddonInStep, CallsKnow, RowNamed
    <3>5. AttachedAsWanted(n)'
      BY <1>1, <3>1 DEF AddonInStep, AttachedAsWanted
    <3>6. UrlsInStep(n)'
      <4>1. NoSync(n)' => NoSync(n)
        BY <1>1, <3>2 DEF NoSync
      <4> QED
        BY <1>1, <3>1, <4>1 DEF AddonInStep, UrlsInStep
    <3>7. ObjectsInStep(n)'
      BY <1>1, <2>1, <3>1, <3>2, <3>3 DEF AddonInStep, ObjectsInStep
    <3> QED
      BY <3>4, <3>5, <3>6, <3>7 DEF AddonInStep
  <2> QED
    BY <1>0, <1>1, <2>1, <2>2, <2>3, StepKeeps
<1> QED
  BY <1>4, <1>5 DEF SetsVersion

\* A removal that goes on: it is the only request on its name, or its name is astray.
LEMMA ChecksKeeps ==
    ASSUME AddonInv, NEW c \in AddonClients, ChecksAttached(c)
    PROVE  AddonInv'
<1>0. PICK n, i : n = caller[c].name /\ i = caller[c].id
  OBVIOUS
<1>1. /\ caller[c].pc = "check" /\ caller[c].pc # "idle" /\ caller[c].pc # "insert"
      /\ AddonTypes /\ caller[c].kind \in Removals
      /\ UNCHANGED <<addon, attached, instance, urls, appWork, wanted, outdated, tally>>
  BY DEF ChecksAttached, AddonInv, CallLegal
<1>2. n \in AddonNames /\ c \in CallsOn(n) /\ (n \notin astray => AddonInStep(n))
  BY <1>0, <1>1, CallOnName
<1>3. /\ astray \subseteq astray' /\ astray' \subseteq AddonNames
      /\ tally' \in AddonTally /\ outdated \in BOOLEAN
  BY <1>0, <1>1, <1>2 DEF AddonTypes, ChecksAttached
<1>4. CASE Answered(c)
  <2>1. caller[c].pc \notin {"sync", "render", "send", "apply", "volume", "row"}
    BY <1>1
  <2> QED
    BY <1>1, <1>3, <1>4, <2>1, AnswerKeeps
<1>5. CASE CallAt(c, "objects") /\ (i \in attached => n \in astray')
  <2>1. /\ Onward(c) /\ caller'[c].pc = "objects" /\ caller'[c].kind = caller[c].kind
        /\ caller'[c].name = n /\ caller'[c].id = i /\ caller'[c].row = caller[c].row
    <3>1. "objects" \in CallerPCs
      BY DEF CallerPCs
    <3> QED
      BY <1>0, <1>1, <1>5, <3>1, AtOnward
  <2>2. OnItsOwn(n)
    BY <1>1, <1>3 DEF OnItsOwn, AddonTypes
  <2>3. ASSUME n \notin astray'  PROVE AddonInStep(n)'
    <3>1. AddonInStep(n) /\ i \notin attached
      BY <1>2, <1>3, <1>5, <2>3
    <3>2. CallsOn(n) = {c} /\ CallsOn(n)' = {c}
      <4>1. CallsOn(n) = {c}
        BY <1>1, <1>2, <3>1 DEF AddonInStep, CallsKnow
      <4>2. /\ \A d \in CallsOn(n)' : d \in CallsOn(n)
            /\ c \in CallsOn(n)'
        BY <1>0, <1>1, <2>1, CallOnName
      <4> QED
        BY <4>1, <4>2
    <3>3. AddonsOf(n)' = AddonsOf(n)
      BY <1>1 DEF AddonsOf, AddonRows
    <3>4. CallsKnow(n)'
      BY <1>0, <1>1, <1>2, <2>1, <3>1, <3>2 DEF AddonInStep, CallsKnow, RowNamed
    <3>5. AttachedAsWanted(n)'
      BY <1>1, <3>1 DEF AddonInStep, AttachedAsWanted
    <3>6. UrlsInStep(n)'
      BY <1>1, <2>1, <3>1, <3>2 DEF AddonInStep, UrlsInStep, NoSync
    <3>7. ObjectsInStep(n)'
      BY <1>1, <2>1, <3>1, <3>2, <3>3 DEF AddonInStep, ObjectsInStep
    <3> QED
      BY <3>4, <3>5, <3>6, <3>7 DEF AddonInStep
  <2> QED
    BY <1>0, <1>1, <2>1, <2>2, <2>3, StepKeeps
<1> QED
  BY <1>0, <1>4, <1>5 DEF ChecksAttached

LEMMA DeleteObjectsKeeps ==
    ASSUME AddonInv, NEW c \in AddonClients, DeletesObjects(c) \/ DeletesVolume(c)
    PROVE  AddonInv'
<1>0. PICK n, i : n = caller[c].name /\ i = caller[c].id
  OBVIOUS
<1>1. /\ caller[c].pc \in {"objects", "volume"} /\ caller[c].pc # "idle" /\ caller[c].pc # "insert"
      /\ AddonTypes /\ caller[c].kind \in Removals
      /\ UNCHANGED <<addon, attached, urls, appWork, wanted, outdated, astray, tally>>
  BY DEF DeletesObjects, DeletesVolume, AddonInv, CallLegal
<1>2. n \in AddonNames /\ c \in CallsOn(n) /\ (n \notin astray => AddonInStep(n))
  BY <1>0, <1>1, CallOnName
<1>3. PICK pc \in {"volume", "row"} :
        /\ CallAt(c, pc) /\ (pc = "volume" => caller[c].pc = "objects" /\ caller[c].kind # "keep")
        /\ pc = "row" /\ caller[c].kind # "keep" => caller[c].pc = "volume"
  <2>1. CASE DeletesObjects(c)
    BY <2>1 DEF DeletesObjects
  <2>2. CASE DeletesVolume(c)
    BY <2>2 DEF DeletesVolume
  <2> QED
    BY <2>1, <2>2
<1>4. /\ Onward(c) /\ caller'[c].pc = pc /\ caller'[c].kind = caller[c].kind
      /\ caller'[c].name = n /\ caller'[c].id = i /\ caller'[c].row = caller[c].row
  <2>1. pc \in CallerPCs
    BY DEF CallerPCs
  <2> QED
    BY <1>0, <1>1, <1>3, <2>1, AtOnward
<1>5. PICK inst \in Instance :
        /\ instance' = [instance EXCEPT ![n] = inst]
        /\ caller[c].pc = "objects" => ~ inst.up /\ inst.secret = 0
        /\ caller[c].pc = "volume" => /\ inst.volume = 0 /\ inst.up = instance[n].up
                                      /\ inst.secret = instance[n].secret
  <2>1. PICK old \in Instance : old = instance[n]
    BY <1>1, <1>2 DEF AddonTypes
  <2>2. 0 \in Passwords
    BY AddonConstants DEF Passwords
  <2>3. CASE DeletesObjects(c)
    <3>1. PICK inst \in Instance : /\ inst = [up |-> FALSE, secret |-> 0, volume |-> old.volume]
      BY <2>2 DEF Instance
    <3>2. inst = [[old EXCEPT !.up = FALSE] EXCEPT !.secret = 0]
      <4>1. PICK mid \in Instance : mid = [old EXCEPT !.up = FALSE]
        BY DEF Instance
      <4>2. mid.up = FALSE /\ mid.secret = old.secret /\ mid.volume = old.volume
        BY <4>1 DEF Instance
      <4>3. PICK end \in Instance : end = [mid EXCEPT !.secret = 0]
        BY <2>2 DEF Instance
      <4>4. end.up = mid.up /\ end.secret = 0 /\ end.volume = mid.volume
        BY <4>3 DEF Instance
      <4>5. inst.up = FALSE /\ inst.secret = 0 /\ inst.volume = old.volume
        BY <3>1
      <4>6. inst = end
        BY <4>2, <4>4, <4>5 DEF Instance
      <4> QED
        BY <4>1, <4>3, <4>6
    <3>3. instance' = [instance EXCEPT ![n] = inst]
      BY <1>0, <1>1, <1>2, <2>1, <2>3, <3>2 DEF DeletesObjects, AddonTypes
    <3>4. caller[c].pc = "objects"
      BY <2>3 DEF DeletesObjects
    <3> QED
      BY <3>1, <3>3, <3>4
  <2>4. CASE DeletesVolume(c)
    <3>1. PICK inst \in Instance : inst = [up |-> old.up, secret |-> old.secret, volume |-> 0]
      BY <2>2 DEF Instance
    <3>2. inst = [old EXCEPT !.volume = 0]
      BY <3>1 DEF Instance
    <3>3. instance' = [instance EXCEPT ![n] = inst]
      BY <1>0, <1>1, <1>2, <2>1, <2>4, <3>2 DEF DeletesVolume, AddonTypes
    <3>4. caller[c].pc = "volume"
      BY <2>4 DEF DeletesVolume
    <3> QED
      BY <2>1, <3>1, <3>3, <3>4
  <2> QED
    BY <2>3, <2>4
<1>6. /\ instance' \in [AddonNames -> Instance] /\ instance'[n] = inst
      /\ \A m \in AddonNames : m # n => instance'[m] = instance[m]
  BY <1>1, <1>2, <1>5 DEF AddonTypes
<1>7. OnItsOwn(n)
  BY <1>1, <1>6 DEF OnItsOwn, AddonTypes
<1>8. ASSUME n \notin astray'  PROVE AddonInStep(n)'
  <2>1. AddonInStep(n)
    BY <1>1, <1>2, <1>8
  <2>2. CallsOn(n) = {c} /\ CallsOn(n)' = {c}
    <3>1. CallsOn(n) = {c}
      BY <1>1, <1>2, <2>1 DEF AddonInStep, CallsKnow
    <3>2. /\ \A d \in CallsOn(n)' : d \in CallsOn(n)
          /\ c \in CallsOn(n)'
      BY <1>0, <1>1, <1>3, <1>4, CallOnName
    <3> QED
      BY <3>1, <3>2
  <2>3. RowNamed(i, n) /\ caller[c].row = addon[i] /\ i \notin attached
    BY <1>0, <1>1, <2>1, <2>2 DEF AddonInStep, CallsKnow
  <2>4. CallsKnow(n)'
    BY <1>1, <1>3, <1>4, <2>2, <2>3 DEF CallsKnow, RowNamed
  <2>5. AttachedAsWanted(n)'
    BY <1>1, <2>1 DEF AddonInStep, AttachedAsWanted
  <2>6. UrlsInStep(n)'
    BY <1>1, <1>3, <1>4, <2>1, <2>2 DEF AddonInStep, UrlsInStep, NoSync
  <2>7. ObjectsInStep(n)'
    <3>1. i \in AddonsOf(n)
      <4>1. i \in AddonIds
        BY <1>0, <1>1, CallOnName
      <4> QED
        BY <2>3, <4>1 DEF RowNamed, AddonsOf, AddonRows
    <3>2. AddonsOf(n)' # {}
      BY <1>1, <3>1 DEF AddonsOf, AddonRows
    <3>3. pc = "volume" => ~ inst.up /\ inst.secret = 0
      BY <1>3, <1>5
    <3>4. pc = "row" /\ caller[c].kind # "keep" => inst = NoInstance
      <4>1. ASSUME pc = "row", caller[c].kind # "keep"  PROVE inst = NoInstance
        <5>1. caller[c].pc = "volume" /\ ~ instance[n].up /\ instance[n].secret = 0
          BY <1>3, <2>1, <2>2, <4>1 DEF AddonInStep, ObjectsInStep
        <5> QED
          BY <1>5, <5>1 DEF NoInstance, Instance
      <4> QED
        BY <4>1
    <3> QED
      BY <1>3, <1>4, <1>6, <2>2, <3>2, <3>3, <3>4 DEF ObjectsInStep
  <2> QED
    BY <2>4, <2>5, <2>6, <2>7 DEF AddonInStep
<1> QED
  BY <1>0, <1>1, <1>4, <1>7, <1>8, StepKeeps

LEMMA SlipTyped ==
    ASSUME AddonTypes, NEW k, Slips(k)
    PROVE  tally' \in AddonTally
<1>1. tally.faults \in SUBSET AddonFaultKinds
  BY DEF AddonTypes, AddonTally
<1>2. PICK f \in SUBSET AddonFaultKinds : tally' = [tally EXCEPT !.faults = f]
  BY <1>1, AddonConstants DEF Slips
<1> QED
  BY <1>2 DEF AddonTypes, AddonTally

LEMMA FailureKeeps ==
    ASSUME AddonInv, NEW c \in AddonClients,
           AppliesAddonFails(c) \/ DeletesObjectsFails(c) \/ SendFails(c)
    PROVE  AddonInv'
<1>1. /\ caller[c].pc # "idle" /\ caller[c].pc # "insert" /\ AddonTypes /\ Answered(c)
      /\ \/ astray' = astray \cup {caller[c].name} /\ UNCHANGED outdated
         \/ caller[c].pc = "send" /\ outdated' = TRUE /\ UNCHANGED astray
      /\ UNCHANGED <<addon, attached, instance, urls, appWork, wanted>>
      /\ Slips("apply") \/ Slips("delete")
  BY DEF AppliesAddonFails, DeletesObjectsFails, SendFails, AddonInv
<1>2. caller[c].name \in AddonNames
  BY <1>1, CallOnName
<1>3. tally' \in AddonTally
  BY <1>1, SlipTyped
<1>4. /\ astray \subseteq astray' /\ astray' \subseteq AddonNames
      /\ outdated' \in BOOLEAN /\ (outdated => outdated')
      /\ caller[c].name \in astray' \/ (caller[c].pc \in {"sync", "send"} /\ outdated')
  BY <1>1, <1>2 DEF AddonTypes
<1> QED
  BY <1>1, <1>3, <1>4, AnswerKeeps

LEMMA DeleteRowKeeps ==
    ASSUME AddonInv, NEW c \in AddonClients, DeletesAddonRow(c)
    PROVE  AddonInv'
<1>0. PICK n, i : n = caller[c].name /\ i = caller[c].id
  OBVIOUS
<1>1. /\ caller[c].pc = "row" /\ caller[c].pc # "idle" /\ caller[c].pc # "insert"
      /\ AddonTypes /\ caller[c].kind \in Removals /\ Answered(c)
      /\ UNCHANGED <<instance, urls, appWork, outdated, tally>>
  BY DEF DeletesAddonRow, AddonInv, CallLegal
<1>2. n \in AddonNames /\ c \in CallsOn(n) /\ i \in AddonIds /\ (n \notin astray => AddonInStep(n))
  BY <1>0, <1>1, CallOnName
<1>3. /\ addon' = [addon EXCEPT ![i] = NoAddon] /\ attached' = attached \ {i}
      /\ wanted' = wanted \ {n} /\ astray \subseteq astray'
      /\ caller[c].kind = "keep" => n \in astray'
      /\ addon[i] # NoAddon /\ addon[i].name # n => addon[i].name \in astray'
  BY <1>0, <1>1 DEF DeletesAddonRow, Cascaded
<1>4. /\ Onward(c) /\ caller'[c].pc = "idle"
      /\ caller' \in [AddonClients -> CallRecord]
      /\ \A d \in AddonClients : d # c => caller'[d] = caller[d]
  BY <1>1, AnsweredOnward DEF Onward
<1>5. /\ addon' \in [AddonIds -> AddonRow \cup {NoAddon}] /\ addon'[i] = NoAddon
      /\ \A j \in AddonIds : j # i => addon'[j] = addon[j]
      /\ AddonRows' = AddonRows \ {i}
  <2>1. /\ addon' \in [AddonIds -> AddonRow \cup {NoAddon}] /\ addon'[i] = NoAddon
        /\ \A j \in AddonIds : j # i => addon'[j] = addon[j]
    BY <1>1, <1>2, <1>3 DEF AddonTypes
  <2> QED
    BY <2>1 DEF AddonRows
<1>6. AddonTypes'
  <2>1. astray' \subseteq AddonNames
    <3>1. addon[i] # NoAddon => addon[i].name \in AddonNames
      BY <1>1, <1>2, AddonRowsAre DEF AddonRows
    <3> QED
      BY <1>0, <1>1, <1>2, <3>1 DEF DeletesAddonRow, AddonTypes
  <2> QED
    BY <1>1, <1>3, <1>4, <1>5, <2>1 DEF AddonTypes
<1>7. \A d \in AddonClients : CallLegal(caller'[d])
  BY <1>4 DEF AddonInv, CallLegal
<1>8. NamesOwn'
  BY <1>1, <1>5 DEF AddonInv, NamesOwn, AddonRows
<1>9. ASSUME NEW m \in AddonNames, m \notin astray'  PROVE AddonInStep(m)'
  <2>1. AddonInStep(m)
    BY <1>3, <1>9 DEF AddonInv
  <2>2. CASE m # n
    <3>1. addon[i].name # m
      BY <1>1, <1>2, <1>3, <1>9, <2>2, AddonRowsAre DEF AddonRows
    <3>2. NoAddon.name # m
      BY NoAddonIsNoRow
    <3>3. Untouched(m)
      BY <1>0, <1>1, <1>3, <1>4, <1>5, <2>2, <3>1, <3>2 DEF Untouched, OnName
    <3> QED
      BY <1>1, <1>6, <2>1, <3>3, UntouchedInStep DEF AddonInv
  <2>3. CASE m = n
    <3>1. CallsOn(n) = {c} /\ CallsOn(n)' = {}
      <4>1. CallsOn(n) = {c}
        BY <1>1, <1>2, <2>1, <2>3 DEF AddonInStep, CallsKnow
      <4>2. /\ \A d \in CallsOn(n)' : d \in CallsOn(n)
            /\ c \notin CallsOn(n)'
        BY <1>0, <1>1, <1>4, CallOnName
      <4> QED
        BY <4>1, <4>2
    <3>2. RowNamed(i, n) /\ i \notin attached
      BY <1>0, <1>1, <2>1, <2>3, <3>1 DEF AddonInStep, CallsKnow
    <3>3. instance[n] = NoInstance
      BY <1>1, <1>3, <1>9, <2>1, <2>3, <3>1 DEF AddonInStep, ObjectsInStep
    <3>4. \A j \in AddonIds : addon[j].name = n => j = i
      <4>1. i \in AddonRows
        BY <1>2, <3>2 DEF RowNamed, AddonRows
      <4>2. \A j \in AddonIds : addon[j].name = n => j \in AddonRows
        BY <1>1, <1>2, AddonRowsAre
      <4> QED
        BY <3>2, <4>1, <4>2 DEF AddonInv, NamesOwn, RowNamed
    <3>5. attached \subseteq AddonIds /\ attached' = attached
      BY <1>1, <1>3, <3>2 DEF AddonTypes, AddonRows
    <3>6. \A j \in attached : addon[j].name # n /\ addon'[j].name # n
      BY <1>5, <3>2, <3>4, <3>5
    <3>7. n \notin wanted'
      BY <1>3
    <3>8. AddonsOf(n)' = {}
      BY <1>5, <3>4 DEF AddonsOf, AddonRows
    <3>9. AttachedAsWanted(n)' /\ CallsKnow(n)' /\ ObjectsInStep(n)'
      BY <1>1, <3>1, <3>3, <3>5, <3>6, <3>7, <3>8 DEF AttachedAsWanted, CallsKnow, ObjectsInStep
    <3>10. UrlsInStep(n)'
      <4>1. ~ outdated => \A u \in urls : u.name # n
        BY <1>1, <2>1, <2>3, <3>1, <3>6 DEF AddonInStep, UrlsInStep, NoSync
      <4> QED
        BY <1>1, <3>5, <3>6, <4>1 DEF UrlsInStep
    <3> QED
      BY <2>3, <3>9, <3>10 DEF AddonInStep
  <2> QED
    BY <2>2, <2>3
<1> QED
  BY <1>6, <1>7, <1>8, <1>9 DEF AddonInv

\* A sync that is on its way.
LEMMA OwedSyncKeeps ==
    ASSUME AddonInv, NEW c \in AddonClients, SyncsIfLive(c) \/ RendersUrls(c)
    PROVE  AddonInv'
<1>0. PICK n : n = caller[c].name
  OBVIOUS
<1>1. /\ caller[c].pc \in {"sync", "render"} /\ caller[c].pc # "idle" /\ caller[c].pc # "insert"
      /\ AddonTypes /\ NamesOwn /\ caller[c].kind \notin Removals
      /\ UNCHANGED <<addon, attached, instance, urls, appWork, wanted, astray, tally>>
  BY DEF SyncsIfLive, RendersUrls, AddonInv, CallLegal
<1>2. n \in AddonNames /\ c \in CallsOn(n) /\ (n \notin astray => AddonInStep(n))
  BY <1>0, <1>1, CallOnName
<1>3. /\ astray \subseteq astray' /\ astray' \subseteq AddonNames
      /\ tally' \in AddonTally /\ outdated \in BOOLEAN
  BY <1>1 DEF AddonTypes
<1>4. CASE caller[c].pc = "sync" /\ Answered(c) /\ outdated' = TRUE
  BY <1>1, <1>3, <1>4, AnswerKeeps
<1>5. CASE /\ Onward(c) /\ caller'[c].pc \in {"render", "send"} /\ UNCHANGED outdated
           /\ caller'[c].kind = caller[c].kind /\ caller'[c].name = n
           /\ caller'[c].id = caller[c].id /\ caller'[c].row = caller[c].row
  <2>1. OnItsOwn(n)
    BY <1>1, <1>3, <1>5 DEF OnItsOwn, AddonTypes
  <2>2. ASSUME n \notin astray'  PROVE AddonInStep(n)'
    <3>1. AddonInStep(n)
      BY <1>1, <1>2, <2>2
    <3>2. /\ \A d \in CallsOn(n)' : d \in CallsOn(n) /\ (d # c => caller'[d] = caller[d])
          /\ \A d \in CallsOn(n) : d # c => d \in CallsOn(n)' /\ caller'[d] = caller[d]
          /\ c \in CallsOn(n)'
      BY <1>0, <1>1, <1>5, CallOnName
    <3>3. AddonsOf(n)' = AddonsOf(n)
      BY <1>1 DEF AddonsOf, AddonRows
    <3>4. CallsKnow(n)'
      BY <1>1, <1>2, <1>5, <3>1, <3>2 DEF AddonInStep, CallsKnow, RowNamed
    <3>5. AttachedAsWanted(n)'
      BY <1>1, <3>1 DEF AddonInStep, AttachedAsWanted
    <3>6. UrlsInStep(n)'
      BY <1>5, <3>2 DEF UrlsInStep, NoSync
    <3>7. ObjectsInStep(n)'
      BY <1>1, <1>5, <3>1, <3>2, <3>3 DEF AddonInStep, ObjectsInStep
    <3> QED
      BY <3>4, <3>5, <3>6, <3>7 DEF AddonInStep
  <2> QED
    BY <1>0, <1>1, <1>5, <2>1, <2>2, StepKeeps
<1>6. CASE CallAt(c, "render") /\ UNCHANGED outdated
  <2>1. "render" \in CallerPCs
    BY DEF CallerPCs
  <2>2. /\ Onward(c) /\ caller'[c].pc = "render" /\ caller'[c].kind = caller[c].kind
        /\ caller'[c].name = n /\ caller'[c].id = caller[c].id /\ caller'[c].row = caller[c].row
    BY <1>0, <1>1, <1>6, <2>1, AtOnward
  <2> QED
    BY <1>5, <1>6, <2>2
<1>7. CASE RendersUrls(c)
  <2>1. caller[c] \in CallRecord /\ "send" \in CallerPCs /\ CallLegal(caller[c])
    BY <1>0, <1>1, CallOnName DEF CallerPCs
  <2>2. PICK U \in UrlSets : U = Current
    BY <1>1, InjectedIs
  <2>3. PICK e \in CallRecord : e = [caller[c] EXCEPT !.pc = "send", !.urls = U]
    BY <2>1, <2>2 DEF CallRecord
  <2>4. e.pc = "send" /\ e.kind = caller[c].kind /\ e.name = caller[c].name /\ e.id = caller[c].id
        /\ e.row = caller[c].row
    BY <2>1, <2>3 DEF CallRecord
  <2>5. caller' = [caller EXCEPT ![c] = e] /\ UNCHANGED outdated
    BY <1>7, <2>2, <2>3 DEF RendersUrls
  <2>6. /\ caller' \in [AddonClients -> CallRecord] /\ caller'[c] = e
        /\ \A d \in AddonClients : d # c => caller'[d] = caller[d]
    BY <1>1, <2>5 DEF AddonTypes
  <2>7. CallLegal(e)
    BY <1>1, <2>1, <2>4 DEF CallLegal
  <2>8. Onward(c)
    BY <2>4, <2>6, <2>7 DEF Onward
  <2> QED
    BY <1>0, <1>5, <2>4, <2>5, <2>6, <2>8
<1> QED
  BY <1>4, <1>6, <1>7 DEF SyncsIfLive

\* Whoever applies what the rows are rendered to brings the environment in line with
\* every name; whoever applies anything else leaves it outdated.
LEMMA ApplyUrlsKeeps ==
    ASSUME AddonInv, NEW rendered \in UrlSets, AppliesUrls(rendered),
           UNCHANGED <<addon, attached, instance, wanted, astray, tally>>, appWork' \in WorkRecord,
           \/ UNCHANGED caller
           \/ \E c \in AddonClients : caller[c].pc = "send" /\ Answered(c)
    PROVE  AddonInv'
<1>1. AddonTypes /\ NamesOwn /\ urls' = rendered /\ outdated' = (rendered # Current)
  BY DEF AddonInv, AppliesUrls
<1>2. /\ caller' \in [AddonClients -> CallRecord]
      /\ \A d \in AddonClients : caller'[d] = caller[d] \/ (caller[d].pc = "send" /\ caller'[d].pc = "idle")
  <2>1. CASE UNCHANGED caller
    BY <1>1, <2>1 DEF AddonTypes
  <2>2. CASE \E c \in AddonClients : caller[c].pc = "send" /\ Answered(c)
    <3>1. PICK c \in AddonClients : caller[c].pc = "send" /\ Answered(c)
      BY <2>2
    <3> QED
      BY <1>1, <3>1, CallAnswered
  <2> QED
    BY <2>1, <2>2
<1>3. ~ outdated' =>
         /\ \A i \in attached : \E u \in urls' : u.name = addon[i].name
         /\ \A u \in urls' : \E i \in attached : u.name = addon[i].name /\ u.password = addon[i].password
  BY <1>1, InjectedIs
<1>4. AddonRows' = AddonRows /\ \A n : AddonsOf(n)' = AddonsOf(n)
  BY DEF AddonRows, AddonsOf
<1>5. AddonTypes' /\ NamesOwn'
  BY <1>1, <1>2, <1>4 DEF AddonTypes, NamesOwn
<1>6. \A d \in AddonClients : CallLegal(caller'[d])
  BY <1>2 DEF AddonInv, CallLegal
<1>7. ASSUME NEW n \in AddonNames, n \notin astray'  PROVE AddonInStep(n)'
  <2>1. AddonInStep(n)
    BY <1>7 DEF AddonInv
  <2>2. /\ \A d \in CallsOn(n)' : d \in CallsOn(n) /\ caller'[d] = caller[d]
        /\ \A d \in CallsOn(n) : caller[d].pc # "send" => d \in CallsOn(n)' /\ caller'[d] = caller[d]
    BY <1>2 DEF CallsOn
  <2>3. CallsKnow(n)'
    BY <2>1, <2>2 DEF AddonInStep, CallsKnow, RowNamed
  <2>4. AttachedAsWanted(n)'
    BY <2>1 DEF AddonInStep, AttachedAsWanted
  <2>5. UrlsInStep(n)'
    <3>1. ~ outdated' => \A u \in urls' : u.name = n =>
              \E i \in attached : addon[i].name = n /\ addon[i].password = u.password
      BY <1>3
    <3>2. ~ outdated' => \A i \in attached : addon[i].name = n => \E u \in urls' : u.name = n
      BY <1>3
    <3> QED
      BY <3>1, <3>2 DEF UrlsInStep
  <2>6. ObjectsInStep(n)'
    BY <1>4, <2>1, <2>2 DEF AddonInStep, ObjectsInStep
  <2> QED
    BY <2>3, <2>4, <2>5, <2>6 DEF AddonInStep
<1> QED
  BY <1>5, <1>6, <1>7 DEF AddonInv

LEMMA SendKeeps ==
    ASSUME AddonInv, NEW c \in AddonClients, SendsUrls(c)
    PROVE  AddonInv'
<1>1. caller[c].urls \in UrlSets /\ appWork \in WorkRecord
  BY DEF AddonInv, AddonTypes, CallRecord
<1>2. /\ AppliesUrls(caller[c].urls) /\ caller[c].pc = "send" /\ Answered(c)
      /\ UNCHANGED <<addon, attached, instance, appWork, wanted, astray, tally>>
  BY DEF SendsUrls
<1> QED
  BY <1>1, <1>2, ApplyUrlsKeeps

\* The app's own work changes nothing the requests rely on before it applies.
LEMMA NothingKeeps ==
    ASSUME AddonInv, appWork' \in WorkRecord, tally' \in AddonTally,
           UNCHANGED <<addon, attached, instance, urls, caller, wanted, outdated, astray>>
    PROVE  AddonInv'
<1>1. /\ AddonRows' = AddonRows /\ \A n : AddonsOf(n)' = AddonsOf(n) /\ CallsOn(n)' = CallsOn(n)
  BY DEF AddonRows, AddonsOf, CallsOn
<1>2. AddonTypes' /\ NamesOwn' /\ \A d \in AddonClients : CallLegal(caller'[d])
  BY <1>1 DEF AddonInv, AddonTypes, NamesOwn
<1>3. ASSUME NEW n \in AddonNames, n \notin astray'  PROVE AddonInStep(n)'
  <2>1. AddonInStep(n)
    BY <1>3 DEF AddonInv
  <2> QED
    BY <1>1, <2>1
       DEF AddonInStep, CallsKnow, AttachedAsWanted, UrlsInStep, NoSync, ObjectsInStep, RowNamed
<1> QED
  BY <1>2, <1>3 DEF AddonInv

LEMMA AppWorkKeeps ==
    ASSUME AddonInv, AppWorks
    PROVE  AddonInv'
<1>1. AddonTypes /\ NamesOwn /\ appWork \in WorkRecord /\ tally \in AddonTally
  BY DEF AddonInv, AddonTypes
<1>2. ASSUME NEW status \in {"deploying", "live"}, AppWorkStarts(status)  PROVE AddonInv'
  <2>1. appWork' \in WorkRecord
    BY <1>1, <1>2 DEF AppWorkStarts, WorkRecord
  <2>2. PICK k \in 0 .. MaxCalls : tally' = [tally EXCEPT !.calls = k]
    BY <1>1, <1>2, AddonConstants DEF AppWorkStarts, AddonTally
  <2>3. tally' \in AddonTally
    BY <1>1, <2>2 DEF AddonTally
  <2> QED
    BY <1>2, <2>1, <2>3, NothingKeeps DEF AppWorkStarts
<1>3. CASE AppRenders
  <2>1. PICK U \in UrlSets : U = Current
    BY <1>1, InjectedIs
  <2>2. appWork' = [appWork EXCEPT !.pc = "apply", !.urls = U]
    BY <1>3, <2>1 DEF AppRenders
  <2>3. appWork' \in WorkRecord
    BY <1>1, <2>2 DEF WorkRecord
  <2> QED
    BY <1>1, <1>3, <2>3, NothingKeeps DEF AppRenders
<1>4. CASE AppApplies
  <2>1. appWork.urls \in UrlSets
    BY <1>1 DEF WorkRecord
  <2>2. appWork' \in WorkRecord
    BY <1>1, <1>4, NothingRendered DEF AppApplies, WorkRecord
  <2> QED
    BY <1>4, <2>1, <2>2, ApplyUrlsKeeps DEF AppApplies
<1>5. CASE AppApplyFails
  <2>1. appWork' \in WorkRecord
    BY <1>1, <1>5, NothingRendered DEF AppApplyFails, WorkRecord
  <2>2. tally' \in AddonTally
    BY <1>1, <1>5, SlipTyped DEF AppApplyFails
  <2> QED
    BY <1>5, <2>1, <2>2, NothingKeeps DEF AppApplyFails
<1>6. CASE AppDeployEnds
  <2>1. appWork' \in WorkRecord
    BY <1>1, <1>6 DEF AppDeployEnds, WorkRecord
  <2> QED
    BY <1>1, <1>6, <2>1, NothingKeeps DEF AppDeployEnds
<1> QED
  BY <1>2, <1>3, <1>4, <1>5, <1>6 DEF AppWorks

LEMMA AddonCrashKeeps ==
    ASSUME AddonInv, AddonCrash
    PROVE  AddonInv'
<1>1. /\ caller' = [c \in AddonClients |-> NoCall] /\ AddonTypes /\ Slips("crash")
      /\ UNCHANGED <<addon, attached, instance, urls, wanted, outdated>>
      /\ astray' = astray \cup {caller[c].name : c \in {c \in AddonClients : caller[c].pc # "idle"}}
  BY DEF AddonCrash, AddonInv
<1>2. /\ astray \subseteq astray' /\ astray' \subseteq AddonNames
      /\ \A n : n \notin astray' => n \notin astray /\ CallsOn(n) = {}
  <2>1. \A c \in AddonClients : caller[c].pc # "idle" => caller[c].name \in AddonNames
    BY DEF AddonInv, CallLegal
  <2> QED
    BY <1>1, <2>1 DEF AddonTypes, CallsOn
<1>3. caller' \in [AddonClients -> CallRecord] /\ \A c \in AddonClients : caller'[c].pc = "idle"
  BY <1>1, NoCallIsIdle
<1>4. AddonRows' = AddonRows /\ \A n : AddonsOf(n)' = AddonsOf(n)
  BY <1>1 DEF AddonRows, AddonsOf
<1>5. AddonTypes'
  <2>1. tally' \in AddonTally
    BY <1>1, SlipTyped
  <2>2. appWork' \in WorkRecord
    BY <1>1, NothingRendered DEF AddonCrash, AddonTypes, WorkRecord
  <2> QED
    BY <1>1, <1>2, <1>3, <1>4, <2>1, <2>2 DEF AddonTypes
<1>6. \A d \in AddonClients : CallLegal(caller'[d])
  BY <1>3 DEF CallLegal
<1>7. NamesOwn'
  BY <1>1, <1>4 DEF AddonInv, NamesOwn
<1>8. ASSUME NEW n \in AddonNames, n \notin astray'  PROVE AddonInStep(n)'
  <2>1. AddonInStep(n) /\ CallsOn(n) = {}
    BY <1>2, <1>8 DEF AddonInv
  <2>2. CallsOn(n)' = {}
    BY <1>3 DEF CallsOn
  <2> QED
    BY <1>1, <1>4, <2>1, <2>2
       DEF AddonInStep, CallsKnow, AttachedAsWanted, UrlsInStep, NoSync, ObjectsInStep, RowNamed
<1> QED
  BY <1>5, <1>6, <1>7, <1>8 DEF AddonInv

LEMMA AddonInvInductive == AddonInv /\ [AddonNext]_addonVars => AddonInv'
<1> SUFFICES ASSUME AddonInv, [AddonNext]_addonVars  PROVE AddonInv'
  OBVIOUS
<1>1. CASE \E c \in AddonClients : CallerStep(c)
  <2>1. PICK c \in AddonClients : CallerStep(c)
    BY <1>1
  <2>2. CASE \/ AddonAsked(c) \/ AttachAsked(c) \/ DetachAsked(c) \/ UpgradeAsked(c) \/ RemoveAsked(c)
    BY <2>2, AskedKeeps
  <2>3. CASE InsertsAddon(c)
    BY <2>3, InsertKeeps
  <2>4. CASE AppliesAddon(c)
    BY <2>4, ApplyKeeps
  <2>5. CASE Attaches(c) \/ Detaches(c)
    BY <2>5, AttachKeeps
  <2>6. CASE SyncsIfLive(c) \/ RendersUrls(c)
    BY <2>6, OwedSyncKeeps
  <2>7. CASE SetsVersion(c)
    BY <2>7, VersionKeeps
  <2>8. CASE ChecksAttached(c)
    BY <2>8, ChecksKeeps
  <2>9. CASE DeletesObjects(c) \/ DeletesVolume(c)
    BY <2>9, DeleteObjectsKeeps
  <2>10. CASE AppliesAddonFails(c) \/ DeletesObjectsFails(c) \/ SendFails(c)
    BY <2>10, FailureKeeps
  <2>11. CASE DeletesAddonRow(c)
    BY <2>11, DeleteRowKeeps
  <2>12. CASE SendsUrls(c)
    BY <2>12, SendKeeps
  <2> QED
    BY <2>1, <2>2, <2>3, <2>4, <2>5, <2>6, <2>7, <2>8, <2>9, <2>10, <2>11, <2>12 DEF CallerStep
<1>2. CASE AppWorks
  BY <1>2, AppWorkKeeps
<1>3. CASE AddonCrash
  BY <1>3, AddonCrashKeeps
<1>4. CASE UNCHANGED addonVars
  <2>1. UNCHANGED <<addon, attached, instance, urls, appWork, caller, wanted, outdated, astray, tally>>
    BY <1>4 DEF addonVars
  <2>2. appWork \in WorkRecord /\ tally \in AddonTally
    BY DEF AddonInv, AddonTypes
  <2> QED
    BY <2>1, <2>2, NothingKeeps
<1> QED
  BY <1>1, <1>2, <1>3, <1>4 DEF AddonNext

LEMMA AddonInvWhole == AddonInv => AddonTypeOK /\ AddonsWhole
<1> SUFFICES ASSUME AddonInv  PROVE AddonTypeOK /\ AddonsWhole
  OBVIOUS
<1>1. AddonTypes
  BY DEF AddonInv
<1>2. AddonTypeOK
  <2>1. \A c \in AddonClients : /\ caller[c].pc \in CallerPCs /\ caller[c].id \in 0 .. MaxAddonId
                                /\ caller[c].urls \in UrlSets
    BY <1>1 DEF AddonTypes, CallRecord
  <2>2. tally.minted \in 0 .. MaxMinted /\ tally.calls \in 0 .. MaxCalls
    BY <1>1 DEF AddonTypes, AddonTally
  <2>3. \A U \in UrlSets : U \in SUBSET Url
    BY NothingRendered
  <2>4. appWork \in AppWork
    BY <1>1, <2>3 DEF AddonTypes, WorkRecord, AppWork
  <2> QED
    BY <1>1, <2>1, <2>2, <2>3, <2>4 DEF AddonTypes, AddonTypeOK
<1>3. ASSUME NEW n \in AddonNames \ astray, CallsOn(n) = {}
      PROVE  AddonWhole(n) /\ (Synced => UrlsWhole(n))
  <2>1. AddonInStep(n)
    BY DEF AddonInv
  <2>2. AttachedAsWanted(n)
    BY <2>1 DEF AddonInStep
  <2>3. attached \subseteq AddonRows
    BY <1>1 DEF AddonTypes
  <2>4. AddonWhole(n)
    <3>1. CASE AddonsOf(n) = {}
      <4>1. \A i \in attached : addon[i].name # n
        BY <2>3, <3>1 DEF AddonsOf
      <4>2. n \notin wanted
        BY <2>2, <4>1 DEF AttachedAsWanted
      <4>3. instance[n] = NoInstance
        BY <2>1, <3>1 DEF AddonInStep, ObjectsInStep
      <4> QED
        BY <3>1, <4>2, <4>3 DEF AddonWhole
    <3>2. CASE AddonsOf(n) # {}
      <4>1. PICK i \in AddonsOf(n) : TRUE
        BY <3>2
      <4>2. i \in AddonRows /\ addon[i].name = n
        BY <4>1 DEF AddonsOf
      <4>3. \A j \in attached : addon[j].name = n => j = i
        BY <2>3, <4>2 DEF AddonInv, NamesOwn
      <4>4. instance[n] = [up |-> TRUE, secret |-> addon[i].password, volume |-> addon[i].password]
        BY <1>3, <2>1, <4>1 DEF AddonInStep, ObjectsInStep, Running
      <4>5. n \in wanted <=> i \in attached
        BY <2>2, <4>2, <4>3 DEF AttachedAsWanted
      <4> QED
        BY <4>1, <4>4, <4>5 DEF AddonWhole
    <3> QED
      BY <3>1, <3>2
  <2>5. ASSUME Synced  PROVE UrlsWhole(n)
    <3>1. PICK mine : mine = {u \in urls : u.name = n}
      OBVIOUS
    <3>2. /\ \A u \in urls : u.name = n =>
                \E i \in attached : addon[i].name = n /\ addon[i].password = u.password
          /\ \A i \in attached : addon[i].name = n => \E u \in urls : u.name = n
      BY <1>3, <2>1, <2>5 DEF AddonInStep, UrlsInStep, NoSync, Synced
    <3>3. \A u, v \in urls : u.key = v.key => u = v
      BY <1>1 DEF AddonTypes, UrlSets
    <3>4. n \in wanted <=> mine # {}
      BY <2>2, <3>1, <3>2 DEF AttachedAsWanted
    <3>5. \A u \in mine : \E i \in AddonsOf(n) : u.password = addon[i].password
      BY <2>3, <3>1, <3>2 DEF AddonsOf
    <3>6. \A u \in mine : \A v \in urls \ {u} : v.key # u.key
      BY <3>1, <3>3
    <3> QED
      BY <3>1, <3>4, <3>5, <3>6 DEF UrlsWhole
  <2> QED
    BY <2>4, <2>5
<1> QED
  BY <1>2, <1>3 DEF AddonsWhole

\* Every variable of the addons keeps its shape, for any number of names, clients,
\* rows and passwords (addons.go, store/addons.go).
THEOREM AddonTypeInvariant == AddonSpec => []AddonTypeOK
<1>1. AddonInv => AddonTypeOK
  BY AddonInvWhole
<1> QED
  BY <1>1, AddonInitially, AddonInvInductive, PTL DEF AddonSpec

\* Nothing but what is listed takes an addon apart: with any names, clients, faults,
\* deploys and syncs, one that nobody is at work on has its row, Secret and volume under
\* one password and is attached if that was asked last; and once no sync is owed, none
\* was skipped or failed, and no older render was applied last, the environment of the
\* app has its URL exactly when it is attached, under a key of its own (createAddon,
\* attachAddon, removeAddon, upgradeAddon, syncIfLive, applyAndGate).
THEOREM AddonsStayWhole == AddonSpec => []AddonsWhole
<1>1. AddonInv => AddonsWhole
  BY AddonInvWhole
<1> QED
  BY <1>1, AddonInitially, AddonInvInductive, PTL DEF AddonSpec

--------------------------------
\* Settings: what a request, and a deploy, still owe the cluster.

AskerRecord ==
    [pc : AskerPCs, kind : AllSettingKinds, a : SettingRow, more : Nat, todo : SUBSET Columns,
     live : BOOLEAN, volume : BOOLEAN, alone : BOOLEAN, owes : BOOLEAN]
DeployRecord ==
    [n : Nat, a : SettingRow, pc : {"build", "gate"}, alone : BOOLEAN]

SettingTypes ==
    /\ app \in SettingRow /\ volume \in BOOLEAN /\ cluster \in Objects
    /\ latest \in {"none", "building", "live", "failed"}
    /\ deploys \subseteq DeployRecord /\ \A x \in deploys : x.n <= spent.deploys
    /\ asker \in [Askers -> AskerRecord]
    /\ settled \in BOOLEAN
    /\ spent \in [deploys : Nat, faults : SUBSET {"store", "kube"}]

\* Nothing of the app is in its namespace before a deploy was applied.
NothingEarly ==
    /\ latest = "live" => cluster.running
    /\ \A x \in deploys : x.pc = "gate" => cluster.running
    /\ ~ cluster.running => cluster.hpa = 0 /\ ~ cluster.pdb

\* No object of the app that a row like this one would not render to.
NoneStale(a) == (a.min = 0 => cluster.hpa = 0) /\ (cluster.pdb => Floor(a) >= 2)

AtRest == NoneStale(app) /\ (latest = "live" => InStep)

\* Where a request can be, for what it asks.
AskerLegal(r) ==
    /\ r.pc = "check" => r.kind \in {"scale", "autoscale"}
    /\ r.pc \in {"check", "write"} =>
          /\ r.todo # {}
          /\ r.kind = "scale" => "min" \notin r.todo
          /\ r.kind = "autoscale" => r.todo = {"min"}
          /\ r.kind \notin {"scale", "autoscale"} => r.todo \subseteq {"volume", "none"}
    /\ r.pc \notin {"idle", "check", "write"} => r.todo = {}
    /\ r.pc = "unscale" => r.kind = "autoscale"
    /\ r.pc = "trim" => r.kind \in {"scale", "autoscale"}

\* What a request that nothing disturbed may count on.
Due(r) == settled \/ (r.kind = "autoscale" /\ r.live)

Undisturbed(q, r) ==
    /\ AtIt = {q} /\ deploys = {}
    /\ "replicas" \notin r.todo => r.a.replicas = app.replicas
    /\ "min" \notin r.todo => r.a.min = app.min
    /\ "cpu" \notin r.todo => r.a.cpu = app.cpu
    /\ "gpu" \notin r.todo => r.a.gpu = app.gpu
    /\ r.pc \in {"check", "write"} /\ r.kind # "autoscale" /\ settled => (r.a.min = 0 => cluster.hpa = 0)
    /\ r.pc \in {"sync", "apply"} /\ Due(r) => (r.a.min = 0 => cluster.hpa = 0)
    /\ r.kind \notin {"scale", "autoscale"} /\ settled => (cluster.pdb => Floor(r.a) >= 2)
    /\ r.pc = "apply" => r.volume = volume
    /\ r.pc = "trim" /\ ~ r.owes /\ Due(r) =>
          /\ cluster.volume = volume /\ cluster.gpu = app.gpu /\ cluster.hpa = app.min
          /\ app.min = 0 => cluster.replicas = app.replicas
          /\ Floor(app) >= 2 => cluster.pdb

\* What a deploy that nothing disturbed may count on.
Unraced(x) ==
    /\ AtIt = {} /\ deploys = {x} /\ x.n = spent.deploys /\ x.a = app
    /\ settled => NoneStale(app) /\ (x.pc = "gate" => InStep)

RestKept   == settled /\ deploys = {} /\ (\A q \in AtIt : asker[q].pc = "check") => AtRest
AloneKept  == \A q \in AtIt : asker[q].alone => Undisturbed(q, asker[q])
DeployKept == \A x \in deploys : x.alone => Unraced(x)

SettingsInv ==
    /\ SettingTypes /\ NothingEarly
    /\ \A q \in Askers : AskerLegal(asker[q])
    /\ RestKept /\ AloneKept /\ DeployKept

LEMMA SettingConstants ==
    /\ IsFiniteSet(Askers) /\ SettingKinds \subseteq AllSettingKinds
    /\ ScaleColumns \subseteq {"replicas", "cpu", "gpu"}
    /\ MaxReplicas \in Nat /\ MaxReplicas # 0 /\ GPUQuota \in Nat /\ MaxAppDeploys \in Nat
    /\ SettingFaults \subseteq {"store", "kube"}
<1>1. MaxReplicas \in Nat \ {0}
  BY SettingsAssumption
<1> QED
  BY <1>1, SettingsAssumption

LEMMA RowColumns ==
    ASSUME NEW a \in SettingRow
    PROVE  /\ DOMAIN a = {"replicas", "min", "cpu", "gpu"}
           /\ a.replicas \in Counts /\ a.min \in Counts /\ a.cpu \in BOOLEAN /\ a.gpu \in 0 .. 1
           /\ a.replicas \in Nat /\ a.min \in Nat /\ a.gpu \in Nat
           /\ PlannedGPUs(a) \in Nat /\ Floor(a) \in Nat
<1>1. /\ DOMAIN a = {"replicas", "min", "cpu", "gpu"}
      /\ a.replicas \in Counts /\ a.min \in Counts /\ a.cpu \in BOOLEAN /\ a.gpu \in 0 .. 1
  BY DEF SettingRow
<1>2. a.replicas \in Nat /\ a.min \in Nat /\ a.gpu \in Nat
  BY <1>1, SettingConstants DEF Counts
<1>3. Floor(a) \in Nat
  BY <1>2 DEF Floor
<1>4. PlannedGPUs(a) \in Nat
  BY <1>2 DEF PlannedGPUs
<1> QED
  BY <1>1, <1>2, <1>3, <1>4

\* Writing one column.
OneColumn(r, a, b, c) ==
    a \in SettingRow /\ b \in SettingRow /\ c \in DOMAIN a /\ r = [a EXCEPT ![c] = b[c]]

LEMMA ColumnWritten ==
    ASSUME NEW a, NEW b, NEW c, NEW r, OneColumn(r, a, b, c)
    PROVE  /\ r \in SettingRow
           /\ r.replicas = (IF c = "replicas" THEN b.replicas ELSE a.replicas)
           /\ r.min = (IF c = "min" THEN b.min ELSE a.min)
           /\ r.cpu = (IF c = "cpu" THEN b.cpu ELSE a.cpu)
           /\ r.gpu = (IF c = "gpu" THEN b.gpu ELSE a.gpu)
<1>1. /\ c \in {"replicas", "min", "cpu", "gpu"} /\ a \in SettingRow /\ b \in SettingRow
      /\ r = [a EXCEPT ![c] = b[c]]
  BY RowColumns DEF OneColumn
<1>2. CASE c = "replicas"
  BY <1>1, <1>2 DEF SettingRow
<1>3. CASE c = "min"
  BY <1>1, <1>3 DEF SettingRow
<1>4. CASE c = "cpu"
  BY <1>1, <1>4 DEF SettingRow
<1>5. CASE c = "gpu"
  BY <1>1, <1>5 DEF SettingRow
<1> QED
  BY <1>1, <1>2, <1>3, <1>4, <1>5

\* scaleApp has a next column to write as long as one is left.
LEMMA NextColumnIsOne ==
    ASSUME SettingTypes, NEW q \in Askers, asker[q].todo # {}
    PROVE  NextColumn(q) \in asker[q].todo
<1> DEFINE P(c) == /\ c = "gpu" => asker[q].todo = {"gpu"}
                   /\ c = "cpu" => "replicas" \notin asker[q].todo
<1>1. \E c \in asker[q].todo : P(c)
  <2>1. CASE "replicas" \in asker[q].todo
    BY <2>1
  <2>2. CASE "replicas" \notin asker[q].todo /\ asker[q].todo = {"gpu"}
    BY <2>2
  <2>3. CASE "replicas" \notin asker[q].todo /\ asker[q].todo # {"gpu"}
    BY <2>3
  <2> QED
    BY <2>1, <2>2, <2>3
<1> QED
  BY <1>1 DEF NextColumn

\* What rendering and applying a row makes of the cluster.
LEMMA AppliedIs ==
    ASSUME SettingTypes, NEW a \in SettingRow, NEW v \in BOOLEAN, NEW k, k = Applied(a, v)
    PROVE  /\ k \in Objects /\ k.running /\ k.gpu = a.gpu /\ k.volume = v
           /\ k.replicas = (IF a.min > 0 THEN cluster.replicas ELSE a.replicas)
           /\ k.hpa = (IF a.min > 0 THEN a.min ELSE cluster.hpa)
           /\ k.pdb <=> cluster.pdb \/ Floor(a) >= 2
<1>1. a.replicas \in Counts /\ a.min \in Counts /\ a.gpu \in 0 .. 1
  BY RowColumns
<1>2. cluster.replicas \in Counts /\ cluster.hpa \in Counts /\ cluster.pdb \in BOOLEAN
  BY DEF SettingTypes, Objects
<1>3. PICK reps \in Counts : reps = (IF a.min > 0 THEN cluster.replicas ELSE a.replicas)
  BY <1>1, <1>2
<1>4. PICK hpa \in Counts : hpa = (IF a.min > 0 THEN a.min ELSE cluster.hpa)
  BY <1>1, <1>2
<1>5. PICK pdb \in BOOLEAN : pdb = (cluster.pdb \/ Floor(a) >= 2)
  OBVIOUS
<1>6. k = [running |-> TRUE, gpu |-> a.gpu, volume |-> v, replicas |-> reps, hpa |-> hpa, pdb |-> pdb]
  BY <1>3, <1>4, <1>5 DEF Applied
<1>7. k \in Objects
  BY <1>1, <1>3, <1>4, <1>5, <1>6 DEF Objects
<1>8. /\ k.running = TRUE /\ k.gpu = a.gpu /\ k.volume = v /\ k.replicas = reps
      /\ k.hpa = hpa /\ k.pdb = pdb
  BY <1>6
<1>9. k.pdb <=> cluster.pdb \/ Floor(a) >= 2
  BY <1>5, <1>8, Zenon
<1> QED
  BY <1>3, <1>4, <1>7, <1>8, <1>9, Zenon

--------------------------------
\* How a request ends, and how it goes on.

LEMMA WaitingIs ==
    /\ NewApp \in SettingRow /\ Waiting \in AskerRecord /\ Waiting.pc = "idle" /\ AskerLegal(Waiting)
<1>1. NewApp \in SettingRow
  BY SettingConstants DEF NewApp, SettingRow, Counts
<1>2. /\ Waiting.pc = "idle" /\ Waiting \in AskerRecord
  BY <1>1 DEF Waiting, AskerRecord, AskerPCs, AllSettingKinds
<1>3. AskerLegal(Waiting)
  BY <1>2 DEF AskerLegal
<1> QED
  BY <1>1, <1>2, <1>3

\* Two requests, or a request and a deploy, are not alone.
LEMMA AloneIsAlone ==
    ASSUME SettingsInv, NEW q \in AtIt
    PROVE  /\ q \in Askers /\ asker[q] \in AskerRecord /\ asker[q].pc # "idle" /\ AskerLegal(asker[q])
           /\ \A r \in AtIt : r # q => ~ asker[r].alone
           /\ asker[q].alone => AtIt = {q} /\ deploys = {} /\ Undisturbed(q, asker[q])
           /\ \A x \in deploys : ~ x.alone
<1>1. q \in Askers /\ asker[q] \in AskerRecord /\ asker[q].pc # "idle" /\ AskerLegal(asker[q])
  BY DEF AtIt, SettingsInv, SettingTypes
<1>2. \A r \in AtIt : asker[r].alone => AtIt = {r} /\ deploys = {} /\ Undisturbed(r, asker[r])
  BY DEF SettingsInv, AloneKept, Undisturbed
<1>3. \A x \in deploys : x.alone => AtIt = {}
  BY DEF SettingsInv, DeployKept, Unraced
<1> QED
  BY <1>1, <1>2, <1>3

\* The state a step of a request leaves is typed.
StepTyped ==
    /\ app' \in SettingRow /\ volume' \in BOOLEAN /\ cluster' \in Objects
    /\ UNCHANGED <<latest, deploys>> /\ spent'.deploys = spent.deploys
    /\ spent' \in [deploys : Nat, faults : SUBSET {"store", "kube"}]
    /\ cluster.running => cluster'.running
    /\ ~ cluster'.running => cluster'.hpa = 0 /\ ~ cluster'.pdb

LEMMA StepTypedKeeps ==
    ASSUME SettingsInv, StepTyped, asker' \in [Askers -> AskerRecord], settled' \in BOOLEAN
    PROVE  SettingTypes' /\ NothingEarly'
<1>1. SettingTypes'
  BY DEF SettingsInv, SettingTypes, StepTyped
<1>2. NothingEarly'
  BY DEF SettingsInv, NothingEarly, StepTyped
<1> QED
  BY <1>1, <1>2

LEMMA FinishKeeps ==
    ASSUME SettingsInv, NEW q \in AtIt, NEW owes \in BOOLEAN, Finishes(q, owes), StepTyped,
           asker[q].alone /\ ~ owes /\ ~ asker[q].owes /\ Due(asker[q]) => AtRest'
    PROVE  SettingsInv'
<1>1. /\ q \in Askers /\ asker[q] \in AskerRecord /\ asker[q].pc # "idle"
      /\ \A r \in AtIt : r # q => ~ asker[r].alone
      /\ asker[q].alone => AtIt = {q} /\ deploys = {}
      /\ \A x \in deploys : ~ x.alone
  BY AloneIsAlone
<1>2. /\ asker' = [asker EXCEPT ![q] = Waiting] /\ asker \in [Askers -> AskerRecord]
      /\ settled' \in BOOLEAN
      /\ settled' <=> asker[q].alone /\ ~ owes /\ ~ asker[q].owes /\ Due(asker[q])
  BY DEF Finishes, Due, SettingsInv, SettingTypes
<1>3. /\ asker' \in [Askers -> AskerRecord] /\ asker'[q].pc = "idle"
      /\ \A r \in Askers : r # q => asker'[r] = asker[r]
  BY <1>1, <1>2, WaitingIs
<1>4. AtIt' = AtIt \ {q} /\ \A r \in AtIt' : r \in AtIt /\ r # q /\ asker'[r] = asker[r]
  BY <1>1, <1>3 DEF AtIt
<1>5. SettingTypes' /\ NothingEarly'
  BY <1>2, <1>3, StepTypedKeeps
<1>6. \A r \in Askers : AskerLegal(asker'[r])
  BY <1>1, <1>2, WaitingIs DEF SettingsInv
<1>7. RestKept'
  BY <1>2 DEF RestKept
<1>8. AloneKept'
  BY <1>1, <1>4 DEF AloneKept
<1>9. DeployKept'
  BY <1>1 DEF DeployKept, StepTyped
<1> QED
  BY <1>5, <1>6, <1>7, <1>8, <1>9 DEF SettingsInv

LEMMA MoveKeeps ==
    ASSUME SettingsInv, NEW q \in AtIt, NEW e \in AskerRecord, asker' = [asker EXCEPT ![q] = e],
           e.alone = asker[q].alone, e.pc \notin {"idle", "check"}, AskerLegal(e),
           UNCHANGED settled, StepTyped,
           asker[q].alone => Undisturbed(q, e)'
    PROVE  SettingsInv'
<1>1. /\ q \in Askers /\ asker[q] \in AskerRecord /\ asker[q].pc # "idle"
      /\ \A r \in AtIt : r # q => ~ asker[r].alone
      /\ \A x \in deploys : ~ x.alone
  BY AloneIsAlone
<1>2. asker \in [Askers -> AskerRecord] /\ settled' \in BOOLEAN
  BY DEF SettingsInv, SettingTypes
<1>3. /\ asker' \in [Askers -> AskerRecord] /\ asker'[q] = e
      /\ \A r \in Askers : r # q => asker'[r] = asker[r]
  BY <1>1, <1>2
<1>4. AtIt' = AtIt
  BY <1>1, <1>3 DEF AtIt
<1>5. SettingTypes' /\ NothingEarly'
  BY <1>2, <1>3, StepTypedKeeps
<1>6. \A r \in Askers : AskerLegal(asker'[r])
  BY <1>1, <1>3 DEF SettingsInv
<1>7. RestKept'
  <2>1. q \in AtIt' /\ asker'[q].pc # "check"
    BY <1>3, <1>4
  <2> QED
    BY <2>1 DEF RestKept
<1>8. AloneKept'
  <2>1. ASSUME NEW r \in AtIt', asker'[r].alone  PROVE Undisturbed(r, asker[r])'
    <3>1. r \in AtIt /\ r \in Askers
      BY <1>4 DEF AtIt
    <3>2. r = q
      BY <1>1, <1>3, <2>1, <3>1
    <3> QED
      BY <1>3, <2>1, <3>2
  <2> QED
    BY <2>1 DEF AloneKept
<1>9. DeployKept'
  BY <1>1 DEF DeployKept, StepTyped
<1> QED
  BY <1>5, <1>6, <1>7, <1>8, <1>9 DEF SettingsInv

\* Whoever begins leaves those at work where they are.
LEMMA NotAloneIs ==
    ASSUME SettingTypes, \A q \in Askers : AskerLegal(asker[q])
    PROVE  /\ NotAlone \in [Askers -> AskerRecord]
           /\ \A r \in Askers \ AtIt : NotAlone[r] = asker[r]
           /\ \A r \in AtIt : /\ NotAlone[r].alone = FALSE /\ NotAlone[r].pc = asker[r].pc
                              /\ AskerLegal(NotAlone[r])
<1>1. ASSUME NEW r \in AtIt
      PROVE  /\ NotAlone[r] \in AskerRecord
             /\ NotAlone[r].alone = FALSE /\ NotAlone[r].pc = asker[r].pc
             /\ AskerLegal(NotAlone[r])
  <2>1. r \in Askers /\ asker[r] \in AskerRecord /\ AskerLegal(asker[r])
    BY DEF AtIt, SettingTypes
  <2>2. PICK e \in AskerRecord : e = [asker[r] EXCEPT !.alone = FALSE]
    BY <2>1 DEF AskerRecord
  <2>3. /\ e.alone = FALSE /\ e.pc = asker[r].pc /\ e.kind = asker[r].kind /\ e.todo = asker[r].todo
    BY <2>1, <2>2 DEF AskerRecord
  <2>4. NotAlone[r] = e
    BY <2>1, <2>2 DEF NotAlone
  <2>5. AskerLegal(e)
    BY <2>1, <2>3 DEF AskerLegal
  <2> QED
    BY <2>2, <2>3, <2>4, <2>5
<1>2. \A r \in Askers \ AtIt : NotAlone[r] = asker[r] /\ NotAlone[r] \in AskerRecord
  BY DEF NotAlone, SettingTypes
<1>3. NotAlone = [r \in Askers |-> NotAlone[r]]
  BY DEF NotAlone
<1>4. AtIt \subseteq Askers
  BY DEF AtIt
<1> QED
  BY <1>1, <1>2, <1>3, <1>4

LEMMA DeploysAre ==
    ASSUME SettingTypes, NEW S, S = {[x EXCEPT !.alone = FALSE] : x \in deploys}
    PROVE  /\ S \subseteq DeployRecord /\ \A x \in S : ~ x.alone
           /\ \A x \in S : \E y \in deploys : y.n = x.n /\ y.pc = x.pc
           /\ S = {} <=> deploys = {}
<1>1. ASSUME NEW y \in deploys, NEW x, x = [y EXCEPT !.alone = FALSE]
      PROVE  x \in DeployRecord /\ x.alone = FALSE /\ y.n = x.n /\ y.pc = x.pc
  BY <1>1 DEF SettingTypes, DeployRecord
<1>2. ASSUME NEW x \in S
      PROVE  /\ x \in DeployRecord /\ x.alone = FALSE
             /\ \E y \in deploys : y.n = x.n /\ y.pc = x.pc
  <2>1. PICK y \in deploys : x = [y EXCEPT !.alone = FALSE]
    OBVIOUS
  <2> QED
    BY <1>1, <2>1
<1>3. S = {} <=> deploys = {}
  OBVIOUS
<1> QED
  BY <1>2, <1>3

--------------------------------
\* The steps of a request.

LEMMA SettingsInitially == SettingsInit => SettingsInv
<1> SUFFICES ASSUME SettingsInit  PROVE SettingsInv
  OBVIOUS
<1> USE DEF SettingsInit
<1>1. app \in SettingRow
  <2>1. [NewApp EXCEPT !.cpu = TRUE] \in SettingRow
    BY WaitingIs DEF SettingRow
  <2> QED
    BY <2>1, WaitingIs
<1>2. cluster \in Objects
  BY SettingConstants DEF Objects, Counts
<1>3. SettingTypes
  BY <1>1, <1>2, WaitingIs DEF SettingTypes
<1>4. NothingEarly
  BY DEF NothingEarly
<1>5. AtIt = {}
  BY WaitingIs DEF AtIt
<1>6. RestKept
  BY DEF RestKept, AtRest, NoneStale
<1>7. \A q \in Askers : AskerLegal(asker[q])
  BY WaitingIs
<1>8. AloneKept /\ DeployKept
  BY <1>5 DEF AloneKept, DeployKept
<1> QED
  BY <1>3, <1>4, <1>6, <1>7, <1>8 DEF SettingsInv

\* Nothing is in progress and nothing is owed: a request may count on that.
LEMMA SettingAskedKeeps ==
    ASSUME SettingsInv, NEW q \in Askers, NEW kind \in AllSettingKinds, NEW a \in SettingRow,
           NEW todo \in SUBSET Columns, todo # {}, NEW pc \in {"check", "write"},
           Asked(q, kind, a, todo, pc),
           pc = "check" <=> kind \in {"scale", "autoscale"},
           kind = "scale" => "min" \notin todo,
           kind = "autoscale" => todo = {"min"},
           kind \notin {"scale", "autoscale"} => todo \subseteq {"volume", "none"},
           \A c \in DOMAIN app \ todo : a[c] = app[c]
    PROVE  SettingsInv'
<1>1. /\ SettingTypes /\ asker[q].pc = "idle" /\ q \notin AtIt /\ app \in SettingRow
      /\ UNCHANGED <<app, volume, cluster, latest, settled, spent>>
  BY DEF SettingsInv, SettingTypes, Asked, AtIt
<1>2. PICK more \in Nat : more = IF PlannedGPUs(a) > PlannedGPUs(app)
                                 THEN PlannedGPUs(a) - PlannedGPUs(app) ELSE 0
  <2>1. PICK x, y \in Nat : x = PlannedGPUs(a) /\ y = PlannedGPUs(app)
    BY <1>1, RowColumns
  <2> QED
    BY <2>1
<1>3. PICK free \in BOOLEAN : free = NobodyAtIt
  BY DEF NobodyAtIt
<1>4. PICK e \in AskerRecord :
        /\ e = [Waiting EXCEPT !.pc = pc, !.kind = kind, !.a = a, !.todo = todo, !.more = more,
                               !.alone = free]
        /\ e.pc = pc /\ e.kind = kind /\ e.a = a /\ e.todo = todo /\ e.alone = free /\ e.live = FALSE
  <2>1. PICK w \in AskerRecord : w = Waiting /\ w.live = FALSE
    BY WaitingIs DEF Waiting
  <2>2. pc \in AskerPCs
    BY DEF AskerPCs
  <2>3. PICK e \in AskerRecord : e = [w EXCEPT !.pc = pc, !.kind = kind, !.a = a, !.todo = todo,
                                               !.more = more, !.alone = free]
    BY <2>2 DEF AskerRecord
  <2> QED
    BY <2>1, <2>3 DEF AskerRecord
<1>5. asker' = [NotAlone EXCEPT ![q] = e]
  BY <1>2, <1>3, <1>4 DEF Asked
<1>6. /\ NotAlone \in [Askers -> AskerRecord]
      /\ \A r \in Askers \ AtIt : NotAlone[r] = asker[r]
      /\ \A r \in AtIt : /\ NotAlone[r].alone = FALSE /\ NotAlone[r].pc = asker[r].pc
                         /\ AskerLegal(NotAlone[r])
  BY <1>1, NotAloneIs DEF SettingsInv
<1>7. /\ asker' \in [Askers -> AskerRecord] /\ asker'[q] = e
      /\ \A r \in Askers : r # q => asker'[r] = NotAlone[r]
  BY <1>5, <1>6
<1>8. /\ AtIt' = AtIt \cup {q}
      /\ \A r \in AtIt : r # q /\ ~ asker'[r].alone /\ asker'[r].pc = asker[r].pc
  <2>1. \A r \in AtIt : r \in Askers /\ r # q
    BY <1>1 DEF AtIt
  <2>2. \A r \in AtIt : ~ asker'[r].alone /\ asker'[r].pc = asker[r].pc
    BY <1>6, <1>7, <2>1
  <2>3. \A r \in Askers : r \in AtIt' <=> r \in AtIt \/ r = q
    <3>1. e.pc # "idle"
      BY <1>4
    <3>2. \A r \in Askers : r # q /\ r \notin AtIt => asker'[r] = asker[r]
      BY <1>6, <1>7
    <3> QED
      BY <1>1, <1>7, <2>2, <3>1, <3>2 DEF AtIt
  <2>4. AtIt' \subseteq Askers
    BY DEF AtIt
  <2> QED
    BY <2>1, <2>2, <2>3, <2>4
<1>9. /\ deploys' = {[x EXCEPT !.alone = FALSE] : x \in deploys}
      /\ deploys' \subseteq DeployRecord /\ \A x \in deploys' : ~ x.alone
      /\ \A x \in deploys' : \E y \in deploys : y.n = x.n /\ y.pc = x.pc
      /\ deploys' = {} <=> deploys = {}
  <2>1. deploys' = {[x EXCEPT !.alone = FALSE] : x \in deploys}
    BY DEF Asked
  <2> QED
    BY <1>1, <2>1, DeploysAre
<1>10. SettingTypes'
  BY <1>1, <1>7, <1>9 DEF SettingTypes
<1>11. NothingEarly'
  BY <1>1, <1>9 DEF SettingsInv, NothingEarly
<1>12. \A r \in Askers : AskerLegal(asker'[r])
  <2>1. AskerLegal(e)
    BY <1>4 DEF AskerLegal
  <2>2. \A r \in Askers : r \notin AtIt => AskerLegal(NotAlone[r])
    BY <1>6 DEF SettingsInv
  <2> QED
    BY <1>6, <1>7, <2>1, <2>2
<1>13. RestKept'
  <2>1. ASSUME settled, deploys = {}, \A r \in AtIt' : asker'[r].pc = "check"  PROVE AtRest
    <3>1. \A r \in AtIt : asker[r].pc = "check"
      BY <1>8, <2>1
    <3> QED
      BY <2>1, <3>1 DEF SettingsInv, RestKept
  <2>2. AtRest => AtRest'
    BY <1>1 DEF AtRest, NoneStale, InStep
  <2> QED
    BY <1>1, <1>9, <2>1, <2>2 DEF RestKept
<1>14. AloneKept'
  <2>1. ASSUME free  PROVE Undisturbed(q, e)'
    <3>1. AtIt = {} /\ deploys = {}
      BY <1>3, <2>1 DEF NobodyAtIt
    <3>2. settled => NoneStale(app)
      BY <3>1 DEF SettingsInv, RestKept, AtRest
    <3>3. /\ "replicas" \notin todo => a.replicas = app.replicas
          /\ "min" \notin todo => a.min = app.min
          /\ "cpu" \notin todo => a.cpu = app.cpu
          /\ "gpu" \notin todo => a.gpu = app.gpu
      BY <1>1, RowColumns
    <3>4. kind # "autoscale" => a.min = app.min
      BY <3>3
    <3>5. kind \notin {"scale", "autoscale"} => a.min = app.min /\ a.replicas = app.replicas
      BY <3>3
    <3>6. kind # "autoscale" /\ settled => (a.min = 0 => cluster.hpa = 0)
      BY <3>2, <3>4 DEF NoneStale
    <3>7. kind \notin {"scale", "autoscale"} /\ settled => (cluster.pdb => Floor(a) >= 2)
      BY <3>2, <3>5 DEF NoneStale, Floor
    <3>8. AtIt' = {q} /\ deploys' = {}
      BY <1>8, <1>9, <3>1
    <3> QED
      BY <1>1, <1>4, <3>3, <3>6, <3>7, <3>8 DEF Undisturbed
  <2>2. ASSUME NEW r \in AtIt', asker'[r].alone  PROVE Undisturbed(r, asker[r])'
    <3>1. r = q /\ free
      BY <1>4, <1>7, <1>8, <2>2
    <3> QED
      BY <1>7, <2>1, <3>1
  <2> QED
    BY <2>2 DEF AloneKept
<1>15. DeployKept'
  BY <1>9 DEF DeployKept
<1> QED
  BY <1>10, <1>11, <1>12, <1>13, <1>14, <1>15 DEF SettingsInv

LEMMA RequestsAsked ==
    ASSUME SettingsInv, NEW q \in Askers,
           ScaleAsked(q) \/ AutoscaleAsked(q) \/ VolumeAsked(q) \/ SyncAsked(q)
    PROVE  SettingsInv'
<1>1. app \in SettingRow /\ DOMAIN app = {"replicas", "min", "cpu", "gpu"}
  BY RowColumns DEF SettingsInv, SettingTypes
<1>2. CASE ScaleAsked(q)
  <2>1. PICK todo \in (SUBSET ScaleColumns) \ {{}}, a \in SettingRow :
          /\ \A c \in DOMAIN app \ todo : a[c] = app[c]
          /\ Asked(q, "scale", a, todo, "check")
    BY <1>2 DEF ScaleAsked
  <2>2. todo \in SUBSET Columns /\ todo # {} /\ "min" \notin todo
    <3>1. todo \subseteq {"replicas", "cpu", "gpu"} /\ todo # {}
      BY SettingConstants
    <3>2. {"replicas", "cpu", "gpu"} \subseteq Columns
      BY DEF Columns
    <3> QED
      BY <3>1, <3>2
  <2>3. "scale" \in AllSettingKinds
    BY DEF AllSettingKinds
  <2> QED
    BY <2>1, <2>2, <2>3, SettingAskedKeeps
<1>3. CASE AutoscaleAsked(q)
  <2>1. PICK n \in Counts : Asked(q, "autoscale", [app EXCEPT !.min = n], {"min"}, "check")
    BY <1>3 DEF AutoscaleAsked
  <2>2. PICK a \in SettingRow : /\ a = [app EXCEPT !.min = n]
                                /\ \A c \in DOMAIN app \ {"min"} : a[c] = app[c]
    BY <1>1 DEF SettingRow
  <2>3. "autoscale" \in AllSettingKinds /\ {"min"} \in SUBSET Columns
    BY DEF AllSettingKinds, Columns
  <2>4. Asked(q, "autoscale", a, {"min"}, "check")
    BY <2>1, <2>2
  <2> QED
    BY <2>2, <2>3, <2>4, SettingAskedKeeps
<1>4. CASE VolumeAsked(q) \/ SyncAsked(q)
  <2>1. PICK kind \in {"addVolume", "removeVolume", "sync"}, todo \in {{"volume"}, {"none"}} :
          Asked(q, kind, app, todo, "write")
    BY <1>4 DEF VolumeAsked, SyncAsked
  <2>2. /\ kind \in AllSettingKinds /\ todo \in SUBSET Columns /\ todo # {}
        /\ kind \notin {"scale", "autoscale"} /\ todo \subseteq {"volume", "none"}
    BY DEF AllSettingKinds, Columns
  <2> QED
    BY <1>1, <2>1, <2>2, SettingAskedKeeps
<1> QED
  BY <1>2, <1>3, <1>4

\* A request is refused before it has changed anything.
LEMMA RefusedKeeps ==
    ASSUME SettingsInv, NEW q \in Askers, asker[q].pc = "check", Refused(q)
    PROVE  SettingsInv'
<1>1. q \in AtIt
  BY DEF AtIt
<1>2. /\ asker[q] \in AskerRecord /\ AskerLegal(asker[q])
      /\ \A r \in AtIt : r # q => ~ asker[r].alone
      /\ \A x \in deploys : ~ x.alone
  BY <1>1, AloneIsAlone
<1>3. /\ asker' = [asker EXCEPT ![q] = Waiting] /\ asker \in [Askers -> AskerRecord]
      /\ UNCHANGED <<app, volume, cluster, latest, deploys, settled, spent>>
  BY DEF Refused, SettingsInv, SettingTypes
<1>4. /\ asker' \in [Askers -> AskerRecord] /\ asker'[q].pc = "idle"
      /\ \A r \in Askers : r # q => asker'[r] = asker[r]
  BY <1>3, WaitingIs
<1>5. AtIt' = AtIt \ {q} /\ \A r \in AtIt' : r \in AtIt /\ r # q /\ asker'[r] = asker[r]
  BY <1>4 DEF AtIt
<1>6. SettingTypes' /\ NothingEarly'
  BY <1>3, <1>4 DEF SettingsInv, SettingTypes, NothingEarly
<1>7. \A r \in Askers : AskerLegal(asker'[r])
  BY <1>3, WaitingIs DEF SettingsInv
<1>8. RestKept'
  <2>1. ASSUME settled, deploys = {}, \A r \in AtIt' : asker'[r].pc = "check"  PROVE AtRest
    <3>1. \A r \in AtIt : asker[r].pc = "check"
      BY <1>4, <1>5, <2>1
    <3> QED
      BY <2>1, <3>1 DEF SettingsInv, RestKept
  <2>2. AtRest => AtRest'
    BY <1>3 DEF AtRest, NoneStale, InStep
  <2> QED
    BY <1>3, <2>1, <2>2 DEF RestKept
<1>9. AloneKept' /\ DeployKept'
  BY <1>2, <1>3, <1>5 DEF AloneKept, DeployKept
<1> QED
  BY <1>6, <1>7, <1>8, <1>9 DEF SettingsInv

LEMMA ChecksKeep ==
    ASSUME SettingsInv, NEW q \in Askers, ScaleChecks(q) \/ AutoscaleChecks(q)
    PROVE  SettingsInv'
<1>1. asker[q].pc = "check" /\ q \in AtIt
  BY DEF ScaleChecks, AutoscaleChecks, AtIt
<1>2. CASE Refused(q)
  BY <1>1, <1>2, RefusedKeeps
<1>3. CASE /\ asker' = [asker EXCEPT ![q].pc = "write", ![q].live = latest = "live"]
           /\ UNCHANGED <<app, volume, cluster, latest, deploys, settled, spent>>
  <2>1. /\ asker[q] \in AskerRecord /\ AskerLegal(asker[q]) /\ SettingTypes
        /\ asker[q].alone => AtIt = {q} /\ deploys = {} /\ Undisturbed(q, asker[q])
    BY <1>1, AloneIsAlone DEF SettingsInv
  <2>2. PICK live \in BOOLEAN : live = (latest = "live")
    OBVIOUS
  <2>3. PICK e \in AskerRecord : e = [asker[q] EXCEPT !.pc = "write", !.live = live]
    BY <2>1 DEF AskerRecord, AskerPCs
  <2>4. /\ e.pc = "write" /\ e.live = live /\ e.kind = asker[q].kind /\ e.a = asker[q].a
        /\ e.todo = asker[q].todo /\ e.alone = asker[q].alone /\ e.volume = asker[q].volume
    BY <2>1, <2>3 DEF AskerRecord
  <2>5. asker' = [asker EXCEPT ![q] = e]
    BY <1>3, <2>2, <2>3
  <2>6. AskerLegal(e)
    BY <1>1, <2>1, <2>4 DEF AskerLegal
  <2>7. StepTyped
    BY <1>3, <2>1 DEF StepTyped, SettingTypes, SettingsInv, NothingEarly
  <2>8. ASSUME asker[q].alone  PROVE Undisturbed(q, e)'
    <3>1. AtIt' = AtIt
      BY <1>1, <1>3, <2>1, <2>4, <2>5 DEF SettingTypes, AtIt
    <3> QED
      BY <1>1, <1>3, <2>1, <2>4, <2>8, <3>1 DEF Undisturbed
  <2> QED
    BY <1>1, <1>3, <2>4, <2>5, <2>6, <2>7, <2>8, MoveKeeps
<1> QED
  BY <1>2, <1>3 DEF ScaleChecks, AutoscaleChecks

\* The column a request writes, and what it leaves of the row and of the volume.
LEMMA WritesIs ==
    ASSUME SettingsInv, NEW q \in Askers, Writes(q), NEW c, c = NextColumn(q), NEW r, r = asker[q]
    PROVE  /\ c \in r.todo /\ app' \in SettingRow /\ volume' \in BOOLEAN
           /\ app'.replicas = (IF c = "replicas" THEN r.a.replicas ELSE app.replicas)
           /\ app'.min = (IF c = "min" THEN r.a.min ELSE app.min)
           /\ app'.cpu = (IF c = "cpu" THEN r.a.cpu ELSE app.cpu)
           /\ app'.gpu = (IF c = "gpu" THEN r.a.gpu ELSE app.gpu)
<1>1. r \in AskerRecord /\ r.pc = "write" /\ r.todo # {} /\ SettingTypes /\ r.a \in SettingRow
  BY DEF SettingsInv, SettingTypes, Writes, AskerLegal, AskerRecord
<1>2. c \in r.todo
  BY <1>1, NextColumnIsOne
<1>3. CASE c \in DOMAIN app
  <2>1. app' = [app EXCEPT ![c] = r.a[c]] /\ UNCHANGED volume
    BY <1>3 DEF Writes
  <2>2. app \in SettingRow /\ volume \in BOOLEAN
    BY <1>1 DEF SettingTypes
  <2>3. r.a \in SettingRow
    BY <1>1
  <2>4. PICK row : row = [app EXCEPT ![c] = r.a[c]]
    OBVIOUS
  <2>5. PICK b \in SettingRow : b = r.a
    BY <2>3
  <2>6. PICK old \in SettingRow : old = app
    BY <2>2
  <2>7. OneColumn(row, old, b, c)
    BY <1>3, <2>4, <2>5, <2>6 DEF OneColumn
  <2>8. /\ row \in SettingRow
        /\ row.replicas = (IF c = "replicas" THEN b.replicas ELSE old.replicas)
        /\ row.min = (IF c = "min" THEN b.min ELSE old.min)
        /\ row.cpu = (IF c = "cpu" THEN b.cpu ELSE old.cpu)
        /\ row.gpu = (IF c = "gpu" THEN b.gpu ELSE old.gpu)
    BY <2>7, ColumnWritten
  <2> QED
    BY <1>2, <2>1, <2>2, <2>4, <2>5, <2>6, <2>8
<1>4. CASE c \notin DOMAIN app
  <2>1. UNCHANGED app /\ volume' = IF c = "volume" THEN r.kind = "addVolume" ELSE volume
    BY <1>4 DEF Writes
  <2>2. c \notin {"replicas", "min", "cpu", "gpu"} /\ app \in SettingRow /\ volume \in BOOLEAN
    BY <1>1, <1>4, RowColumns DEF SettingTypes
  <2>3. volume' \in BOOLEAN
    BY <2>1, <2>2
  <2> QED
    BY <1>2, <2>1, <2>2, <2>3
<1> QED
  BY <1>3, <1>4

LEMMA WriteKeeps ==
    ASSUME SettingsInv, NEW q \in Askers, Writes(q)
    PROVE  SettingsInv'
<1>1. asker[q].pc = "write" /\ q \in AtIt /\ UNCHANGED <<cluster, latest, deploys, spent>>
  BY DEF Writes, AtIt
<1>2. PICK r : r = asker[q]
  OBVIOUS
<1>3. /\ r \in AskerRecord /\ AskerLegal(r) /\ SettingTypes
      /\ r.alone => AtIt = {q} /\ deploys = {} /\ Undisturbed(q, r)
  BY <1>1, <1>2, AloneIsAlone DEF SettingsInv
<1>4. PICK c : c = NextColumn(q)
  OBVIOUS
<1>5. /\ c \in r.todo /\ app' \in SettingRow /\ volume' \in BOOLEAN
      /\ app'.replicas = (IF c = "replicas" THEN r.a.replicas ELSE app.replicas)
      /\ app'.min = (IF c = "min" THEN r.a.min ELSE app.min)
      /\ app'.cpu = (IF c = "cpu" THEN r.a.cpu ELSE app.cpu)
      /\ app'.gpu = (IF c = "gpu" THEN r.a.gpu ELSE app.gpu)
  BY <1>2, <1>4, WritesIs
<1>6. PICK rest \in SUBSET Columns : rest = r.todo \ {c}
  BY <1>3 DEF AskerRecord
<1>7. PICK next : next = IF rest = {} THEN AfterWrites(q) ELSE "write"
  OBVIOUS
<1>8. StepTyped
  BY <1>1, <1>3, <1>5 DEF StepTyped, SettingTypes, SettingsInv, NothingEarly
<1>9. CASE next = "done"
  <2>1. Finishes(q, cluster.running)
    BY <1>2, <1>4, <1>6, <1>7, <1>9 DEF Writes
  <2>2. cluster.running \in BOOLEAN
    BY <1>3 DEF SettingTypes, Objects
  <2>3. ~ cluster.running => AtRest'
    <3>1. ~ cluster.running => cluster'.hpa = 0 /\ ~ cluster'.pdb /\ latest' # "live"
      BY <1>1 DEF SettingsInv, NothingEarly
    <3> QED
      BY <3>1 DEF AtRest, NoneStale
  <2> QED
    BY <1>1, <1>8, <2>1, <2>2, <2>3, FinishKeeps
<1>10. CASE next # "done"
  <2>1. /\ asker' = [asker EXCEPT ![q].pc = next, ![q].todo = rest, ![q].more = 0]
        /\ UNCHANGED settled
    BY <1>2, <1>4, <1>6, <1>7, <1>10 DEF Writes
  <2>2. /\ \/ next = "write" /\ rest # {}
           \/ next \in {"unscale", "sync"} /\ rest = {}
        /\ next = "unscale" => r.kind = "autoscale"
        /\ next = "sync" /\ r.kind = "autoscale" => r.a.min # 0
    <3>1. CASE rest = {}
      BY <1>2, <1>7, <1>10, <3>1 DEF AfterWrites
    <3>2. CASE rest # {}
      <4>1. next = "write"
        BY <1>7, <3>2, Zenon
      <4> QED
        BY <3>2, <4>1
    <3> QED
      BY <3>1, <3>2
  <2>3. PICK e \in AskerRecord : e = [r EXCEPT !.pc = next, !.todo = rest, !.more = 0]
    <3>1. next \in AskerPCs
      BY <2>2 DEF AskerPCs
    <3> QED
      BY <1>3, <3>1 DEF AskerRecord
  <2>4. /\ e.pc = next /\ e.live = r.live /\ e.kind = r.kind /\ e.a = r.a
        /\ e.todo = rest /\ e.alone = r.alone /\ e.volume = r.volume
    BY <1>3, <2>3 DEF AskerRecord
  <2>5. asker' = [asker EXCEPT ![q] = e]
    BY <1>2, <2>1, <2>3
  <2>6. AskerLegal(e)
    BY <1>1, <1>2, <1>3, <1>5, <1>6, <2>2, <2>4 DEF AskerLegal
  <2>7. ASSUME r.alone  PROVE Undisturbed(q, e)'
    <3>1. AtIt' = AtIt
      BY <1>1, <1>3, <2>2, <2>4, <2>5 DEF SettingTypes, AtIt
    <3>2. Undisturbed(q, r)
      BY <1>3, <2>7
    <3>3. /\ "replicas" \notin rest => r.a.replicas = app'.replicas
          /\ "min" \notin rest => r.a.min = app'.min
          /\ "cpu" \notin rest => r.a.cpu = app'.cpu
          /\ "gpu" \notin rest => r.a.gpu = app'.gpu
      BY <1>5, <1>6, <3>2 DEF Undisturbed
    <3>4. /\ e.kind # "autoscale" /\ settled => (e.a.min = 0 => cluster.hpa = 0)
          /\ e.kind \notin {"scale", "autoscale"} /\ settled => (cluster.pdb => Floor(e.a) >= 2)
      BY <1>1, <1>2, <2>4, <3>2 DEF Undisturbed
    <3>5. e.pc = "sync" /\ Due(e) => (e.a.min = 0 => cluster.hpa = 0)
      BY <2>2, <2>4, <3>4 DEF Due
    <3>6. AtIt' = {q} /\ deploys' = {}
      BY <1>1, <1>3, <2>7, <3>1
    <3> QED
      BY <1>1, <2>1, <2>2, <2>4, <3>3, <3>4, <3>5, <3>6 DEF Undisturbed, Due
  <2> QED
    BY <1>1, <1>2, <1>8, <2>1, <2>2, <2>4, <2>5, <2>6, <2>7, MoveKeeps
<1> QED
  BY <1>9, <1>10

\* A call that fails ends the request, and something is owed.
LEMMA SettingFailureKeeps ==
    ASSUME SettingsInv, NEW q \in Askers, asker[q].pc # "idle",
           Fails("store") \/ Fails("kube"), Finishes(q, TRUE),
           UNCHANGED <<app, volume, cluster, latest, deploys>>
    PROVE  SettingsInv'
<1>1. q \in AtIt
  BY DEF AtIt
<1>2. StepTyped
  <2>1. /\ app' \in SettingRow /\ volume' \in BOOLEAN /\ cluster' \in Objects
        /\ ~ cluster'.running => cluster'.hpa = 0 /\ ~ cluster'.pdb
    BY DEF SettingsInv, SettingTypes, NothingEarly
  <2>2. PICK f \in SUBSET {"store", "kube"} : spent' = [spent EXCEPT !.faults = f]
    <3>1. spent.faults \in SUBSET {"store", "kube"}
      BY DEF SettingsInv, SettingTypes
    <3>2. \A k \in {"store", "kube"} : Fails(k) => spent' = [spent EXCEPT !.faults = spent.faults \cup {k}]
      BY DEF Fails
    <3> QED
      BY <3>1, <3>2
  <2>3. /\ spent' \in [deploys : Nat, faults : SUBSET {"store", "kube"}]
        /\ spent'.deploys = spent.deploys
    BY <2>2 DEF SettingsInv, SettingTypes
  <2> QED
    BY <2>1, <2>3 DEF StepTyped
<1> QED
  BY <1>1, <1>2, FinishKeeps

\* The pods there may be fewest of say when there is a PDB.
LEMMA InStepFromFloor ==
    ASSUME app' \in SettingRow,
           cluster'.volume = volume', cluster'.gpu = app'.gpu, cluster'.hpa = app'.min,
           app'.min = 0 => cluster'.replicas = app'.replicas,
           cluster'.pdb <=> Floor(app') >= 2
    PROVE  InStep' /\ NoneStale(app)' /\ AtRest'
<1>1. app'.min \in Nat /\ app'.replicas \in Nat
  BY RowColumns
<1>2. Floor(app') >= 2 <=> app'.min >= 2 \/ (app'.min = 0 /\ app'.replicas >= 2)
  BY <1>1 DEF Floor
<1>3. InStep'
  BY <1>2 DEF InStep
<1>4. NoneStale(app)'
  BY DEF NoneStale
<1> QED
  BY <1>3, <1>4 DEF AtRest

\* A request that goes on to another step, with what it read as it is.
GoesOn(q, r, e, pc, v, o) ==
    /\ q \in AtIt /\ r = asker[q] /\ r.pc \notin {"check", "write"}
    /\ pc \in {"sync", "apply", "trim"} /\ (pc = "trim" => r.kind \in {"scale", "autoscale"})
    /\ v \in BOOLEAN /\ o \in BOOLEAN
    /\ e = [r EXCEPT !.pc = pc, !.volume = v, !.owes = o]

LEMMA Steps ==
    ASSUME SettingsInv, NEW q, NEW r, NEW e, NEW pc, NEW v, NEW o, GoesOn(q, r, e, pc, v, o)
    PROVE  /\ e \in AskerRecord
           /\ e.pc = pc /\ e.volume = v /\ e.owes = o /\ e.kind = r.kind /\ e.a = r.a
           /\ e.todo = {} /\ e.alone = r.alone /\ e.live = r.live /\ AskerLegal(e)
           /\ asker' = [asker EXCEPT ![q] = e] => AtIt' = AtIt
<1>1. r \in AskerRecord /\ AskerLegal(r) /\ r.pc # "idle" /\ q \in Askers /\ SettingTypes
  BY AloneIsAlone DEF SettingsInv, GoesOn
<1>2. e = [r EXCEPT !.pc = pc, !.volume = v, !.owes = o] /\ e \in AskerRecord
  BY <1>1 DEF AskerRecord, AskerPCs, GoesOn
<1>3. /\ e.pc = pc /\ e.volume = v /\ e.owes = o /\ e.kind = r.kind /\ e.a = r.a
      /\ e.todo = r.todo /\ e.alone = r.alone /\ e.live = r.live
  BY <1>1, <1>2 DEF AskerRecord
<1>4. e.todo = {}
  BY <1>1, <1>3 DEF AskerLegal, GoesOn
<1>5. AskerLegal(e)
  BY <1>3, <1>4 DEF AskerLegal, GoesOn
<1>6. asker' = [asker EXCEPT ![q] = e] => AtIt' = AtIt
  BY <1>1, <1>3 DEF SettingTypes, AtIt, GoesOn
<1> QED
  BY <1>2, <1>3, <1>4, <1>5, <1>6

LEMMA UnscaleKeeps ==
    ASSUME SettingsInv, NEW q \in Askers, Unscales(q)
    PROVE  SettingsInv'
<1>0. PICK r : r = asker[q]
  OBVIOUS
<1>1. /\ r.pc = "unscale" /\ q \in AtIt /\ SettingTypes /\ r \in AskerRecord
      /\ UNCHANGED <<app, volume, latest, deploys>>
      /\ r.alone => AtIt = {q} /\ deploys = {} /\ Undisturbed(q, r)
  BY <1>0, AloneIsAlone DEF Unscales, AtIt, SettingsInv
<1>2. CASE Fails("kube") /\ Finishes(q, TRUE) /\ UNCHANGED cluster
  BY <1>0, <1>1, <1>2, SettingFailureKeeps
<1>3. CASE /\ cluster' = [cluster EXCEPT !.hpa = 0]
           /\ Moves(q, "sync") /\ UNCHANGED <<settled, spent>>
  <2>1. cluster \in Objects /\ 0 \in Counts
    BY <1>1, SettingConstants DEF SettingTypes, Counts
  <2>2. PICK k \in Objects : k = [cluster EXCEPT !.hpa = 0]
    BY <2>1 DEF Objects
  <2>3. k.hpa = 0 /\ k.pdb = cluster.pdb /\ k.running = cluster.running
    BY <2>1, <2>2 DEF Objects
  <2>4. StepTyped
    BY <1>1, <1>3, <2>2, <2>3 DEF StepTyped, SettingTypes, SettingsInv, NothingEarly
  <2>5. PICK e :
              /\ e = [r EXCEPT !.pc = "sync", !.volume = r.volume, !.owes = r.owes] /\ e \in AskerRecord
              /\ e.pc = "sync" /\ e.volume = r.volume /\ e.owes = r.owes /\ e.kind = r.kind /\ e.a = r.a
              /\ e.todo = {} /\ e.alone = r.alone /\ e.live = r.live /\ AskerLegal(e)
              /\ asker' = [asker EXCEPT ![q] = e] => AtIt' = AtIt
    <3>1. "sync" \in AskerPCs /\ r.volume \in BOOLEAN /\ r.owes \in BOOLEAN
      BY <1>1 DEF AskerPCs, AskerRecord
    <3>2. PICK e : e = [r EXCEPT !.pc = "sync", !.volume = r.volume, !.owes = r.owes]
      OBVIOUS
    <3>3. GoesOn(q, r, e, "sync", r.volume, r.owes)
      BY <1>0, <1>1, <3>1, <3>2 DEF GoesOn
    <3> QED
      BY <3>2, <3>3, Steps
  <2>6. asker' = [asker EXCEPT ![q] = e]
    <3>1. e = [r EXCEPT !.pc = "sync"]
      BY <1>1, <2>5 DEF AskerRecord
    <3> QED
      BY <1>0, <1>3, <3>1 DEF Moves
  <2>7. ASSUME r.alone  PROVE Undisturbed(q, e)'
    BY <1>1, <1>3, <2>2, <2>3, <2>5, <2>6, <2>7 DEF Undisturbed, AskerLegal
  <2> QED
    BY <1>0, <1>1, <1>3, <2>4, <2>5, <2>6, <2>7, MoveKeeps
<1> QED
  BY <1>2, <1>3 DEF Unscales

LEMMA SyncKeeps ==
    ASSUME SettingsInv, NEW q \in Askers, Syncs(q)
    PROVE  SettingsInv'
<1>0. PICK r : r = asker[q]
  OBVIOUS
<1>1. /\ r.pc = "sync" /\ q \in AtIt /\ SettingTypes /\ r \in AskerRecord
      /\ UNCHANGED <<app, volume, cluster, latest, deploys, spent>>
      /\ r.alone => AtIt = {q} /\ deploys = {} /\ Undisturbed(q, r)
  BY <1>0, AloneIsAlone DEF Syncs, AtIt, SettingsInv
<1>2. StepTyped
  BY <1>1 DEF StepTyped, SettingTypes, SettingsInv, NothingEarly
<1>3. /\ "apply" \in AskerPCs /\ "trim" \in AskerPCs /\ r.volume \in BOOLEAN /\ r.owes \in BOOLEAN
      /\ volume \in BOOLEAN
  BY <1>1 DEF AskerPCs, AskerRecord, SettingTypes
<1>4. CASE /\ asker' = [asker EXCEPT ![q].pc = "apply", ![q].volume = volume]
           /\ UNCHANGED settled
  <2>1. PICK e :
              /\ e = [r EXCEPT !.pc = "apply", !.volume = volume, !.owes = r.owes] /\ e \in AskerRecord
              /\ e.pc = "apply" /\ e.volume = volume /\ e.owes = r.owes /\ e.kind = r.kind /\ e.a = r.a
              /\ e.todo = {} /\ e.alone = r.alone /\ e.live = r.live /\ AskerLegal(e)
              /\ asker' = [asker EXCEPT ![q] = e] => AtIt' = AtIt
    <3>1. PICK e : e = [r EXCEPT !.pc = "apply", !.volume = volume, !.owes = r.owes]
      OBVIOUS
    <3>2. GoesOn(q, r, e, "apply", volume, r.owes)
      BY <1>0, <1>1, <1>3, <3>1 DEF GoesOn
    <3> QED
      BY <3>1, <3>2, Steps
  <2>2. asker' = [asker EXCEPT ![q] = e]
    <3>1. e = [r EXCEPT !.pc = "apply", !.volume = volume]
      BY <1>1, <2>1 DEF AskerRecord
    <3> QED
      BY <1>0, <1>4, <3>1
  <2>3. ASSUME r.alone  PROVE Undisturbed(q, e)'
    <3>1. r.todo = {}
      BY <1>0, <1>1 DEF SettingsInv, AskerLegal
    <3>2. AtIt' = {q} /\ deploys' = {}
      BY <1>1, <2>1, <2>2, <2>3
    <3>3. Undisturbed(q, r)
      BY <1>1, <2>3
    <3>4. /\ e.kind \notin {"scale", "autoscale"} /\ settled => (cluster.pdb => Floor(e.a) >= 2)
          /\ Due(e) => (e.a.min = 0 => cluster.hpa = 0)
          /\ Due(e)' <=> Due(e)
      BY <1>1, <1>4, <2>1, <3>3 DEF Undisturbed, Due
    <3> QED
      BY <1>1, <1>4, <2>1, <3>1, <3>2, <3>3, <3>4 DEF Undisturbed
  <2> QED
    BY <1>0, <1>1, <1>2, <1>4, <2>1, <2>2, <2>3, MoveKeeps
<1>5. CASE latest # "live" /\ Finishes(q, cluster.running)
  <2>1. cluster.running \in BOOLEAN
    BY <1>1 DEF SettingTypes, Objects
  <2>2. ~ cluster.running => AtRest'
    BY <1>1, <1>5 DEF SettingsInv, NothingEarly, AtRest, NoneStale
  <2> QED
    BY <1>1, <1>2, <1>5, <2>1, <2>2, FinishKeeps
<1>6. CASE /\ AfterSync(q) # "done" /\ asker' = [asker EXCEPT ![q].pc = "trim", ![q].owes = TRUE]
           /\ UNCHANGED settled
  <2>1. r.kind \in {"scale", "autoscale"}
    BY <1>0, <1>6 DEF AfterSync
  <2>0. PICK o \in BOOLEAN : o = TRUE
    OBVIOUS
  <2>2. PICK e :
              /\ e = [r EXCEPT !.pc = "trim", !.volume = r.volume, !.owes = o] /\ e \in AskerRecord
              /\ e.pc = "trim" /\ e.volume = r.volume /\ e.owes = o /\ e.kind = r.kind /\ e.a = r.a
              /\ e.todo = {} /\ e.alone = r.alone /\ e.live = r.live /\ AskerLegal(e)
              /\ asker' = [asker EXCEPT ![q] = e] => AtIt' = AtIt
    <3>1. PICK e : e = [r EXCEPT !.pc = "trim", !.volume = r.volume, !.owes = o]
      OBVIOUS
    <3>2. GoesOn(q, r, e, "trim", r.volume, o)
      BY <1>0, <1>1, <1>3, <2>1, <3>1 DEF GoesOn
    <3> QED
      BY <3>1, <3>2, Steps
  <2>3. asker' = [asker EXCEPT ![q] = e]
    <3>1. e = [r EXCEPT !.pc = "trim", !.owes = TRUE]
      BY <1>1, <2>0, <2>2 DEF AskerRecord
    <3> QED
      BY <1>0, <1>6, <3>1
  <2>4. ASSUME r.alone  PROVE Undisturbed(q, e)'
    <3>1. r.todo = {}
      BY <1>0, <1>1 DEF SettingsInv, AskerLegal
    <3> QED
      BY <1>1, <2>0, <2>1, <2>2, <2>3, <2>4, <3>1 DEF Undisturbed
  <2> QED
    BY <1>0, <1>1, <1>2, <1>6, <2>2, <2>3, <2>4, MoveKeeps
<1> QED
  BY <1>4, <1>5, <1>6 DEF Syncs

LEMMA SettingApplyKeeps ==
    ASSUME SettingsInv, NEW q \in Askers, Applies(q)
    PROVE  SettingsInv'
<1>0. PICK r : r = asker[q]
  OBVIOUS
<1>1. /\ r.pc = "apply" /\ q \in AtIt /\ SettingTypes /\ r \in AskerRecord
      /\ UNCHANGED <<app, volume, latest, deploys, spent>>
      /\ r.alone => AtIt = {q} /\ deploys = {} /\ Undisturbed(q, r)
      /\ cluster' = Applied(r.a, r.volume) /\ r.a \in SettingRow /\ r.volume \in BOOLEAN
  BY <1>0, AloneIsAlone DEF Applies, AtIt, SettingsInv, AskerRecord
<1>2. PICK k : k = Applied(r.a, r.volume)
  OBVIOUS
<1>3. /\ k \in Objects /\ k.running /\ k.gpu = r.a.gpu /\ k.volume = r.volume
      /\ k.replicas = (IF r.a.min > 0 THEN cluster.replicas ELSE r.a.replicas)
      /\ k.hpa = (IF r.a.min > 0 THEN r.a.min ELSE cluster.hpa)
      /\ k.pdb <=> cluster.pdb \/ Floor(r.a) >= 2
  BY <1>1, <1>2, AppliedIs
<1>4. StepTyped
  BY <1>1, <1>2, <1>3 DEF StepTyped, SettingTypes
<1>5. r.a.min \in Nat /\ r.a.replicas \in Nat /\ r.a.gpu \in Nat
  BY <1>1, RowColumns
<1>6. ASSUME r.alone, Due(r)
      PROVE  /\ r.a.replicas = app.replicas /\ r.a.min = app.min /\ r.a.gpu = app.gpu
             /\ r.volume = volume /\ k.volume = volume /\ k.gpu = app.gpu /\ k.hpa = app.min
             /\ app.min = 0 => k.replicas = app.replicas
             /\ Floor(app) >= 2 => k.pdb
             /\ r.kind \notin {"scale", "autoscale"} => (k.pdb => Floor(app) >= 2)
  <2>1. r.todo = {} /\ Undisturbed(q, r)
    BY <1>0, <1>1, <1>6 DEF SettingsInv, AskerLegal
  <2>2. r.a.replicas = app.replicas /\ r.a.min = app.min /\ r.a.gpu = app.gpu /\ r.volume = volume
    BY <1>1, <2>1 DEF Undisturbed
  <2>3. r.a.min = 0 => cluster.hpa = 0
    BY <1>1, <1>6, <2>1 DEF Undisturbed
  <2>4. r.kind \notin {"scale", "autoscale"} => (cluster.pdb => Floor(r.a) >= 2)
    BY <1>6, <2>1 DEF Undisturbed, Due
  <2>5. Floor(r.a) = Floor(app)
    BY <2>2 DEF Floor
  <2>6. r.a.min > 0 \/ r.a.min = 0
    BY <1>5
  <2> QED
    BY <1>3, <1>5, <2>2, <2>3, <2>4, <2>5, <2>6
<1>7. CASE AfterSync(q) = "done" /\ Finishes(q, FALSE)
  <2>1. r.kind \notin {"scale", "autoscale"}
    BY <1>0, <1>7 DEF AfterSync
  <2>2. ASSUME r.alone, Due(r)  PROVE AtRest'
    <3>1. /\ k.volume = volume /\ k.gpu = app.gpu /\ k.hpa = app.min
          /\ app.min = 0 => k.replicas = app.replicas
          /\ k.pdb <=> Floor(app) >= 2
      BY <1>6, <2>1, <2>2
    <3>2. cluster' = k
      BY <1>1, <1>2
    <3>3. app' \in SettingRow /\ app' = app /\ volume' = volume
      BY <1>1 DEF SettingTypes
    <3>4. cluster'.pdb <=> Floor(app') >= 2
      BY <3>1, <3>2, <3>3
    <3> QED
      BY <3>1, <3>2, <3>3, <3>4, InStepFromFloor
  <2> QED
    BY <1>0, <1>1, <1>4, <1>7, <2>2, FinishKeeps
<1>8. CASE AfterSync(q) # "done" /\ Moves(q, "trim") /\ UNCHANGED settled
  <2>1. r.kind \in {"scale", "autoscale"}
    BY <1>0, <1>8 DEF AfterSync
  <2>2. PICK e :
              /\ e = [r EXCEPT !.pc = "trim", !.volume = r.volume, !.owes = r.owes] /\ e \in AskerRecord
              /\ e.pc = "trim" /\ e.volume = r.volume /\ e.owes = r.owes /\ e.kind = r.kind /\ e.a = r.a
              /\ e.todo = {} /\ e.alone = r.alone /\ e.live = r.live /\ AskerLegal(e)
              /\ asker' = [asker EXCEPT ![q] = e] => AtIt' = AtIt
    <3>1. "trim" \in AskerPCs /\ r.owes \in BOOLEAN
      BY <1>1 DEF AskerPCs, AskerRecord
    <3>2. PICK e : e = [r EXCEPT !.pc = "trim", !.volume = r.volume, !.owes = r.owes]
      OBVIOUS
    <3>3. GoesOn(q, r, e, "trim", r.volume, r.owes)
      BY <1>0, <1>1, <2>1, <3>1, <3>2 DEF GoesOn
    <3> QED
      BY <3>2, <3>3, Steps
  <2>3. asker' = [asker EXCEPT ![q] = e]
    <3>1. e = [r EXCEPT !.pc = "trim"]
      BY <1>1, <2>2 DEF AskerRecord
    <3> QED
      BY <1>0, <1>8, <3>1 DEF Moves
  <2>4. ASSUME r.alone  PROVE Undisturbed(q, e)'
    <3>1. AtIt' = {q} /\ deploys' = {}
      BY <1>1, <2>2, <2>3, <2>4
    <3>2. r.todo = {} /\ Undisturbed(q, r)
      BY <1>0, <1>1, <2>4 DEF SettingsInv, AskerLegal
    <3>3. Due(e)' => Due(r)
      BY <1>8, <2>2 DEF Due
    <3>4. cluster' = k
      BY <1>1, <1>2
    <3>5. /\ e.a.replicas = app.replicas /\ e.a.min = app.min /\ e.a.gpu = app.gpu /\ e.a.cpu = app.cpu
      BY <2>2, <3>2 DEF Undisturbed
    <3>6. Due(e)' => /\ k.volume = volume /\ k.gpu = app.gpu /\ k.hpa = app.min
                     /\ app.min = 0 => k.replicas = app.replicas
                     /\ Floor(app) >= 2 => k.pdb
      BY <1>6, <2>4, <3>3
    <3>7. Floor(app)' = Floor(app)
      BY <1>1
    <3> QED
      BY <1>1, <2>1, <2>2, <3>1, <3>4, <3>5, <3>6, <3>7 DEF Undisturbed
  <2> QED
    BY <1>0, <1>1, <1>4, <1>8, <2>2, <2>3, <2>4, MoveKeeps
<1> QED
  BY <1>7, <1>8 DEF Applies

LEMMA TrimKeeps ==
    ASSUME SettingsInv, NEW q \in Askers, Trims(q)
    PROVE  SettingsInv'
<1>0. PICK r : r = asker[q]
  OBVIOUS
<1>1. /\ r.pc = "trim" /\ q \in AtIt /\ SettingTypes /\ r \in AskerRecord
      /\ UNCHANGED <<app, volume, latest, deploys>>
      /\ r.alone => AtIt = {q} /\ deploys = {} /\ Undisturbed(q, r)
      /\ app \in SettingRow /\ r.a \in SettingRow /\ cluster \in Objects
  BY <1>0, AloneIsAlone DEF Trims, AtIt, SettingsInv, SettingTypes, AskerRecord
<1>2. ASSUME r.alone, ~ r.owes, Due(r)
      PROVE  /\ cluster.volume = volume /\ cluster.gpu = app.gpu /\ cluster.hpa = app.min
             /\ app.min = 0 => cluster.replicas = app.replicas
             /\ Floor(app) >= 2 => cluster.pdb
             /\ Floor(r.a) = Floor(app)
  <2>1. r.todo = {} /\ Undisturbed(q, r)
    BY <1>0, <1>1, <1>2 DEF SettingsInv, AskerLegal
  <2>2. r.a.replicas = app.replicas /\ r.a.min = app.min
    BY <2>1 DEF Undisturbed
  <2> QED
    BY <1>1, <1>2, <2>1, <2>2 DEF Undisturbed, Floor
<1>3. CASE Floor(r.a) >= 2 /\ Finishes(q, FALSE) /\ UNCHANGED <<cluster, spent>>
  <2>1. StepTyped
    BY <1>1, <1>3 DEF StepTyped, SettingTypes, SettingsInv, NothingEarly
  <2>2. ASSUME r.alone, ~ r.owes, Due(r)  PROVE AtRest'
    <3>1. /\ app' \in SettingRow /\ app' = app /\ volume' = volume /\ cluster' = cluster
      BY <1>1, <1>3
    <3>2. cluster'.pdb <=> Floor(app') >= 2
      BY <1>2, <1>3, <2>2, <3>1
    <3> QED
      BY <1>2, <2>2, <3>1, <3>2, InStepFromFloor
  <2> QED
    BY <1>0, <1>1, <1>3, <2>1, <2>2, FinishKeeps
<1>4. CASE /\ ~ (Floor(r.a) >= 2) /\ cluster' = [cluster EXCEPT !.pdb = FALSE]
           /\ Finishes(q, FALSE) /\ UNCHANGED spent
  <2>1. PICK no \in BOOLEAN : no = FALSE
    OBVIOUS
  <2>2. PICK k \in Objects : k = [cluster EXCEPT !.pdb = no]
    BY <1>1 DEF Objects
  <2>3. /\ k.running = cluster.running /\ k.replicas = cluster.replicas /\ k.gpu = cluster.gpu
        /\ k.volume = cluster.volume /\ k.hpa = cluster.hpa /\ k.pdb = no
    BY <1>1, <2>2 DEF Objects
  <2>4. cluster' = k
    BY <1>4, <2>1, <2>2
  <2>5. StepTyped
    BY <1>1, <1>4, <2>1, <2>3, <2>4 DEF StepTyped, SettingTypes, SettingsInv, NothingEarly
  <2>6. ASSUME r.alone, ~ r.owes, Due(r)  PROVE AtRest'
    <3>1. /\ app' \in SettingRow /\ app' = app /\ volume' = volume
      BY <1>1
    <3>2. cluster'.pdb <=> Floor(app') >= 2
      BY <1>2, <1>4, <2>1, <2>3, <2>4, <2>6, <3>1
    <3> QED
      BY <1>2, <2>3, <2>4, <2>6, <3>1, <3>2, InStepFromFloor
  <2> QED
    BY <1>0, <1>1, <1>4, <2>5, <2>6, FinishKeeps
<1>5. CASE Fails("kube") /\ Finishes(q, TRUE) /\ UNCHANGED cluster
  BY <1>0, <1>1, <1>5, SettingFailureKeeps
<1> QED
  BY <1>0, <1>3, <1>4, <1>5 DEF Trims

--------------------------------
\* The steps of the deploys, and of the HPA.

LEMMA DeployAskedKeeps ==
    ASSUME SettingsInv, DeployAsked
    PROVE  SettingsInv'
<1>1. /\ SettingTypes /\ UNCHANGED <<app, volume, cluster, settled>> /\ latest' = "building"
      /\ asker' = NotAlone /\ app \in SettingRow
  BY DEF SettingsInv, SettingTypes, DeployAsked
<1>2. PICK free \in BOOLEAN : free = NobodyAtIt
  BY DEF NobodyAtIt
<1>3. PICK n \in Nat : n = spent.deploys + 1 /\ n > spent.deploys
  <2>1. spent.deploys \in Nat
    BY <1>1 DEF SettingTypes
  <2> QED
    BY <2>1
<1>4. PICK y \in DeployRecord : /\ y = [n |-> n, a |-> app, pc |-> "build", alone |-> free]
                                /\ y.n = n /\ y.a = app /\ y.pc = "build" /\ y.alone = free
  <2>1. PICK z : z = [n |-> n, a |-> app, pc |-> "build", alone |-> free]
    OBVIOUS
  <2>2. z \in DeployRecord
    BY <1>1, <2>1 DEF DeployRecord
  <2>3. z.n = n /\ z.a = app /\ z.pc = "build" /\ z.alone = free
    BY <2>1
  <2> QED
    BY <2>1, <2>2, <2>3
<1>5. PICK S : S = {[x EXCEPT !.alone = FALSE] : x \in deploys}
  OBVIOUS
<1>6. /\ S \subseteq DeployRecord /\ \A x \in S : ~ x.alone
      /\ \A x \in S : \E z \in deploys : z.n = x.n /\ z.pc = x.pc
      /\ S = {} <=> deploys = {}
  BY <1>1, <1>5, DeploysAre
<1>7. deploys' = S \cup {y} /\ spent' = [spent EXCEPT !.deploys = n]
  BY <1>2, <1>3, <1>4, <1>5 DEF DeployAsked
<1>8. /\ spent' \in [deploys : Nat, faults : SUBSET {"store", "kube"}] /\ spent'.deploys = n
  BY <1>1, <1>7 DEF SettingTypes
<1>9. /\ asker' \in [Askers -> AskerRecord]
      /\ \A r \in Askers \ AtIt : asker'[r] = asker[r]
      /\ \A r \in AtIt : /\ asker'[r].alone = FALSE /\ asker'[r].pc = asker[r].pc
                         /\ AskerLegal(asker'[r])
  BY <1>1, NotAloneIs DEF SettingsInv
<1>10. AtIt' = AtIt
  BY <1>9 DEF AtIt
<1>11. SettingTypes'
  <2>1. \A x \in deploys' : x \in DeployRecord /\ x.n <= n
    <3>1. \A x \in S : x.n \in Nat /\ x.n <= spent.deploys /\ spent.deploys \in Nat
      BY <1>1, <1>6 DEF SettingTypes, DeployRecord
    <3> QED
      BY <1>3, <1>4, <1>6, <1>7, <3>1
  <2> QED
    BY <1>1, <1>8, <1>9, <2>1 DEF SettingTypes
<1>12. NothingEarly'
  BY <1>1, <1>4, <1>6, <1>7 DEF SettingsInv, NothingEarly
<1>13. \A r \in Askers : AskerLegal(asker'[r])
  BY <1>9 DEF SettingsInv
<1>14. RestKept'
  BY <1>7 DEF RestKept
<1>15. AloneKept'
  BY <1>9, <1>10 DEF AloneKept
<1>16. DeployKept'
  <2>1. ASSUME free  PROVE Unraced(y)'
    <3>1. AtIt = {} /\ deploys = {}
      BY <1>2, <2>1 DEF NobodyAtIt
    <3>2. settled => NoneStale(app)
      BY <3>1 DEF SettingsInv, RestKept, AtRest
    <3>3. settled' => NoneStale(app)'
      BY <1>1, <3>2 DEF NoneStale
    <3> QED
      BY <1>1, <1>4, <1>6, <1>7, <1>8, <1>10, <3>1, <3>3 DEF Unraced
  <2> QED
    BY <1>4, <1>6, <1>7, <2>1 DEF DeployKept
<1> QED
  BY <1>11, <1>12, <1>13, <1>14, <1>15, <1>16 DEF SettingsInv

LEMMA DeployAppliesKeeps ==
    ASSUME SettingsInv, NEW x \in deploys, DeployApplies(x)
    PROVE  SettingsInv'
<1>1. /\ SettingTypes /\ x \in DeployRecord /\ x.a \in SettingRow /\ volume \in BOOLEAN
      /\ UNCHANGED <<app, volume, latest, asker, settled, spent>>
      /\ cluster' = Applied(x.a, volume) /\ x.pc = "build" /\ app \in SettingRow
  BY DEF SettingsInv, SettingTypes, DeployApplies, DeployRecord
<1>2. PICK k : k = Applied(x.a, volume)
  OBVIOUS
<1>3. /\ k \in Objects /\ k.running /\ k.gpu = x.a.gpu /\ k.volume = volume
      /\ k.replicas = (IF x.a.min > 0 THEN cluster.replicas ELSE x.a.replicas)
      /\ k.hpa = (IF x.a.min > 0 THEN x.a.min ELSE cluster.hpa)
      /\ k.pdb <=> cluster.pdb \/ Floor(x.a) >= 2
  BY <1>1, <1>2, AppliedIs
<1>4. PICK y \in DeployRecord : /\ y = [x EXCEPT !.pc = "gate"]
                                /\ y.n = x.n /\ y.a = x.a /\ y.pc = "gate" /\ y.alone = x.alone
  <2>1. PICK z : z = [x EXCEPT !.pc = "gate"]
    OBVIOUS
  <2>2. z \in DeployRecord
    BY <1>1, <2>1 DEF DeployRecord
  <2>3. z.n = x.n /\ z.a = x.a /\ z.pc = "gate" /\ z.alone = x.alone
    BY <1>1, <2>1 DEF DeployRecord
  <2> QED
    BY <2>1, <2>2, <2>3
<1>5. deploys' = (deploys \ {x}) \cup {y}
  BY <1>4 DEF DeployApplies
<1>6. AtIt' = AtIt
  BY <1>1 DEF AtIt
<1>7. SettingTypes'
  BY <1>1, <1>2, <1>3, <1>4, <1>5 DEF SettingTypes
<1>8. NothingEarly'
  BY <1>1, <1>2, <1>3 DEF SettingsInv, NothingEarly
<1>9. \A r \in Askers : AskerLegal(asker'[r])
  BY <1>1 DEF SettingsInv
<1>10. RestKept'
  BY <1>5 DEF RestKept
<1>11. AloneKept'
  BY <1>1, <1>6 DEF SettingsInv, AloneKept, Undisturbed
<1>12. DeployKept'
  <2>1. ASSUME x.alone  PROVE Unraced(y)'
    <3>1. Unraced(x)
      BY <2>1 DEF SettingsInv, DeployKept
    <3>2. ASSUME settled  PROVE NoneStale(app)' /\ InStep'
      <4>1. NoneStale(app) /\ x.a = app
        BY <3>1, <3>2 DEF Unraced
      <4>2. app.min \in Nat
        BY <1>1, RowColumns
      <4>3. /\ app' \in SettingRow /\ app' = app /\ volume' = volume /\ cluster' = k
        BY <1>1, <1>2
      <4>4. /\ k.volume = volume /\ k.gpu = app.gpu /\ k.hpa = app.min
            /\ app.min = 0 => k.replicas = app.replicas
            /\ k.pdb <=> Floor(app) >= 2
        BY <1>3, <4>1, <4>2 DEF NoneStale
      <4> QED
        BY <4>3, <4>4, InStepFromFloor
    <3>3. AtIt' = {} /\ deploys' = {y}
      BY <1>5, <1>6, <3>1 DEF Unraced
    <3> QED
      BY <1>1, <1>4, <3>1, <3>2, <3>3 DEF Unraced
  <2>2. ASSUME NEW z \in deploys', z.alone  PROVE z = y /\ x.alone
    <3>1. CASE z \in deploys /\ z # x
      BY <2>2, <3>1 DEF SettingsInv, DeployKept, Unraced
    <3> QED
      BY <1>4, <1>5, <2>2, <3>1
  <2> QED
    BY <2>1, <2>2 DEF DeployKept
<1> QED
  BY <1>7, <1>8, <1>9, <1>10, <1>11, <1>12 DEF SettingsInv

LEMMA DeployFinishesKeeps ==
    ASSUME SettingsInv, NEW x \in deploys, DeployFinishes(x)
    PROVE  SettingsInv'
<1>1. /\ SettingTypes /\ x \in DeployRecord
      /\ UNCHANGED <<app, volume, cluster, asker, spent>>
      /\ deploys' = deploys \ {x} /\ settled' = (settled /\ x.alone)
  BY DEF SettingsInv, SettingTypes, DeployFinishes
<1>2. PICK status \in {"failed", "live"} :
          /\ status = "live" => x.pc = "gate"
          /\ latest' = IF x.n = spent.deploys THEN status ELSE latest
  BY DEF DeployFinishes
<1>3. AtIt' = AtIt
  BY <1>1 DEF AtIt
<1>4. SettingTypes'
  <2>1. settled' \in BOOLEAN /\ latest' \in {"none", "building", "live", "failed"}
    BY <1>1, <1>2 DEF SettingTypes
  <2> QED
    BY <1>1, <2>1 DEF SettingTypes
<1>5. NothingEarly'
  BY <1>1, <1>2 DEF SettingsInv, NothingEarly
<1>6. \A r \in Askers : AskerLegal(asker'[r])
  BY <1>1 DEF SettingsInv
<1>7. RestKept'
  <2>1. ASSUME settled, x.alone  PROVE AtRest'
    <3>1. Unraced(x)
      BY <2>1 DEF SettingsInv, DeployKept
    <3>2. NoneStale(app) /\ (latest' = "live" => InStep)
      BY <1>2, <2>1, <3>1 DEF Unraced
    <3> QED
      BY <1>1, <3>2 DEF AtRest, NoneStale, InStep
  <2> QED
    BY <1>1, <2>1 DEF RestKept
<1>8. AloneKept'
  BY <1>1, <1>3 DEF SettingsInv, AloneKept, Undisturbed
<1>9. DeployKept'
  BY <1>1 DEF SettingsInv, DeployKept, Unraced
<1> QED
  BY <1>4, <1>5, <1>6, <1>7, <1>8, <1>9 DEF SettingsInv

\* The HPA moves nothing but the number of replicas, and only of an app it scales.
LEMMA HPAKeeps ==
    ASSUME SettingsInv, HPAScales
    PROVE  SettingsInv'
<1>1. /\ SettingTypes /\ cluster \in Objects /\ cluster.hpa > 0 /\ cluster.hpa \in Nat
      /\ UNCHANGED <<app, volume, latest, deploys, asker, settled, spent>> /\ app \in SettingRow
  BY SettingConstants DEF SettingsInv, SettingTypes, HPAScales, Objects, Counts
<1>2. PICK n \in Counts : cluster' = [cluster EXCEPT !.replicas = n]
  BY <1>1, SettingConstants DEF HPAScales, Counts
<1>3. /\ cluster' \in Objects /\ cluster'.running = cluster.running /\ cluster'.gpu = cluster.gpu
      /\ cluster'.volume = cluster.volume /\ cluster'.hpa = cluster.hpa /\ cluster'.pdb = cluster.pdb
  BY <1>1, <1>2 DEF Objects
<1>4. AtIt' = AtIt
  BY <1>1 DEF AtIt
<1>5. SettingTypes' /\ NothingEarly'
  BY <1>1, <1>3 DEF SettingsInv, SettingTypes, NothingEarly
<1>6. InStep => InStep'
  BY <1>1, <1>3 DEF InStep
<1>7. NoneStale(app) => NoneStale(app)'
  BY <1>1, <1>3 DEF NoneStale
<1>8. RestKept'
  <2>1. AtRest => AtRest'
    BY <1>1, <1>6, <1>7 DEF AtRest
  <2> QED
    BY <1>1, <1>4, <2>1 DEF SettingsInv, RestKept
<1>9. AloneKept'
  <2>1. ASSUME NEW q \in AtIt, asker[q].alone  PROVE Undisturbed(q, asker[q])'
    <3>1. Undisturbed(q, asker[q])
      BY <2>1 DEF SettingsInv, AloneKept
    <3> QED
      BY <1>1, <1>3, <1>4, <3>1 DEF Undisturbed, Due
  <2> QED
    BY <1>1, <1>4, <2>1 DEF AloneKept
<1>10. DeployKept'
  <2>1. ASSUME NEW x \in deploys, x.alone  PROVE Unraced(x)'
    <3>1. Unraced(x)
      BY <2>1 DEF SettingsInv, DeployKept
    <3> QED
      BY <1>1, <1>4, <1>6, <1>7, <3>1 DEF Unraced
  <2> QED
    BY <1>1, <2>1 DEF DeployKept
<1> QED
  BY <1>1, <1>5, <1>8, <1>9, <1>10 DEF SettingsInv

LEMMA SettingsInvInductive == SettingsInv /\ [SettingsNext]_settingVars => SettingsInv'
<1> SUFFICES ASSUME SettingsInv, [SettingsNext]_settingVars  PROVE SettingsInv'
  OBVIOUS
<1>1. CASE \E q \in Askers : AskerStep(q)
  <2>1. PICK q \in Askers : AskerStep(q)
    BY <1>1
  <2>2. CASE ScaleAsked(q) \/ AutoscaleAsked(q) \/ VolumeAsked(q) \/ SyncAsked(q)
    BY <2>2, RequestsAsked
  <2>3. CASE ScaleChecks(q) \/ AutoscaleChecks(q)
    BY <2>3, ChecksKeep
  <2>4. CASE Writes(q)
    BY <2>4, WriteKeeps
  <2>5. CASE WriteFails(q) \/ ApplyFails(q)
    BY <2>5, SettingFailureKeeps DEF WriteFails, ApplyFails
  <2>6. CASE Unscales(q)
    BY <2>6, UnscaleKeeps
  <2>7. CASE Syncs(q)
    BY <2>7, SyncKeeps
  <2>8. CASE Applies(q)
    BY <2>8, SettingApplyKeeps
  <2>9. CASE Trims(q)
    BY <2>9, TrimKeeps
  <2> QED
    BY <2>1, <2>2, <2>3, <2>4, <2>5, <2>6, <2>7, <2>8, <2>9 DEF AskerStep
<1>2. CASE DeployAsked
  BY <1>2, DeployAskedKeeps
<1>3. CASE HPAScales
  BY <1>3, HPAKeeps
<1>4. CASE \E x \in deploys : DeployApplies(x) \/ DeployFinishes(x)
  BY <1>4, DeployAppliesKeeps, DeployFinishesKeeps
<1>5. CASE UNCHANGED settingVars
  <2>1. UNCHANGED <<app, volume, cluster, latest, deploys, asker, settled, spent>>
    BY <1>5 DEF settingVars
  <2>2. AtIt' = AtIt
    BY <2>1 DEF AtIt
  <2>3. SettingTypes' /\ NothingEarly'
    BY <2>1 DEF SettingsInv, SettingTypes, NothingEarly
  <2>4. RestKept'
    BY <2>1, <2>2 DEF SettingsInv, RestKept, AtRest, NoneStale, InStep
  <2>5. AloneKept'
    BY <2>1, <2>2 DEF SettingsInv, AloneKept, Undisturbed, Due
  <2>6. DeployKept'
    BY <2>1, <2>2 DEF SettingsInv, DeployKept, Unraced, NoneStale, InStep
  <2> QED
    BY <2>1, <2>3, <2>4, <2>5, <2>6 DEF SettingsInv
<1> QED
  BY <1>1, <1>2, <1>3, <1>4, <1>5 DEF SettingsNext

LEMMA SettingsInvReach == SettingsInv => SettingsTypeOK /\ SettingsReach
<1> SUFFICES ASSUME SettingsInv  PROVE SettingsTypeOK /\ SettingsReach
  OBVIOUS
<1>1. SettingsTypeOK
  BY DEF SettingsInv, SettingTypes, SettingsTypeOK, DeployRecord, AskerRecord
<1>2. SettingsReach
  BY DEF SettingsInv, RestKept, AtRest, SettingsReach, NobodyAtIt
<1> QED
  BY <1>1, <1>2

\* Every variable of the settings keeps its shape, for any clients, bounds and
\* faults (apps.go, volumes.go).
THEOREM SettingsTypeInvariant == SettingsSpec => []SettingsTypeOK
<1>1. SettingsInv => SettingsTypeOK
  BY SettingsInvReach
<1> QED
  BY <1>1, SettingsInitially, SettingsInvInductive, PTL DEF SettingsSpec

\* However requests, deploys and failures were mixed before, once an autoscale request
\* ran alone on a live app, and as long as one thing at a time runs after it on a live
\* app, the objects in the cluster are those the row renders to, and no others
\* (scaleApp, autoscaleApp, syncApp).
THEOREM SettingsReachTheCluster == SettingsSpec => []SettingsReach
<1>1. SettingsInv => SettingsReach
  BY SettingsInvReach
<1> QED
  BY <1>1, SettingsInitially, SettingsInvInductive, PTL DEF SettingsSpec

--------------------------------
\* Pushes: what a delivery under way and a build rely on.

HookType == [pc : HookPCs, push : Commits, looked : BuildNos]

PushShape ==
    /\ head \in Commits /\ recorded \subseteq 1 .. head /\ unbuilt \subseteq 1 .. head
    /\ builds \in Seq(BuildRow) /\ Len(builds) <= MaxBuilds
    /\ hook \in [Hooks -> HookType] /\ pushFaults \subseteq PushFaults

\* A delivery under way is on record, is alone with its push, and has started nothing; the
\* build it saw has ended and stays so.
HookOK(h) ==
    /\ hook[h].looked <= Len(builds) /\ ~ Building(hook[h].looked)
    /\ hook[h].pc = "idle" => hook[h].push = 0
    /\ hook[h].pc # "idle" =>
           /\ hook[h].push \in recorded
           /\ \A g \in Hooks : hook[g].pc # "idle" /\ hook[g].push = hook[h].push => g = h
           /\ \A b \in DOMAIN builds : builds[b].push # hook[h].push

BuildOK(b) ==
    /\ builds[b].commit = 0 => builds[b].building
    /\ builds[b].looked < b /\ ~ Building(builds[b].looked)
    /\ builds[b].push # 0 =>
           /\ builds[b].push \in recorded
           /\ \A c \in DOMAIN builds : builds[c].push = builds[b].push => c = b

\* A build has the push, or will when it clones.
Reaches(b, k) == builds[b].commit = 0 \/ builds[b].commit >= k

\* A push on record is given up, is being looked after, or is built.
Reached(k) ==
    \/ k \in unbuilt
    \/ \E h \in Hooks : hook[h].pc # "idle" /\ hook[h].push = k
    \/ \E b \in DOMAIN builds : Reaches(b, k)

\* The inductive invariant.
PushInv ==
    /\ PushShape
    /\ \A h \in Hooks : HookOK(h)
    /\ \A b \in DOMAIN builds : BuildOK(b)
    /\ \A k \in recorded : Reached(k)

LEMMA PushBounds == MaxPushes \in Nat /\ MaxBuilds \in Nat
BY PushAssumption

LEMMA NoHookTyped ==
    NoHook \in HookType /\ NoHook.pc = "idle" /\ NoHook.push = 0 /\ NoHook.looked = 0
BY PushBounds DEF NoHook, HookType, HookPCs, Commits, BuildNos

LEMMA PushInitially == PushInit => PushInv
<1> SUFFICES ASSUME PushInit  PROVE PushInv
  OBVIOUS
<1>1. PushShape
  BY PushBounds, NoHookTyped DEF PushInit, PushShape, Commits
<1> QED
  BY <1>1, NoHookTyped DEF PushInit, PushInv, HookOK, BuildOK, Building

\* A push moves the head on.
LEMMA PushedKeeps == ASSUME PushInv, Pushed  PROVE PushInv'
<1>1. PushShape'
  BY PushBounds DEF PushInv, PushShape, Pushed, Commits
<1> QED
  BY <1>1 DEF PushInv, Pushed, HookOK, BuildOK, Building, Reached, Reaches

\* Pushes may be given up at any time.
LEMMA UnbuiltGrows ==
    ASSUME PushInv, NEW K \in SUBSET (1 .. head), unbuilt' = unbuilt \cup K,
           pushFaults' \subseteq PushFaults,
           UNCHANGED <<head, recorded, builds, hook>>
    PROVE  PushInv'
<1>1. PushShape'
  BY DEF PushInv, PushShape
<1> QED
  BY <1>1 DEF PushInv, HookOK, BuildOK, Building, Reached, Reaches

\* A delivery comes to rest: its push is given up or a build has it.
LEMMA HookRests ==
    ASSUME PushInv, NEW H \in SUBSET Hooks, hook' \in [Hooks -> HookType],
           \A h \in H : hook'[h] = NoHook, \A h \in Hooks \ H : hook'[h] = hook[h],
           unbuilt \subseteq unbuilt', unbuilt' \subseteq 1 .. head,
           \A h \in H : hook[h].pc # "idle" =>
               hook[h].push \in unbuilt' \/ \E b \in DOMAIN builds : Reaches(b, hook[h].push),
           pushFaults' \subseteq PushFaults,
           UNCHANGED <<head, recorded, builds>>
    PROVE  PushInv'
<1>1. PushShape'
  BY DEF PushInv, PushShape
<1>2. \A h \in Hooks : HookOK(h)'
  <2> SUFFICES ASSUME NEW h \in Hooks  PROVE HookOK(h)'
    OBVIOUS
  <2>0. HookOK(h) /\ Len(builds) \in Nat
    BY DEF PushInv, PushShape
  <2>1. CASE h \in H
    BY <2>0, <2>1, NoHookTyped DEF HookOK, Building
  <2>2. CASE h \notin H
    <3>1. \A g \in Hooks : hook'[g].pc # "idle" => hook'[g] = hook[g]
      BY NoHookTyped
    <3> QED
      BY <2>0, <2>2, <3>1 DEF HookOK, Building
  <2> QED
    BY <2>1, <2>2
<1>3. \A b \in DOMAIN builds' : BuildOK(b)'
  BY DEF PushInv, BuildOK, Building
<1>4. \A k \in recorded' : Reached(k)'
  <2> SUFFICES ASSUME NEW k \in recorded  PROVE Reached(k)'
    OBVIOUS
  <2>1. Reached(k)
    BY DEF PushInv
  <2>2. CASE k \in unbuilt \/ \E b \in DOMAIN builds : Reaches(b, k)
    BY <2>2 DEF Reached, Reaches
  <2>3. ASSUME NEW h \in Hooks, hook[h].pc # "idle", hook[h].push = k  PROVE Reached(k)'
    BY <2>3 DEF Reached, Reaches
  <2> QED
    BY <2>1, <2>2, <2>3 DEF Reached
<1> QED
  BY <1>1, <1>2, <1>3, <1>4 DEF PushInv

LEMMA OneHookRests ==
    ASSUME PushInv, NEW h \in Hooks, hook[h].pc # "idle", hook' = [hook EXCEPT ![h] = NoHook],
           unbuilt \subseteq unbuilt', unbuilt' \subseteq unbuilt \cup {hook[h].push},
           hook[h].push \in unbuilt' \/ \E b \in DOMAIN builds : Reaches(b, hook[h].push),
           pushFaults' \subseteq PushFaults,
           UNCHANGED <<head, recorded, builds>>
    PROVE  PushInv'
<1>1. /\ hook' \in [Hooks -> HookType] /\ \A g \in {h} : hook'[g] = NoHook
      /\ \A g \in Hooks \ {h} : hook'[g] = hook[g]
  BY NoHookTyped DEF PushInv, PushShape
<1>2. hook[h].push \in 1 .. head /\ unbuilt \subseteq 1 .. head
  BY DEF PushInv, PushShape, HookOK
<1>3. PICK H \in SUBSET Hooks : H = {h}
  OBVIOUS
<1>4. /\ \A g \in H : hook'[g] = NoHook
      /\ \A g \in Hooks \ H : hook'[g] = hook[g]
      /\ \A g \in H : hook[g].pc # "idle" =>
            hook[g].push \in unbuilt' \/ \E b \in DOMAIN builds : Reaches(b, hook[g].push)
      /\ unbuilt' \subseteq 1 .. head
  BY <1>1, <1>2, <1>3
<1> QED
  BY <1>1, <1>4, HookRests

LEMMA DeliveryLostKeeps ==
    ASSUME PushInv, NEW k \in 1 .. head, DeliveryLost(k)  PROVE PushInv'
BY UnbuiltGrows DEF DeliveryLost, Upsets, PushInv, PushShape

LEMMA HookFailsKeeps == ASSUME PushInv, NEW h \in Hooks, HookFails(h)  PROVE PushInv'
BY OneHookRests DEF HookFails, Upsets, PushInv, PushShape

LEMMA PushCrashKeeps == ASSUME PushInv, PushCrash  PROVE PushInv'
<1>1. hook' \in [Hooks -> HookType] /\ \A h \in Hooks : hook'[h] = NoHook
  BY NoHookTyped DEF PushCrash
<1>2. \A h \in Hooks : hook[h].pc # "idle" => hook[h].push \in 1 .. head
  BY DEF PushInv, PushShape, HookOK
<1> QED
  BY <1>1, <1>2, HookRests DEF PushCrash, Upsets, PushInv, PushShape

\* A delivery's record is what lets it be the only one.
LEMMA DeliversKeeps ==
    ASSUME PushInv, NEW h \in Hooks, NEW k \in 1 .. head, Delivers(h, k)  PROVE PushInv'
<1> DEFINE e == [NoHook EXCEPT !.pc = "look", !.push = k]
<1>0. k \in Commits
  BY PushBounds DEF PushInv, PushShape, Commits
<1>1. e \in HookType /\ e.pc = "look" /\ e.push = k /\ e.looked = 0
  BY <1>0, NoHookTyped DEF HookType, HookPCs
<1>2. hook' \in [Hooks -> HookType] /\ hook'[h] = e /\ \A g \in Hooks \ {h} : hook'[g] = hook[g]
  BY <1>1 DEF Delivers, PushInv, PushShape
<1> HIDE DEF e
<1>3. PushShape'
  BY <1>2 DEF Delivers, PushInv, PushShape
<1>4. k \notin recorded /\ recorded' = recorded \cup {k} /\ hook[h].pc = "idle"
  BY DEF Delivers
<1>5. \A g \in Hooks : HookOK(g)'
  <2> SUFFICES ASSUME NEW g \in Hooks  PROVE HookOK(g)'
    OBVIOUS
  <2>0. HookOK(g) /\ UNCHANGED builds /\ Len(builds) \in Nat
    BY DEF PushInv, PushShape, Delivers
  <2>1. CASE g = h
    <3>1. \A b \in DOMAIN builds : builds[b].push # k
      BY <1>4, PushBounds DEF PushInv, PushShape, BuildOK
    <3>2. \A f \in Hooks : hook[f].pc # "idle" => hook[f].push # k
      BY <1>4 DEF PushInv, HookOK
    <3> QED
      BY <1>1, <1>2, <1>4, <2>0, <2>1, <3>1, <3>2 DEF HookOK, Building
  <2>2. CASE g # h
    <3>1. hook[g].pc # "idle" => hook[g].push # k
      BY <1>4, <2>0 DEF HookOK
    <3> QED
      BY <1>1, <1>2, <1>4, <2>0, <2>2, <3>1 DEF HookOK, Building
  <2> QED
    BY <2>1, <2>2
<1>6. \A b \in DOMAIN builds' : BuildOK(b)'
  BY <1>4 DEF PushInv, BuildOK, Building, Delivers
<1>7. \A j \in recorded' : Reached(j)'
  <2> SUFFICES ASSUME NEW j \in recorded'  PROVE Reached(j)'
    OBVIOUS
  <2>1. CASE j = k
    BY <1>1, <1>2, <2>1 DEF Reached
  <2>2. CASE j # k
    <3>1. Reached(j) /\ UNCHANGED <<unbuilt, builds>>
      BY <1>4, <2>2 DEF PushInv, Delivers
    <3> QED
      BY <1>2, <1>4, <3>1 DEF Reached, Reaches
  <2> QED
    BY <2>1, <2>2
<1> QED
  BY <1>3, <1>5, <1>6, <1>7 DEF PushInv

\* The newest build, if it is under way, has cloned the push, will, or gives it up.
LEMMA LooksForBuildKeeps == ASSUME PushInv, NEW h \in Hooks, LooksForBuild(h)  PROVE PushInv'
<1> DEFINE n == Len(builds)
<1>0. /\ n \in BuildNos /\ n \in Nat /\ hook[h].push \in 1 .. head /\ head \in Nat
      /\ Building(n) => n \in DOMAIN builds /\ builds[n] \in BuildRow
  BY PushBounds DEF PushInv, PushShape, BuildNos, Building, LooksForBuild, HookOK, Commits
<1>1. CASE Building(n)
  <2>1. hook' = [hook EXCEPT ![h] = NoHook] /\ hook[h].pc # "idle"
    BY <1>1 DEF LooksForBuild
  <2>2. builds[n].commit \in Nat
    BY <1>0, <1>1, PushBounds DEF BuildRow, Commits
  <2>3. \/ builds[n].commit \in 1 .. hook[h].push - 1 /\ unbuilt' = unbuilt \cup {hook[h].push}
        \/ Reaches(n, hook[h].push) /\ unbuilt' = unbuilt
    BY <1>0, <1>1, <2>2 DEF LooksForBuild, Reaches
  <2>4. /\ hook[h].push \in unbuilt' \/ \E b \in DOMAIN builds : Reaches(b, hook[h].push)
        /\ unbuilt \subseteq unbuilt' /\ unbuilt' \subseteq unbuilt \cup {hook[h].push}
    BY <1>0, <1>1, <2>3
  <2>5. pushFaults' \subseteq PushFaults
    BY DEF LooksForBuild, PushInv, PushShape
  <2>6. UNCHANGED <<head, recorded, builds>>
    BY DEF LooksForBuild
  <2> HIDE DEF n
  <2> QED
    BY <2>1, <2>4, <2>5, <2>6, OneHookRests
<1>2. CASE ~ Building(n)
  <2> DEFINE e == [hook[h] EXCEPT !.pc = "deploy", !.looked = n]
  <2>1. hook[h] \in HookType
    BY DEF PushInv, PushShape
  <2>2. e \in HookType /\ e.pc = "deploy" /\ e.push = hook[h].push /\ e.looked = n
    BY <1>0, <2>1 DEF HookType, HookPCs
  <2>3. hook' = [hook EXCEPT ![h] = e] /\ UNCHANGED <<head, recorded, builds, unbuilt, pushFaults>>
    BY <1>2 DEF LooksForBuild, PushInv, PushShape
  <2> HIDE DEF e
  <2>4. /\ hook' \in [Hooks -> HookType] /\ hook'[h] = e
        /\ \A g \in Hooks \ {h} : hook'[g] = hook[g]
    BY <2>2, <2>3 DEF PushInv, PushShape
  <2>5. PushShape'
    BY <2>3, <2>4 DEF PushInv, PushShape
  <2>6. \A g \in Hooks : hook'[g].push = hook[g].push /\ (hook'[g].pc = "idle" <=> hook[g].pc = "idle")
    BY <2>2, <2>4 DEF LooksForBuild
  <2>7. \A g \in Hooks : HookOK(g)'
    <3> SUFFICES ASSUME NEW g \in Hooks  PROVE HookOK(g)'
      OBVIOUS
    <3>1. HookOK(g)
      BY DEF PushInv
    <3>2. hook'[g].looked <= Len(builds) /\ ~ Building(hook'[g].looked)
      BY <1>0, <1>2, <2>2, <2>4, <3>1 DEF HookOK
    <3> QED
      BY <2>3, <2>6, <3>1, <3>2 DEF HookOK, Building
  <2>8. \A b \in DOMAIN builds' : BuildOK(b)'
    BY <2>3 DEF PushInv, BuildOK, Building
  <2>9. \A k \in recorded' : Reached(k)'
    BY <2>3, <2>6 DEF PushInv, Reached, Reaches
  <2> QED
    BY <2>5, <2>7, <2>8, <2>9 DEF PushInv
<1> QED
  BY <1>1, <1>2

\* A build that starts will have every push on record.
LEMMA BuildAdded ==
    ASSUME PushInv, NEW e \in BuildRow, Len(builds) < MaxBuilds, builds' = Append(builds, e),
           e.building, e.commit = 0, e.looked <= Len(builds), ~ Building(e.looked),
           e.push # 0 => /\ e.push \in recorded
                         /\ \A b \in DOMAIN builds : builds[b].push # e.push,
           hook' \in [Hooks -> HookType],
           \A g \in Hooks : \/ hook'[g] = NoHook
                            \/ /\ hook'[g] = hook[g]
                               /\ hook[g].pc # "idle" => hook[g].push # e.push,
           UNCHANGED <<head, recorded, unbuilt, pushFaults>>
    PROVE  PushInv'
<1> DEFINE n == Len(builds)
<1>1. /\ builds' \in Seq(BuildRow) /\ n \in Nat /\ Len(builds') = n + 1
      /\ DOMAIN builds = 1 .. n /\ DOMAIN builds' = 1 .. n + 1 /\ builds'[n + 1] = e
      /\ \A b \in 1 .. n : builds'[b] = builds[b]
  BY AddRow, LenProperties DEF PushInv, PushShape
<1> HIDE DEF n
<1>2. PushShape'
  BY <1>1, PushBounds DEF PushInv, PushShape, n
<1>3. \A b \in BuildNos : b <= n => (Building(b)' <=> Building(b))
  BY <1>1, PushBounds DEF Building, BuildNos
<1>4. \A g \in Hooks : HookOK(g)'
  <2> SUFFICES ASSUME NEW g \in Hooks  PROVE HookOK(g)'
    OBVIOUS
  <2>0. HookOK(g) /\ hook[g] \in HookType
    BY DEF PushInv, PushShape
  <2>1. CASE hook'[g] = NoHook
    BY <1>1, <2>1, NoHookTyped DEF HookOK, Building
  <2>2. CASE hook'[g] = hook[g] /\ (hook[g].pc # "idle" => hook[g].push # e.push)
    <3>1. hook[g].looked \in BuildNos /\ hook[g].looked <= n
      BY <2>0 DEF HookType, HookOK, n
    <3>2. \A f \in Hooks : hook'[f].pc # "idle" => hook'[f] = hook[f]
      BY NoHookTyped
    <3>3. UNCHANGED recorded
      OBVIOUS
    <3> QED
      BY <1>1, <1>3, <2>0, <2>2, <3>1, <3>2, <3>3, PushBounds DEF HookOK, BuildNos, n
  <2> QED
    BY <2>1, <2>2
<1>5. \A b \in DOMAIN builds' : BuildOK(b)'
  <2> SUFFICES ASSUME NEW b \in DOMAIN builds'  PROVE BuildOK(b)'
    OBVIOUS
  <2>1. CASE b = n + 1
    <3>1. e.looked \in BuildNos /\ e.looked <= n /\ ~ Building(e.looked)
      BY DEF BuildRow, n
    <3> QED
      BY <1>1, <1>3, <2>1, <3>1, PushBounds DEF BuildOK, BuildNos
  <2>2. CASE b # n + 1
    <3>1. b \in 1 .. n /\ BuildOK(b) /\ builds[b] \in BuildRow
      BY <1>1, <2>2 DEF PushInv, PushShape
    <3>2. builds[b].looked \in BuildNos /\ builds[b].looked <= n /\ builds[b].looked < b
      BY <1>1, <3>1, PushBounds DEF BuildRow, BuildOK, BuildNos
    <3> QED
      BY <1>1, <1>3, <3>1, <3>2 DEF BuildOK
  <2> QED
    BY <2>1, <2>2
<1>6. \A k \in recorded' : Reached(k)'
  BY <1>1 DEF Reached, Reaches
<1> QED
  BY <1>2, <1>4, <1>5, <1>6 DEF PushInv

\* A build that changes stays with its push, and its end is for good.
LEMMA BuildChanged ==
    ASSUME PushInv, NEW b \in DOMAIN builds, NEW e \in BuildRow,
           builds' = [builds EXCEPT ![b] = e],
           e.push = builds[b].push, e.looked = builds[b].looked, e.commit # 0,
           e.building => builds[b].building,
           \A k \in recorded : Reaches(b, k) => e.commit >= k,
           UNCHANGED <<head, recorded, hook, unbuilt, pushFaults>>
    PROVE  PushInv'
<1>1. /\ builds' \in Seq(BuildRow) /\ Len(builds') = Len(builds)
      /\ DOMAIN builds' = DOMAIN builds /\ builds'[b] = e
      /\ \A c \in DOMAIN builds : c # b => builds'[c] = builds[c]
  BY PutRow DEF PushInv, PushShape
<1>2. PushShape'
  BY <1>1 DEF PushInv, PushShape
<1>3. /\ Len(builds) \in Nat /\ DOMAIN builds = 1 .. Len(builds)
      /\ \A c \in BuildNos : c <= Len(builds) /\ ~ Building(c) => ~ Building(c)'
  BY <1>1, LenProperties, PushBounds DEF PushInv, PushShape, Building, BuildNos
<1>4. \A c \in DOMAIN builds : builds'[c].push = builds[c].push /\ builds'[c].looked = builds[c].looked
  BY <1>1
<1>5. \A g \in Hooks : HookOK(g)'
  <2> SUFFICES ASSUME NEW g \in Hooks  PROVE HookOK(g)'
    OBVIOUS
  <2>0. HookOK(g) /\ hook[g].looked \in BuildNos /\ UNCHANGED <<hook, recorded>>
    BY DEF PushInv, PushShape, HookType
  <2>1. hook'[g].looked <= Len(builds') /\ ~ Building(hook[g].looked)'
    BY <1>1, <1>3, <2>0 DEF HookOK
  <2>2. \A c \in DOMAIN builds' : builds'[c].push = builds[c].push
    BY <1>1, <1>4
  <2> QED
    BY <1>1, <2>0, <2>1, <2>2 DEF HookOK
<1>6. \A c \in DOMAIN builds' : BuildOK(c)'
  <2> SUFFICES ASSUME NEW c \in DOMAIN builds  PROVE BuildOK(c)'
    BY <1>1
  <2>a. BuildOK(c) /\ builds[c] \in BuildRow /\ c \in 1 .. Len(builds)
    BY <1>3 DEF PushInv, PushShape
  <2>0. /\ BuildOK(c) /\ builds[c].looked \in BuildNos /\ builds[c].looked <= Len(builds)
        /\ UNCHANGED recorded
    BY <1>3, <2>a, PushBounds DEF BuildRow, BuildOK, BuildNos
  <2>1. builds'[c].commit = 0 => builds'[c].building
    BY <1>1, <2>0 DEF BuildOK
  <2> QED
    BY <1>1, <1>3, <1>4, <2>0, <2>1 DEF BuildOK
<1>7. \A k \in recorded' : Reached(k)'
  BY <1>1 DEF PushInv, Reached, Reaches
<1> QED
  BY <1>2, <1>5, <1>6, <1>7 DEF PushInv

LEMMA DeploysKeeps == ASSUME PushInv, NEW h \in Hooks, Deploys(h)  PROVE PushInv'
<1> DEFINE e == [building |-> TRUE, commit |-> 0, push |-> hook[h].push, looked |-> hook[h].looked]
<1>0. HookOK(h) /\ hook[h] \in HookType /\ hook[h].pc # "idle"
  BY DEF Deploys, PushInv, PushShape
<1>1. e \in BuildRow /\ e.building /\ e.commit = 0 /\ e.push = hook[h].push /\ e.looked = hook[h].looked
  BY <1>0, PushBounds DEF HookType, BuildRow, Commits
<1>2. builds' = Append(builds, e) /\ Len(builds) < MaxBuilds /\ hook' = [hook EXCEPT ![h] = NoHook]
  BY DEF Deploys
<1> HIDE DEF e
<1>3. hook' \in [Hooks -> HookType]
  BY <1>2, NoHookTyped DEF PushInv, PushShape
<1>4. \A g \in Hooks : \/ hook'[g] = NoHook
                       \/ hook'[g] = hook[g] /\ (hook[g].pc # "idle" => hook[g].push # e.push)
  BY <1>0, <1>1, <1>2 DEF HookOK, PushInv, PushShape
<1>5. /\ e.push \in recorded /\ \A b \in DOMAIN builds : builds[b].push # e.push
      /\ e.looked <= Len(builds) /\ ~ Building(e.looked)
  BY <1>0, <1>1 DEF HookOK
<1>6. UNCHANGED <<head, recorded, unbuilt, pushFaults>>
  BY DEF Deploys
<1> QED
  BY <1>1, <1>2, <1>3, <1>4, <1>5, <1>6, BuildAdded

LEMMA DeploysByHandKeeps == ASSUME PushInv, DeploysByHand  PROVE PushInv'
<1> DEFINE e == [building |-> TRUE, commit |-> 0, push |-> 0, looked |-> 0]
<1>1. e \in BuildRow /\ e.building /\ e.commit = 0 /\ e.push = 0 /\ e.looked = 0
  BY PushBounds DEF BuildRow, Commits, BuildNos
<1>2. builds' = Append(builds, e) /\ Len(builds) < MaxBuilds
  BY DEF DeploysByHand
<1> HIDE DEF e
<1>3. /\ hook' = hook /\ hook \in [Hooks -> HookType] /\ Len(builds) \in Nat
      /\ \A g \in Hooks : hook[g].pc # "idle" => hook[g].push # 0
  BY DEF DeploysByHand, PushInv, PushShape, HookOK
<1>4. UNCHANGED <<head, recorded, unbuilt, pushFaults>> /\ ~ Building(0)
  BY DEF DeploysByHand, Building
<1> QED
  BY <1>1, <1>2, <1>3, <1>4, BuildAdded

LEMMA JobClonesKeeps == ASSUME PushInv, NEW b \in DOMAIN builds, JobClones(b)  PROVE PushInv'
<1> DEFINE e == [builds[b] EXCEPT !.commit = head]
<1>0. builds[b] \in BuildRow
  BY DEF PushInv, PushShape
<1>1. /\ e \in BuildRow /\ e.commit = head /\ e.building = builds[b].building
      /\ e.push = builds[b].push /\ e.looked = builds[b].looked
  BY <1>0 DEF BuildRow, PushInv, PushShape
<1>2. builds' = [builds EXCEPT ![b] = e] /\ head # 0
  BY DEF JobClones
<1> HIDE DEF e
<1>3. \A k \in recorded : head >= k
  BY PushBounds DEF PushInv, PushShape, Commits
<1>4. UNCHANGED <<head, recorded, hook, unbuilt, pushFaults>>
  BY DEF JobClones
<1> QED
  BY <1>1, <1>2, <1>3, <1>4, BuildChanged

LEMMA BuildEndsKeeps == ASSUME PushInv, NEW b \in DOMAIN builds, BuildEnds(b)  PROVE PushInv'
<1> DEFINE e == [builds[b] EXCEPT !.building = FALSE]
<1>0. builds[b] \in BuildRow
  BY DEF PushInv, PushShape
<1>1. /\ e \in BuildRow /\ e.commit = builds[b].commit /\ ~ e.building
      /\ e.push = builds[b].push /\ e.looked = builds[b].looked
  BY <1>0 DEF BuildRow
<1>2. builds' = [builds EXCEPT ![b] = e] /\ builds[b].commit # 0
  BY DEF BuildEnds
<1> HIDE DEF e
<1>3. \A k \in recorded : Reaches(b, k) => e.commit >= k
  BY <1>1, <1>2 DEF Reaches
<1>4. UNCHANGED <<head, recorded, hook, unbuilt, pushFaults>>
  BY DEF BuildEnds
<1> QED
  BY <1>1, <1>2, <1>3, <1>4, BuildChanged

LEMMA PushStep == PushInv /\ [PushNext]_pushVars => PushInv'
<1>1. ASSUME PushInv, UNCHANGED pushVars  PROVE PushInv'
  BY <1>1 DEF pushVars, PushInv, PushShape, HookOK, BuildOK, Building, Reached, Reaches
<1> QED
  BY <1>1, PushedKeeps, DeploysByHandKeeps, PushCrashKeeps, LooksForBuildKeeps, DeploysKeeps,
     HookFailsKeeps, DeliversKeeps, DeliveryLostKeeps, JobClonesKeeps, BuildEndsKeeps DEF PushNext

LEMMA PushInvSuffices == PushInv => PushTypeOK /\ PushesWhole
<1> SUFFICES ASSUME PushInv  PROVE PushTypeOK /\ PushesWhole
  OBVIOUS
<1>1. PushTypeOK
  <2>1. \A h \in Hooks : /\ hook[h].pc \in HookPCs /\ hook[h].push \in 0 .. head
                         /\ hook[h].looked \in 0 .. Len(builds)
    BY PushBounds DEF PushInv, PushShape, HookOK, HookType, Commits, BuildNos
  <2> QED
    BY <2>1, PushBounds DEF PushTypeOK, PushInv, PushShape, BuildNos
<1>2. PushesReachBuilds
  BY DEF PushesReachBuilds, PushInv, Reached, Reaches, BuildOK
<1>3. BuildsDoNotStack
  BY DEF BuildsDoNotStack, PushInv, BuildOK
<1>4. PushesBuiltOnce
  BY DEF PushesBuiltOnce, PushInv, BuildOK
<1> QED
  BY <1>1, <1>2, <1>3, <1>4 DEF PushesWhole

\* The shapes of rows, builds and deliveries hold throughout (webhook.go).
THEOREM PushesTyped == PushSpec => []PushTypeOK
BY PushInitially, PushStep, PushInvSuffices, PTL DEF PushSpec

\* For any number of pushes, deliveries and builds: what was delivered is built unless the
\* history names why not, deliveries do not stack builds, and none builds twice
\* (handleWebhookTrigger, webhookReplay).
THEOREM PushesServed == PushSpec => []PushesWhole
BY PushInitially, PushStep, PushInvSuffices, PTL DEF PushSpec

--------------------------------
\* Images: what an app runs, and what a sweep may take.

SweepType == [pc : {"idle", "listing", "deleting"}, keep : SUBSET Tags, repos : SUBSET Repos,
              todo : SUBSET Tags, victims : SUBSET (Repos \X Contents)]

ImageShape ==
    /\ deployRows \in [AppIds -> Seq(DeployRow)]
    /\ \A a \in AppIds : Len(deployRows[a]) <= MaxTags
    /\ registry \in [Tags -> Contents \cup {Nothing}]
    /\ applied \in [AppIds -> [row : Nat, runs : Contents \cup {Nothing}]]
    /\ \A a \in AppIds : applied[a].row <= Len(deployRows[a])
    /\ sweep \in SweepType /\ missed \subseteq AppIds \X (1 .. MaxTags) /\ sweeps \in 0 .. MaxSweeps
    /\ sweep.pc = "idle" => sweep = NoSweep

\* A row that names a tag was built under it, itself or the one it is a rollback to.
RowNames(a, i) ==
    LET r == deployRows[a][i] IN
    /\ r.status = "building" => r.ref = 0
    /\ r.status \in {"deploying", "live"} => r.ref # 0
    /\ r.ref # 0 => /\ r.ref \in DOMAIN deployRows[a] /\ r.made # Nothing
                    /\ deployRows[a][r.ref].made = r.made

\* A tag holds nothing, or what the deploy of its number made.
TagHolds(a, s) ==
    registry[ImageRef(a, s)] # Nothing =>
        /\ s \in DOMAIN deployRows[a] /\ deployRows[a][s].made = registry[ImageRef(a, s)]

\* What was applied is a row with an image, which the pods run if they found it.
Serves(a) ==
    LET v == applied[a] IN
    /\ v.row # 0 => deployRows[a][v.row].ref # 0
    /\ v.runs # Nothing => v.row # 0 /\ v.runs = deployRows[a][v.row].made

\* A request of rollback goes back to a deploy that has an image.
RollNames(r) == r.to \in DOMAIN deployRows[r.app] /\ deployRows[r.app][r.to].ref # 0
RollsStand   == \A r \in rolls : r \in Roll /\ RollNames(r)

ImageInv ==
    /\ ImageShape /\ RollsStand
    /\ \A a \in AppIds : \A i \in DOMAIN deployRows[a] : RowNames(a, i)
    /\ \A a \in AppIds : \A s \in 1 .. MaxTags : TagHolds(a, s)
    /\ \A a \in AppIds : Serves(a)

OwnRepositories == \A a, b \in AppIds : RepoOf[a] = RepoOf[b] => a = b

LEMMA ImageTypes ==
    /\ \A a \in AppIds, s \in 1 .. MaxTags : ImageRef(a, s) \in Tags
    /\ \A a \in AppIds, s \in 1 .. MaxTags : <<a, s>> \in Contents /\ <<a, s>> # Nothing
    /\ \A c \in Contents : c # Nothing
<1>1. \A a \in AppIds, s \in 1 .. MaxTags : ImageRef(a, s) \in Tags
  BY DEF Tags, Repos, ImageRef
<1>2. \A a \in AppIds, s \in 1 .. MaxTags : <<a, s>> \in Contents
  BY DEF Contents
<1>3. \A c \in Contents : c # Nothing
  <2>1. \A a \in AppIds, s \in 1 .. MaxTags : <<a, s>> # <<0, 0>>
    <3>1. \A s \in 1 .. MaxTags : s # 0
      BY ImageAssumption
    <3> QED  BY <3>1
  <2> QED  BY <2>1 DEF Contents, Nothing
<1> QED  BY <1>1, <1>2, <1>3

LEMMA RefsDiffer ==
    ASSUME OwnRepositories, NEW a \in AppIds, NEW b \in AppIds, NEW s, NEW t
    PROVE  ImageRef(a, s) = ImageRef(b, t) => a = b /\ s = t
  BY DEF OwnRepositories, ImageRef

LEMMA ImageRowTypes ==
    ASSUME ImageShape, NEW a \in AppIds
    PROVE  /\ deployRows[a] \in Seq(DeployRow) /\ Len(deployRows[a]) \in 0 .. MaxTags
           /\ DOMAIN deployRows[a] = 1 .. Len(deployRows[a])
           /\ \A i \in DOMAIN deployRows[a] : i \in 1 .. MaxTags /\ deployRows[a][i] \in DeployRow
<1>1. deployRows[a] \in Seq(DeployRow) /\ Len(deployRows[a]) <= MaxTags
  BY DEF ImageShape
<1>2. Len(deployRows[a]) \in Nat /\ DOMAIN deployRows[a] = 1 .. Len(deployRows[a])
  BY <1>1, LenProperties
<1>3. \A i \in DOMAIN deployRows[a] : deployRows[a][i] \in DeployRow
  BY <1>1, <1>2, ElementOfSeq
<1> QED  BY <1>1, <1>2, <1>3, ImageAssumption

LEMMA ImageInitInv == ImageInit => ImageInv
<1> SUFFICES ASSUME ImageInit  PROVE ImageInv
  OBVIOUS
<1>1. ImageShape
  BY ImageAssumption, EmptySeq DEF ImageInit, ImageShape, SweepType, NoSweep
<1>2. \A a \in AppIds : deployRows[a] = <<>> /\ applied[a].row = 0 /\ applied[a].runs = Nothing
  BY DEF ImageInit
<1>3. \A a \in AppIds : \A s \in 1 .. MaxTags : registry[ImageRef(a, s)] = Nothing
  BY ImageTypes DEF ImageInit
<1>4. \A a \in AppIds : DOMAIN deployRows[a] = {}
  BY <1>2
<1>5. RollsStand
  BY DEF ImageInit, RollsStand
<1>6. QED  BY <1>1, <1>2, <1>3, <1>4, <1>5 DEF ImageInv, TagHolds, Serves

\* A row is added, or moves on: what it made and the tag it names stay.
RowsGo ==
    /\ deployRows' \in [AppIds -> Seq(DeployRow)]
    /\ \A a \in AppIds : /\ Len(deployRows'[a]) <= MaxTags
                         /\ DOMAIN deployRows[a] \subseteq DOMAIN deployRows'[a]
    /\ \A a \in AppIds : \A i \in DOMAIN deployRows[a] :
          /\ deployRows[a][i].made # Nothing => deployRows'[a][i].made = deployRows[a][i].made
          /\ deployRows[a][i].ref # 0 => deployRows'[a][i].ref = deployRows[a][i].ref

\* A row is put in the place of one of an app's.
Puts(a, i, e) == deployRows' = [deployRows EXCEPT ![a] = [@ EXCEPT ![i] = e]]
Adds(a, e)    == deployRows' = [deployRows EXCEPT ![a] = Append(@, e)]

LEMMA PutGoes ==
    ASSUME ImageShape, NEW a \in AppIds, NEW i \in DOMAIN deployRows[a], NEW e \in DeployRow,
           Puts(a, i, e),
           deployRows[a][i].made # Nothing => e.made = deployRows[a][i].made,
           deployRows[a][i].ref # 0 => e.ref = deployRows[a][i].ref
    PROVE  /\ RowsGo /\ \A b \in AppIds : DOMAIN deployRows'[b] = DOMAIN deployRows[b]
           /\ deployRows'[a][i] = e
           /\ \A b \in AppIds : \A j \in DOMAIN deployRows[b] :
                  <<b, j>> # <<a, i>> => deployRows'[b][j] = deployRows[b][j]
<1>1. deployRows \in [AppIds -> Seq(DeployRow)] /\ \A b \in AppIds : Len(deployRows[b]) <= MaxTags
  BY DEF ImageShape
<1>2. /\ deployRows'[a] = [deployRows[a] EXCEPT ![i] = e]
      /\ \A b \in AppIds : b # a => deployRows'[b] = deployRows[b]
      /\ DOMAIN deployRows' = AppIds
  BY <1>1 DEF Puts
<1>3. /\ deployRows'[a] \in Seq(DeployRow) /\ Len(deployRows'[a]) = Len(deployRows[a])
      /\ DOMAIN deployRows'[a] = DOMAIN deployRows[a] /\ deployRows'[a][i] = e
      /\ \A j \in DOMAIN deployRows[a] : j # i => deployRows'[a][j] = deployRows[a][j]
  BY <1>1, <1>2, PutRow
<1>4. deployRows' \in [AppIds -> Seq(DeployRow)]
  BY <1>1, <1>2, <1>3 DEF Puts
<1>5. \A b \in AppIds : DOMAIN deployRows'[b] = DOMAIN deployRows[b] /\ Len(deployRows'[b]) <= MaxTags
  BY <1>1, <1>2, <1>3
<1>6. \A b \in AppIds : \A j \in DOMAIN deployRows[b] :
          <<b, j>> # <<a, i>> => deployRows'[b][j] = deployRows[b][j]
  BY <1>2, <1>3
<1>7. \A b \in AppIds : \A j \in DOMAIN deployRows[b] :
          /\ deployRows[b][j].made # Nothing => deployRows'[b][j].made = deployRows[b][j].made
          /\ deployRows[b][j].ref # 0 => deployRows'[b][j].ref = deployRows[b][j].ref
  BY <1>3, <1>6
<1>8. RowsGo
  BY <1>4, <1>5, <1>7 DEF RowsGo
<1> QED  BY <1>3, <1>5, <1>6, <1>8

LEMMA AddGoes ==
    ASSUME ImageShape, NEW a \in AppIds, NEW e \in DeployRow, Adds(a, e),
           Len(deployRows[a]) < MaxTags
    PROVE  LET n == Len(deployRows[a]) + 1 IN
           /\ RowsGo /\ n \in 1 .. MaxTags /\ n \notin DOMAIN deployRows[a]
           /\ DOMAIN deployRows'[a] = DOMAIN deployRows[a] \cup {n} /\ deployRows'[a][n] = e
           /\ Len(deployRows'[a]) = n
           /\ \A b \in AppIds : b # a => deployRows'[b] = deployRows[b]
           /\ \A b \in AppIds : \A j \in DOMAIN deployRows[b] : deployRows'[b][j] = deployRows[b][j]
<1> DEFINE n == Len(deployRows[a]) + 1
<1>1. deployRows \in [AppIds -> Seq(DeployRow)] /\ \A b \in AppIds : Len(deployRows[b]) <= MaxTags
  BY DEF ImageShape
<1>2. /\ deployRows'[a] = Append(deployRows[a], e)
      /\ \A b \in AppIds : b # a => deployRows'[b] = deployRows[b]
  BY <1>1 DEF Adds
<1>3. /\ deployRows'[a] \in Seq(DeployRow) /\ Len(deployRows'[a]) = n
      /\ DOMAIN deployRows'[a] = DOMAIN deployRows[a] \cup {n} /\ deployRows'[a][n] = e
      /\ \A j \in DOMAIN deployRows[a] : deployRows'[a][j] = deployRows[a][j]
  BY <1>1, <1>2, AddRow
<1>4. deployRows' \in [AppIds -> Seq(DeployRow)]
  BY <1>1, <1>2, <1>3 DEF Adds
<1>5. n \in 1 .. MaxTags /\ n \notin DOMAIN deployRows[a] /\ n <= MaxTags
  BY ImageRowTypes, ImageAssumption
<1>6. \A b \in AppIds : \A j \in DOMAIN deployRows[b] : deployRows'[b][j] = deployRows[b][j]
  BY <1>2, <1>3
<1>7. \A b \in AppIds : /\ Len(deployRows'[b]) <= MaxTags
                        /\ DOMAIN deployRows[b] \subseteq DOMAIN deployRows'[b]
  BY <1>1, <1>2, <1>3, <1>5
<1>8. RowsGo
  BY <1>4, <1>6, <1>7 DEF RowsGo
<1> QED  BY <1>2, <1>3, <1>5, <1>6, <1>8

\* What tags hold and apps run stays, when rows go on and tags at most lose what they held.
LEMMA GoKeeps ==
    ASSUME ImageInv, RowsGo
    PROVE  /\ (\A a \in AppIds, s \in 1 .. MaxTags :
                   registry'[ImageRef(a, s)] \in {registry[ImageRef(a, s)], Nothing}) =>
                   \A a \in AppIds : \A s \in 1 .. MaxTags : TagHolds(a, s)'
           /\ \A a \in AppIds : /\ applied'[a] = applied[a] => Serves(a)'
                                /\ applied[a].row <= Len(deployRows'[a])
           /\ \A a \in AppIds : \A i \in DOMAIN deployRows[a] :
                  deployRows'[a][i] = deployRows[a][i] => RowNames(a, i)'
<1>1. \A a \in AppIds : Serves(a) /\ \A s \in 1 .. MaxTags : TagHolds(a, s)
  BY DEF ImageInv
<1>2. \A a \in AppIds : \A i \in DOMAIN deployRows[a] : RowNames(a, i)
  BY DEF ImageInv
<1>3. \A a \in AppIds, s \in 1 .. MaxTags :
          registry'[ImageRef(a, s)] \in {registry[ImageRef(a, s)], Nothing} => TagHolds(a, s)'
  BY <1>1 DEF TagHolds, RowsGo, ImageRef
<1>4. \A a \in AppIds : /\ applied[a].row \in Nat /\ applied[a].row <= Len(deployRows[a])
                        /\ applied[a].row # 0 => applied[a].row \in DOMAIN deployRows[a]
  BY ImageRowTypes DEF ImageInv, ImageShape
<1>5. ASSUME NEW a \in AppIds, applied'[a] = applied[a]  PROVE Serves(a)'
  <2>1. CASE applied[a].row = 0
    BY <1>1, <1>5, <2>1 DEF Serves
  <2>2. CASE applied[a].row # 0
    <3>1. applied[a].row \in DOMAIN deployRows[a] /\ Serves(a)
      BY <1>1, <1>4, <2>2
    <3>2. deployRows[a][applied[a].row].made # Nothing /\ deployRows[a][applied[a].row].ref # 0
      BY <1>2, <2>2, <3>1 DEF RowNames, Serves
    <3> QED  BY <1>5, <3>1, <3>2 DEF Serves, RowsGo
  <2> QED  BY <2>1, <2>2
<1>6. ASSUME NEW a \in AppIds  PROVE applied[a].row <= Len(deployRows'[a])
  <2>1. /\ deployRows'[a] \in Seq(DeployRow) /\ DOMAIN deployRows[a] \subseteq DOMAIN deployRows'[a]
    BY DEF RowsGo
  <2>2. Len(deployRows'[a]) \in Nat /\ DOMAIN deployRows'[a] = 1 .. Len(deployRows'[a])
    BY <2>1, LenProperties
  <2> QED  BY <1>4, <2>1, <2>2
<1>7. ASSUME NEW a \in AppIds, NEW i \in DOMAIN deployRows[a], deployRows'[a][i] = deployRows[a][i]
      PROVE  RowNames(a, i)'
  BY <1>2, <1>7 DEF RowNames, RowsGo
<1> QED  BY <1>3, <1>5, <1>6, <1>7

\* The part of a step's inductive case that every step shares.
LEMMA ImageInvFrom ==
    ASSUME ImageInv, RowsGo, rolls' \subseteq rolls \/ RollsStand',
           registry' \in [Tags -> Contents \cup {Nothing}],
           applied' \in [AppIds -> [row : Nat, runs : Contents \cup {Nothing}]],
           sweep' \in SweepType, sweep'.pc = "idle" => sweep' = NoSweep,
           missed' \subseteq AppIds \X (1 .. MaxTags), sweeps' \in 0 .. MaxSweeps,
           \A a \in AppIds : \A i \in DOMAIN deployRows'[a] : RowNames(a, i)',
           \A a \in AppIds : \A s \in 1 .. MaxTags : TagHolds(a, s)',
           \A a \in AppIds : applied'[a] = applied[a] \/
               (Serves(a)' /\ applied'[a].row <= Len(deployRows'[a]))
    PROVE  ImageInv'
<1>1. \A a \in AppIds : Serves(a)' /\ applied'[a].row <= Len(deployRows'[a])
  BY GoKeeps
<1>2. ImageShape'
  BY <1>1 DEF ImageShape, RowsGo
<1>3. RollsStand'
  <2>1. ASSUME NEW r \in rolls  PROVE r \in Roll /\ RollNames(r)'
    <3>1. r \in Roll /\ RollNames(r) /\ r.app \in AppIds
      BY DEF ImageInv, RollsStand, Roll
    <3> QED  BY <3>1 DEF RollNames, RowsGo
  <2> QED  BY <2>1 DEF RollsStand
<1> QED  BY <1>1, <1>2, <1>3 DEF ImageInv

LEMMA Standing ==
    ASSUME ImageInv, UNCHANGED deployRows
    PROVE  /\ RowsGo /\ \A a \in AppIds : \A i \in DOMAIN deployRows'[a] : RowNames(a, i)'
<1>1. RowsGo
  BY ImageRowTypes DEF ImageInv, ImageShape, RowsGo
<1> QED  BY <1>1, GoKeeps

\* Statements on rows that leave images and pods alone.
LEMMA RowStepInv ==
    ASSUME ImageInv, NEW a \in AppIds, NEW i \in DOMAIN deployRows[a], NEW e \in DeployRow,
           Puts(a, i, e), UNCHANGED <<registry, applied, sweep, rolls, missed, sweeps>>,
           deployRows[a][i].made # Nothing => e.made = deployRows[a][i].made,
           deployRows[a][i].ref # 0 => e.ref = deployRows[a][i].ref,
           e.status = "building" => e.ref = 0,
           e.status \in {"deploying", "live"} => e.ref # 0,
           e.ref # 0 => e.made # Nothing /\ (e.ref = i \/ e.ref = deployRows[a][i].ref)
    PROVE  ImageInv'
<1>1. ImageShape
  BY DEF ImageInv
<1>2. RowsGo /\ (\A b \in AppIds : DOMAIN deployRows'[b] = DOMAIN deployRows[b])
      /\ deployRows'[a][i] = e
      /\ (\A b \in AppIds : \A j \in DOMAIN deployRows[b] :
             <<b, j>> # <<a, i>> => deployRows'[b][j] = deployRows[b][j])
  BY <1>1, PutGoes
<1>3. RowNames(a, i)'
  <2>1. RowNames(a, i)
    BY DEF ImageInv
  <2>2. CASE e.ref = deployRows[a][i].ref
    BY <1>2, <2>1, <2>2 DEF RowNames, RowsGo
  <2>3. CASE e.ref = i
    BY <1>2, <2>3 DEF RowNames
  <2>4. CASE e.ref = 0
    BY <1>2, <2>4 DEF RowNames
  <2> QED  BY <2>2, <2>3, <2>4
<1>4. \A b \in AppIds : \A j \in DOMAIN deployRows'[b] : RowNames(b, j)'
  BY <1>2, <1>3, GoKeeps
<1>5. \A b \in AppIds : \A s \in 1 .. MaxTags : TagHolds(b, s)'
  BY <1>2, GoKeeps
<1> QED  BY <1>1, <1>2, <1>4, <1>5, ImageInvFrom DEF ImageShape

LEMMA RowAddInv ==
    ASSUME ImageInv, NEW a \in AppIds, NEW e \in DeployRow, Adds(a, e), Len(deployRows[a]) < MaxTags,
           UNCHANGED <<registry, applied, sweep, sweeps>>, NEW unseen \in BOOLEAN,
           NotSeen(a, unseen), rolls' \subseteq rolls,
           e.status = "building" => e.ref = 0,
           e.status \in {"deploying", "live"} => e.ref # 0,
           e.ref # 0 => /\ e.ref \in DOMAIN deployRows[a] /\ e.made # Nothing
                        /\ deployRows[a][e.ref].made = e.made
    PROVE  ImageInv'
<1>0. PICK n : n = Len(deployRows[a]) + 1
  OBVIOUS
<1>1. ImageShape
  BY DEF ImageInv
<1>2. /\ RowsGo /\ n \in 1 .. MaxTags
      /\ DOMAIN deployRows'[a] = DOMAIN deployRows[a] \cup {n} /\ deployRows'[a][n] = e
      /\ (\A b \in AppIds : b # a => deployRows'[b] = deployRows[b])
      /\ (\A b \in AppIds : \A j \in DOMAIN deployRows[b] : deployRows'[b][j] = deployRows[b][j])
  BY <1>0, <1>1, AddGoes
<1>3. RowNames(a, n)'
  <2>1. e.ref \in DOMAIN deployRows[a] => deployRows'[a][e.ref] = deployRows[a][e.ref]
    BY <1>2
  <2> QED  BY <1>2, <2>1 DEF RowNames
<1>4. \A b \in AppIds : \A j \in DOMAIN deployRows'[b] : RowNames(b, j)'
  <2>1. TAKE b \in AppIds
  <2>2. TAKE j \in DOMAIN deployRows'[b]
  <2>3. CASE j \in DOMAIN deployRows[b]
    BY <1>2, <2>3, GoKeeps
  <2>4. CASE j \notin DOMAIN deployRows[b]
    <3>1. b = a /\ j = n
      BY <1>2, <2>4
    <3> QED  BY <1>3, <3>1 DEF RowNames
  <2> QED  BY <2>3, <2>4
<1>5. \A b \in AppIds : \A s \in 1 .. MaxTags : TagHolds(b, s)'
  BY <1>2, GoKeeps
<1>6. missed' \subseteq AppIds \X (1 .. MaxTags)
  BY <1>0, <1>1, <1>2 DEF ImageShape, NotSeen
<1> QED  BY <1>1, <1>2, <1>4, <1>5, <1>6, ImageInvFrom DEF ImageShape

LEMMA BuildAskedInv == ASSUME ImageInv, NEW a \in AppIds, BuildAsked(a)  PROVE ImageInv'
<1>1. PICK e : e = [status |-> "building", ref |-> 0, made |-> Nothing]
  OBVIOUS
<1>2. e \in DeployRow /\ e.status = "building" /\ e.ref = 0
  BY <1>1, ImageAssumption DEF DeployRow
<1>3. Adds(a, e) /\ NotSeen(a, Sweeping) /\ Sweeping \in BOOLEAN /\ rolls' \subseteq rolls
  BY <1>1 DEF BuildAsked, Adds, Sweeping
<1> QED  BY <1>2, <1>3, RowAddInv DEF BuildAsked

LEMMA RollbackLooksInv ==
    ASSUME ImageInv, NEW a \in AppIds, NEW t \in DOMAIN deployRows[a], RollbackLooks(a, t)
    PROVE  ImageInv'
<1>1. PICK q : q = [app |-> a, to |-> t, swept |-> Sweeping]
  OBVIOUS
<1>2. q \in Roll /\ RollNames(q) /\ rolls' = rolls \cup {q}
  BY <1>1, ImageRowTypes DEF Roll, RollNames, RollbackLooks, Sweeping, ImageInv
<1>3. UNCHANGED deployRows /\ RowsGo /\ (\A b \in AppIds : \A i \in DOMAIN deployRows'[b] : RowNames(b, i)')
  BY Standing DEF RollbackLooks
<1>4. RollsStand'
  BY <1>2, <1>3 DEF ImageInv, RollsStand, RollNames
<1>5. \A b \in AppIds : \A s \in 1 .. MaxTags : TagHolds(b, s)'
  BY <1>3, GoKeeps DEF RollbackLooks
<1> QED  BY <1>3, <1>4, <1>5, ImageInvFrom DEF ImageInv, ImageShape, RollbackLooks

LEMMA RollbackInv ==
    ASSUME ImageInv, NEW r \in rolls, RollbackTo(r)
    PROVE  ImageInv'
<1>0. PICK a, t : a = r.app /\ t = r.to
  OBVIOUS
<1>1. PICK e : e = [deployRows[a][t] EXCEPT !.status = "deploying"]
  OBVIOUS
<1>a. a \in AppIds /\ t \in DOMAIN deployRows[a] /\ deployRows[a][t].ref # 0 /\ r.swept \in BOOLEAN
  BY <1>0 DEF ImageInv, RollsStand, RollNames, Roll
<1>2. deployRows[a][t] \in DeployRow /\ RowNames(a, t)
  BY <1>a, ImageRowTypes DEF ImageInv
<1>3. /\ e \in DeployRow /\ e.status = "deploying"
      /\ e.ref = deployRows[a][t].ref /\ e.made = deployRows[a][t].made
  BY <1>1, <1>2 DEF DeployRow
<1>4. Adds(a, e) /\ NotSeen(a, r.swept) /\ rolls' \subseteq rolls /\ Len(deployRows[a]) < MaxTags
  BY <1>0, <1>1 DEF RollbackTo, Adds
<1>5. /\ e.ref \in DOMAIN deployRows[a] /\ e.made # Nothing /\ deployRows[a][e.ref].made = e.made
      /\ e.ref # 0
  BY <1>a, <1>2, <1>3 DEF RowNames
<1> QED  BY <1>a, <1>3, <1>4, <1>5, RowAddInv DEF RollbackTo

LEMMA SetStatusPuts ==
    ASSUME ImageShape, NEW a \in AppIds, NEW i \in DOMAIN deployRows[a],
           NEW s \in {"deploying", "live", "failed"}, SetStatus(a, i, s)
    PROVE  \E e \in DeployRow : /\ Puts(a, i, e) /\ e.status = s
                                /\ e.ref = deployRows[a][i].ref /\ e.made = deployRows[a][i].made
<1>1. deployRows[a][i] \in DeployRow
  BY ImageRowTypes
<1>2. PICK e : e = [deployRows[a][i] EXCEPT !.status = s]
  OBVIOUS
<1>3. e \in DeployRow /\ e.status = s /\ e.ref = deployRows[a][i].ref /\ e.made = deployRows[a][i].made
  BY <1>1, <1>2 DEF DeployRow
<1>4. Puts(a, i, e)
  BY <1>2 DEF SetStatus, Puts
<1> QED  BY <1>3, <1>4

LEMMA BuildFailsInv ==
    ASSUME ImageInv, NEW a \in AppIds, NEW i \in DOMAIN deployRows[a], ImageBuildFails(a, i)
    PROVE  ImageInv'
<1>1. PICK e \in DeployRow : /\ Puts(a, i, e) /\ e.status = "failed"
                             /\ e.ref = deployRows[a][i].ref /\ e.made = deployRows[a][i].made
  BY SetStatusPuts DEF ImageInv, ImageBuildFails
<1>2. RowNames(a, i)
  BY DEF ImageInv
<1> QED  BY <1>1, <1>2, RowStepInv DEF ImageBuildFails, RowNames

LEMMA FinishDeployInv ==
    ASSUME ImageInv, NEW a \in AppIds, NEW i \in DOMAIN deployRows[a], FinishDeploy(a, i)
    PROVE  ImageInv'
<1>1. deployRows[a][i] \in DeployRow /\ i \in 1 .. MaxTags /\ RowNames(a, i)
  BY ImageRowTypes DEF ImageInv
<1>2. PICK e : e = [deployRows[a][i] EXCEPT !.status = "deploying", !.ref = i]
  OBVIOUS
<1>3. /\ e \in DeployRow /\ e.status = "deploying" /\ e.ref = i /\ i # 0
      /\ e.made = deployRows[a][i].made
  <2>1. i \in 0 .. MaxTags /\ i # 0
    BY <1>1, ImageAssumption
  <2> QED  BY <1>1, <1>2, <2>1 DEF DeployRow
<1>4. Puts(a, i, e)
  BY <1>2 DEF FinishDeploy, Puts
<1> QED  BY <1>1, <1>3, <1>4, RowStepInv DEF FinishDeploy, RowNames

LEMMA ApplyDeployInv ==
    ASSUME ImageInv, NEW a \in AppIds, NEW i \in DOMAIN deployRows[a], ApplyDeploy(a, i)
    PROVE  ImageInv'
<1> DEFINE r == deployRows[a][i]
<1>1. /\ r \in DeployRow /\ RowNames(a, i) /\ ImageShape /\ i \in 1 .. Len(deployRows[a])
      /\ r.status = "deploying" /\ r.ref # 0 /\ r.ref \in 1 .. MaxTags /\ i # 0
  BY ImageRowTypes DEF ImageInv, ApplyDeploy, RowNames
<1>2. PICK s \in {"live", "failed"} : SetStatus(a, i, s)
  BY DEF ApplyDeploy
<1>3. PICK e \in DeployRow : /\ Puts(a, i, e) /\ e.status = s
                             /\ e.ref = deployRows[a][i].ref /\ e.made = deployRows[a][i].made
  BY <1>1, <1>2, SetStatusPuts
<1>4. /\ RowsGo /\ (\A b \in AppIds : DOMAIN deployRows'[b] = DOMAIN deployRows[b])
      /\ deployRows'[a][i] = e
      /\ (\A b \in AppIds : \A j \in DOMAIN deployRows[b] :
             <<b, j>> # <<a, i>> => deployRows'[b][j] = deployRows[b][j])
  BY <1>1, <1>3, PutGoes
<1>5. RowNames(a, i)'
  BY <1>1, <1>3, <1>4 DEF RowNames, RowsGo
<1>6. \A b \in AppIds : \A j \in DOMAIN deployRows'[b] : RowNames(b, j)'
  BY <1>4, <1>5, GoKeeps
<1>7. \A b \in AppIds : \A t \in 1 .. MaxTags : TagHolds(b, t)'
  BY <1>4, GoKeeps DEF ApplyDeploy
<1>8. PICK pulled : pulled = registry[ImageRef(a, r.ref)]
  OBVIOUS
<1>9. pulled \in Contents \cup {Nothing} /\ (pulled # Nothing => pulled = r.made)
  <2>1. TagHolds(a, r.ref)
    BY <1>1 DEF ImageInv
  <2>2. pulled \in Contents \cup {Nothing}
    BY <1>1, <1>8, ImageTypes DEF ImageShape
  <2> QED  BY <1>1, <1>8, <2>1, <2>2 DEF TagHolds, RowNames
<1>10. applied' = applied \/ applied' = [applied EXCEPT ![a] = [row |-> i, runs |-> pulled]]
  BY <1>8 DEF ApplyDeploy
<1>11. /\ applied' \in [AppIds -> [row : Nat, runs : Contents \cup {Nothing}]]
       /\ \A b \in AppIds : applied'[b] = applied[b] \/ (b = a /\ applied'[b] = [row |-> i, runs |-> pulled])
  <2>1. [row |-> i, runs |-> pulled] \in [row : Nat, runs : Contents \cup {Nothing}]
    BY <1>1, <1>9, ImageRowTypes
  <2>2. applied \in [AppIds -> [row : Nat, runs : Contents \cup {Nothing}]]
    BY <1>1 DEF ImageShape
  <2> QED  BY <1>10, <2>1, <2>2
<1>12. \A b \in AppIds : applied'[b] = applied[b] \/
               (Serves(b)' /\ applied'[b].row <= Len(deployRows'[b]))
  <2>1. TAKE b \in AppIds
  <2>2. SUFFICES ASSUME b = a, applied'[a] = [row |-> i, runs |-> pulled]
                 PROVE  Serves(b)' /\ applied'[b].row <= Len(deployRows'[b])
    BY <1>11
  <2>3. Serves(b)'
    BY <1>1, <1>3, <1>4, <1>9, <2>2 DEF Serves
  <2>4. i <= Len(deployRows'[a])
    <3>1. deployRows'[a] \in Seq(DeployRow) /\ i \in DOMAIN deployRows'[a]
      BY <1>4 DEF RowsGo
    <3> QED  BY <3>1, LenProperties
  <2> QED  BY <2>2, <2>3, <2>4
<1> QED  BY <1>1, <1>4, <1>6, <1>7, <1>11, <1>12, ImageInvFrom DEF ImageShape, ApplyDeploy

LEMMA PodMovesInv == ASSUME ImageInv, NEW a \in AppIds, PodMovesNode(a)  PROVE ImageInv'
<1> DEFINE v == applied[a]
           r == deployRows[a][v.row]
<1>1. ImageShape /\ v \in [row : Nat, runs : Contents \cup {Nothing}] /\ v.row # 0 /\ Serves(a)
  BY DEF ImageInv, ImageShape, PodMovesNode
<1>2. v.row \in DOMAIN deployRows[a] /\ v.row <= Len(deployRows[a])
  BY <1>1, ImageRowTypes DEF ImageShape
<1>3. RowNames(a, v.row) /\ r.ref # 0 /\ r.ref \in 1 .. MaxTags
  BY <1>1, <1>2, ImageRowTypes DEF ImageInv, Serves, RowNames
<1>4. PICK pulled : pulled = registry[ImageRef(a, r.ref)]
  OBVIOUS
<1>5. pulled \in Contents \cup {Nothing} /\ (pulled # Nothing => pulled = r.made)
  <2>1. TagHolds(a, r.ref)
    BY <1>3 DEF ImageInv
  <2>2. pulled \in Contents \cup {Nothing}
    BY <1>1, <1>3, <1>4, ImageTypes DEF ImageShape
  <2> QED  BY <1>3, <1>4, <2>1, <2>2 DEF TagHolds, RowNames
<1>6. applied' = [applied EXCEPT ![a] = [@ EXCEPT !.runs = pulled]]
  BY <1>4 DEF PodMovesNode
<1>7. /\ applied' \in [AppIds -> [row : Nat, runs : Contents \cup {Nothing}]]
      /\ \A b \in AppIds : b # a => applied'[b] = applied[b]
      /\ applied'[a].row = v.row /\ applied'[a].runs = pulled
  BY <1>1, <1>5, <1>6 DEF ImageShape
<1>8. Serves(a)' /\ applied'[a].row <= Len(deployRows'[a])
  BY <1>1, <1>2, <1>3, <1>5, <1>7 DEF Serves, PodMovesNode
<1>9. \A b \in AppIds : \A s \in 1 .. MaxTags : TagHolds(b, s)'
  BY Standing, GoKeeps DEF PodMovesNode
<1> QED
  BY <1>1, <1>7, <1>8, <1>9, Standing, ImageInvFrom DEF ImageShape, PodMovesNode

LEMMA JobPushesMakes ==
    ASSUME ImageInv, NEW a \in AppIds, NEW i \in DOMAIN deployRows[a], JobPushes(a, i)
    PROVE  \E c \in Contents, e \in DeployRow :
               /\ Puts(a, i, e) /\ registry' = [registry EXCEPT ![ImageRef(a, i)] = c]
               /\ e.status = "building" /\ e.ref = 0 /\ e.made = c
               /\ c = <<a, i>> \/ Reproducible
<1>1. PICK c \in {<<a, i>>} \cup (IF Reproducible THEN Made(a) ELSE {}) :
          /\ deployRows' = [deployRows EXCEPT ![a][i].made = c]
          /\ registry' = [registry EXCEPT ![ImageRef(a, i)] = c]
  BY DEF JobPushes
<1>2. /\ deployRows[a][i] \in DeployRow /\ i \in 1 .. MaxTags
      /\ deployRows[a][i].status = "building" /\ deployRows[a][i].ref = 0
  BY ImageRowTypes DEF ImageInv, JobPushes, RowNames
<1>3. c \in Contents /\ (c = <<a, i>> \/ Reproducible)
  <2>1. <<a, i>> \in Contents
    BY <1>2, ImageTypes
  <2>2. Made(a) \subseteq Contents
    <3>1. \A j \in DOMAIN deployRows[a] : deployRows[a][j] \in DeployRow
      BY ImageRowTypes DEF ImageInv
    <3> QED  BY <3>1 DEF Made, DeployRow
  <2> QED  BY <1>1, <2>1, <2>2
<1>4. PICK e : e = [deployRows[a][i] EXCEPT !.made = c]
  OBVIOUS
<1>5. e \in DeployRow /\ e.status = "building" /\ e.ref = 0 /\ e.made = c
  BY <1>2, <1>3, <1>4 DEF DeployRow
<1>6. Puts(a, i, e)
  BY <1>1, <1>4 DEF Puts
<1> QED  BY <1>1, <1>3, <1>5, <1>6

LEMMA JobPushesInv ==
    ASSUME OwnRepositories, ImageInv,
           NEW a \in AppIds, NEW i \in DOMAIN deployRows[a], JobPushes(a, i)
    PROVE  ImageInv'
<1>1. ImageShape /\ i \in 1 .. MaxTags /\ deployRows[a][i].made = Nothing /\ RowNames(a, i)
      /\ deployRows[a][i].ref = 0
  BY ImageRowTypes DEF ImageInv, JobPushes, RowNames
<1>2. PICK c \in Contents, e \in DeployRow :
               /\ Puts(a, i, e) /\ registry' = [registry EXCEPT ![ImageRef(a, i)] = c]
               /\ e.status = "building" /\ e.ref = 0 /\ e.made = c
  BY JobPushesMakes
<1>3. RowsGo /\ (\A b \in AppIds : DOMAIN deployRows'[b] = DOMAIN deployRows[b])
      /\ deployRows'[a][i] = e
      /\ (\A b \in AppIds : \A j \in DOMAIN deployRows[b] :
             <<b, j>> # <<a, i>> => deployRows'[b][j] = deployRows[b][j])
  BY <1>1, <1>2, PutGoes
<1>4. RowNames(a, i)'
  BY <1>2, <1>3 DEF RowNames
<1>5. \A b \in AppIds : \A j \in DOMAIN deployRows'[b] : RowNames(b, j)'
  BY <1>3, <1>4, GoKeeps
<1>6. /\ registry' \in [Tags -> Contents \cup {Nothing}] /\ registry'[ImageRef(a, i)] = c
      /\ \A b \in AppIds, s \in 1 .. MaxTags :
            <<b, s>> # <<a, i>> => registry'[ImageRef(b, s)] = registry[ImageRef(b, s)]
  BY <1>1, <1>2, ImageTypes, RefsDiffer DEF ImageShape
<1>7. \A b \in AppIds : \A s \in 1 .. MaxTags : TagHolds(b, s)'
  <2>1. TAKE b \in AppIds
  <2>2. TAKE s \in 1 .. MaxTags
  <2>3. CASE <<b, s>> = <<a, i>>
    BY <1>2, <1>3, <1>6, <2>3 DEF TagHolds, ImageRef
  <2>4. CASE <<b, s>> # <<a, i>>
    <3>1. TagHolds(b, s) /\ registry'[ImageRef(b, s)] = registry[ImageRef(b, s)]
      BY <1>6, <2>4 DEF ImageInv
    <3> QED  BY <1>3, <2>4, <3>1 DEF TagHolds, ImageRef
  <2> QED  BY <2>3, <2>4
<1> QED  BY <1>1, <1>3, <1>5, <1>6, <1>7, ImageInvFrom DEF ImageShape, JobPushes

\* What the sweep does is no more than to empty tags.
LEMMA SweepTyped ==
    ASSUME ImageInv, SweepStep
    PROVE  /\ sweep' \in SweepType /\ (sweep'.pc = "idle" => sweep' = NoSweep)
           /\ missed' \subseteq AppIds \X (1 .. MaxTags) /\ sweeps' \in 0 .. MaxSweeps
           /\ registry' \in [Tags -> Contents \cup {Nothing}]
           /\ \A a \in AppIds, s \in 1 .. MaxTags :
                  registry'[ImageRef(a, s)] \in {registry[ImageRef(a, s)], Nothing}
           /\ UNCHANGED <<deployRows, applied>> /\ (rolls' \subseteq rolls \/ RollsStand')
<1>1. ImageShape
  BY DEF ImageInv
<1>2. NoSweep \in SweepType /\ NoSweep.pc = "idle" /\ NoSweep.victims = {}
  BY DEF NoSweep, SweepType
<1>3. /\ registry' \in [Tags -> Contents \cup {Nothing}]
      /\ \A t \in Tags : registry'[t] \in {registry[t], Nothing}
  <2>1. CASE UNCHANGED registry
    BY <1>1, <2>1 DEF ImageShape
  <2>2. CASE SweepDeletes
    BY <1>1, <2>2 DEF ImageShape, SweepDeletes
  <2> QED
    BY <2>1, <2>2 DEF SweepStep, SweepStarts, SweepSkips, SweepMovesOn, SweepDies, SweepLists,
                      SweepLooksUp
<1>4. KeepTags \subseteq Tags
  <2>1. ASSUME NEW a \in AppIds, NEW i \in RefRows(a)
        PROVE  ImageRef(a, deployRows[a][i].ref) \in Tags
    <3>1. deployRows[a][i] \in DeployRow /\ deployRows[a][i].ref # 0
      BY <1>1, ImageRowTypes DEF RefRows
    <3>2. deployRows[a][i].ref \in 1 .. MaxTags
      BY <3>1, ImageAssumption DEF DeployRow
    <3> QED  BY <3>2, ImageTypes
  <2> QED  BY <2>1 DEF KeepTags
<1>5. sweep' \in SweepType /\ (sweep'.pc = "idle" => sweep' = NoSweep)
  <2>1. CASE SweepStarts
    BY <1>1, <1>4, <2>1 DEF SweepStarts, ImageShape, SweepType
  <2>2. CASE SweepDeletes \/ SweepSkips
    BY <1>1, <1>2, <2>2 DEF SweepDeletes, SweepSkips, ImageShape, SweepType
  <2>3. CASE SweepMovesOn \/ SweepDies
    BY <1>1, <1>2, <2>3 DEF SweepMovesOn, SweepDies, ImageShape, SweepType
  <2>4. ASSUME NEW r \in Repos, SweepLists(r)
        PROVE  sweep' \in SweepType /\ (sweep'.pc = "idle" => sweep' = NoSweep)
    <3>1. PICK todo \in SUBSET Tags :
              sweep' = [sweep EXCEPT !.pc = "deleting", !.repos = @ \ {r}, !.todo = todo]
      <4>1. {t \in Tags : t[1] = r /\ registry[t] # Nothing} \ sweep.keep \in SUBSET Tags
        OBVIOUS
      <4> QED  BY <2>4, <4>1 DEF SweepLists
    <3> QED  BY <1>1, <3>1 DEF ImageShape, SweepType
  <2>5. ASSUME NEW t \in Tags, SweepLooksUp(t)
        PROVE  sweep' \in SweepType /\ (sweep'.pc = "idle" => sweep' = NoSweep)
    <3>1. PICK V : V = {<<t[1], registry[t]>>} \ (Repos \X {Nothing})
      OBVIOUS
    <3>2. V \in SUBSET (Repos \X Contents)
      <4>1. registry[t] \in Contents \cup {Nothing} /\ t[1] \in Repos
        BY <1>1 DEF ImageShape, Tags
      <4> QED  BY <3>1, <4>1
    <3>3. sweep' = [sweep EXCEPT !.todo = @ \ {t}, !.victims = V]
      BY <2>5, <3>1 DEF SweepLooksUp
    <3> QED  BY <1>1, <2>5, <3>2, <3>3 DEF SweepLooksUp, ImageShape, SweepType
  <2> QED  BY <2>1, <2>2, <2>3, <2>4, <2>5 DEF SweepStep
<1>6. missed' \subseteq AppIds \X (1 .. MaxTags) /\ sweeps' \in 0 .. MaxSweeps
  <2>1. CASE SweepStarts
    BY <1>1, <2>1, ImageAssumption DEF SweepStarts, ImageShape
  <2>2. CASE UNCHANGED <<missed, sweeps>>
    BY <1>1, <2>2 DEF ImageShape
  <2> QED
    BY <2>1, <2>2 DEF SweepStep, SweepDeletes, SweepSkips, SweepMovesOn, SweepDies, SweepLists,
                      SweepLooksUp
<1>7. UNCHANGED <<deployRows, applied>>
  BY DEF SweepStep, SweepStarts, SweepDeletes, SweepSkips, SweepMovesOn, SweepDies, SweepLists,
         SweepLooksUp
<1>8. rolls' \subseteq rolls \/ RollsStand'
  <2>1. CASE SweepStarts
    <3>1. ASSUME NEW r \in rolls'  PROVE r \in Roll /\ RollNames(r)'
      <4>1. PICK q \in rolls : r = [q EXCEPT !.swept = TRUE]
        BY <2>1 DEF SweepStarts
      <4>2. q \in Roll /\ RollNames(q)
        BY DEF ImageInv, RollsStand
      <4>3. r \in Roll /\ r.app = q.app /\ r.to = q.to
        BY <4>1, <4>2 DEF Roll
      <4> QED  BY <1>7, <4>2, <4>3 DEF RollNames
    <3> QED  BY <3>1 DEF RollsStand
  <2>2. CASE UNCHANGED rolls
    BY <2>2
  <2> QED
    BY <2>1, <2>2 DEF SweepStep, SweepDeletes, SweepSkips, SweepMovesOn, SweepDies, SweepLists,
                      SweepLooksUp
<1> QED  BY <1>3, <1>5, <1>6, <1>7, <1>8, ImageTypes

LEMMA ImageStepInv == ASSUME OwnRepositories, ImageInv, [ImageNext]_imageVars  PROVE ImageInv'
<1>1. ASSUME NEW a \in AppIds, NEW i \in DOMAIN deployRows[a], DeployStep(a, i)  PROVE ImageInv'
  BY <1>1, JobPushesInv, BuildFailsInv, FinishDeployInv, ApplyDeployInv, RollbackLooksInv
  DEF DeployStep
<1>2. CASE SweepStep
  <2>1. RowsGo /\ (\A a \in AppIds : \A i \in DOMAIN deployRows'[a] : RowNames(a, i)')
    BY <1>2, SweepTyped, Standing
  <2>2. \A a \in AppIds : \A s \in 1 .. MaxTags : TagHolds(a, s)'
    BY <1>2, <2>1, SweepTyped, GoKeeps
  <2> QED  BY <1>2, <2>1, <2>2, SweepTyped, ImageInvFrom DEF ImageInv, ImageShape
<1>3. CASE UNCHANGED imageVars
  <2>1. RowsGo /\ (\A a \in AppIds : \A i \in DOMAIN deployRows'[a] : RowNames(a, i)')
    BY <1>3, Standing DEF imageVars
  <2>2. \A a \in AppIds : \A s \in 1 .. MaxTags : TagHolds(a, s)'
    BY <1>3, <2>1, GoKeeps DEF imageVars
  <2> QED  BY <1>3, <2>1, <2>2, ImageInvFrom DEF ImageInv, ImageShape, imageVars
<1> QED  BY <1>1, <1>2, <1>3, BuildAskedInv, PodMovesInv, RollbackInv DEF ImageNext

LEMMA ImageInvAlways == ASSUME OwnRepositories  PROVE ImageSpec => []ImageInv
  BY ImageInitInv, ImageStepInv, PTL DEF ImageSpec

\* Rows, tags, pods and the sweep keep their shape (registrygc.go).
THEOREM ImagesTyped == ASSUME OwnRepositories  PROVE ImageSpec => []ImageTypeOK
<1>1. ImageInv => ImageTypeOK
  <2> SUFFICES ASSUME ImageInv  PROVE ImageTypeOK
    OBVIOUS
  <2>1. ImageShape
    BY DEF ImageInv
  <2>2. ASSUME NEW a \in AppIds
        PROVE  /\ Len(deployRows[a]) \in 0 .. MaxTags
               /\ \A i \in DOMAIN deployRows[a] : deployRows[a][i] \in DeployRow
               /\ applied[a].row \in 0 .. Len(deployRows[a])
               /\ applied[a].runs \in Contents \cup {Nothing}
    BY <2>1, ImageRowTypes DEF ImageShape
  <2>3. rolls \subseteq Roll
    BY DEF ImageInv, RollsStand
  <2> QED  BY <2>1, <2>2, <2>3 DEF ImageShape, ImageTypeOK, SweepType
<1> QED  BY <1>1, ImageInvAlways, PTL

\* Whatever is built, rolled back, swept away or restarted: pods run what their
\* deploy built (build.ImageRef).
THEOREM AppsServeTheirBuilds == ASSUME OwnRepositories  PROVE ImageSpec => []ServesItsBuild
<1>1. ImageInv => ServesItsBuild
  BY DEF ImageInv, Serves, ServesItsBuild
<1> QED  BY <1>1, ImageInvAlways, PTL

--------------------------------
\* What the sweep holds is kept out of its way: a row it may meet is one it could not
\* know of, or keeps its tag.
SpareRow(a, i) ==
    LET r == deployRows[a][i] IN
    \/ <<a, i>> \in missed \/ Beyond(a, i)
    \/ /\ sweep.pc # "idle" => r.status # "building"
       /\ sweep.pc # "idle" /\ Kept(a, i) => ImageRef(a, r.ref) \in sweep.keep
       /\ Kept(a, i) => ~ Lost(a, i)
       /\ r.status = "building" /\ r.made # Nothing => registry[ImageRef(a, i)] # Nothing

\* Builds differ, so a tag holds its own content, and a manifest has one tag.
OwnContent == \A a \in AppIds, s \in 1 .. MaxTags : registry[ImageRef(a, s)] \in {Nothing, <<a, s>>}

\* A tag, or a manifest, on its way out is none that the sweep keeps.
Condemned ==
    /\ sweep.todo \cap sweep.keep = {}
    /\ \A v \in sweep.victims : \E a \in AppIds, s \in 1 .. MaxTags :
           v = <<RepoOf[a], <<a, s>>>> /\ ImageRef(a, s) \notin sweep.keep

\* A rollback that no sweep overtook finds its image still.
RollSpare(r) == (Sweeping => r.swept) /\ (r.swept \/ ~ Lost(r.app, r.to))

SpareInv ==
    /\ OwnContent /\ Condemned /\ \A r \in rolls : RollSpare(r)
    /\ \A a \in AppIds : \A i \in DOMAIN deployRows[a] : SpareRow(a, i)

LEMMA SpareInit == ImageInit => SpareInv
<1> SUFFICES ASSUME ImageInit  PROVE SpareInv
  OBVIOUS
<1>1. \A a \in AppIds : DOMAIN deployRows[a] = {}
  BY DEF ImageInit
<1>2. OwnContent
  BY ImageTypes DEF ImageInit, OwnContent
<1>3. Condemned
  BY DEF ImageInit, Condemned, NoSweep
<1>4. rolls = {}
  BY DEF ImageInit
<1> QED  BY <1>1, <1>2, <1>3, <1>4 DEF SpareInv

\* A row that stays as it is is spared as before, if it does not become the newest.
LEMMA SparedStill ==
    ASSUME NEW a \in AppIds, NEW i \in DOMAIN deployRows[a], SpareRow(a, i),
           deployRows'[a][i] = deployRows[a][i], IsLatest(a, i)' => IsLatest(a, i),
           UNCHANGED <<registry, sweep>>, missed \subseteq missed', Beyond(a, i) => Beyond(a, i)'
    PROVE  SpareRow(a, i)'
  BY DEF SpareRow, Kept, Lost, ImageRef

\* So are the rollbacks on their way, when no tag is emptied.
LEMMA RollsSparedStill ==
    ASSUME ImageInv, SpareInv, RowsGo, rolls' \subseteq rolls, UNCHANGED sweep,
           \A a \in AppIds, s \in 1 .. MaxTags :
               registry[ImageRef(a, s)] # Nothing => registry'[ImageRef(a, s)] # Nothing
    PROVE  \A r \in rolls' : RollSpare(r)'
<1> TAKE r \in rolls'
<1>1. r \in Roll /\ RollNames(r) /\ RollSpare(r) /\ r.app \in AppIds
  BY DEF ImageInv, SpareInv, RollsStand, Roll
<1>2. PICK a, i : a = r.app /\ i = r.to
  OBVIOUS
<1>3. /\ a \in AppIds /\ i \in DOMAIN deployRows[a] /\ deployRows[a][i] \in DeployRow
      /\ deployRows[a][i].ref # 0
  BY <1>1, <1>2, ImageRowTypes DEF RollNames, ImageInv
<1>4. deployRows[a][i].ref \in 1 .. MaxTags /\ deployRows'[a][i].ref = deployRows[a][i].ref
  BY <1>3, ImageAssumption DEF DeployRow, RowsGo
<1>5. Lost(a, i)' => Lost(a, i)
  BY <1>3, <1>4 DEF Lost, ImageRef
<1> QED  BY <1>1, <1>2, <1>5 DEF RollSpare, Sweeping

LEMMA AddSpares ==
    ASSUME ImageInv, SpareInv, NEW a \in AppIds, NEW e \in DeployRow, Adds(a, e),
           Len(deployRows[a]) < MaxTags, NEW unseen \in BOOLEAN, NotSeen(a, unseen),
           UNCHANGED <<registry, sweep>>, rolls' \subseteq rolls, Sweeping => unseen,
           e.status = "building" => e.made = Nothing,
           e.ref # 0 /\ ~ unseen => registry[ImageRef(a, e.ref)] # Nothing
    PROVE  SpareInv'
<1>0. PICK n : n = Len(deployRows[a]) + 1
  OBVIOUS
<1>1. /\ RowsGo /\ n \in 1 .. MaxTags /\ n \notin DOMAIN deployRows[a]
      /\ DOMAIN deployRows'[a] = DOMAIN deployRows[a] \cup {n} /\ deployRows'[a][n] = e
      /\ Len(deployRows'[a]) = n
      /\ (\A b \in AppIds : b # a => deployRows'[b] = deployRows[b])
      /\ (\A b \in AppIds : \A j \in DOMAIN deployRows[b] : deployRows'[b][j] = deployRows[b][j])
  BY <1>0, AddGoes DEF ImageInv
<1>2. OwnContent' /\ Condemned' /\ missed \subseteq missed'
  BY DEF SpareInv, OwnContent, Condemned, NotSeen, ImageRef
<1>3. ASSUME NEW b \in AppIds, NEW j \in DOMAIN deployRows[b]  PROVE SpareRow(b, j)'
  <2>1. SpareRow(b, j)
    BY DEF SpareInv
  <2>2. IsLatest(b, j)' => IsLatest(b, j)
    BY <1>1 DEF IsLatest
  <2>3. Beyond(b, j) => Beyond(b, j)'
    <3>1. Len(deployRows[b]) \in Nat /\ j \in Nat /\ History \in Nat
      BY ImageRowTypes, ImageAssumption DEF ImageInv
    <3>2. Len(deployRows'[b]) = Len(deployRows[b]) \/ Len(deployRows'[b]) = Len(deployRows[b]) + 1
      BY <1>0, <1>1
    <3> QED  BY <3>1, <3>2 DEF Beyond
  <2> QED  BY <1>1, <1>2, <2>1, <2>2, <2>3, SparedStill
<1>4. SpareRow(a, n)'
  <2>1. CASE ~ unseen
    BY <1>1, <2>1 DEF SpareRow, Kept, Lost, ImageRef, Sweeping
  <2>2. CASE unseen
    BY <1>0, <2>2 DEF SpareRow, NotSeen
  <2> QED  BY <2>1, <2>2
<1>5. ASSUME NEW b \in AppIds, NEW j \in DOMAIN deployRows'[b]  PROVE SpareRow(b, j)'
  <2>1. j \in DOMAIN deployRows[b] \/ (b = a /\ j = n)
    BY <1>1
  <2> QED  BY <1>3, <1>4, <2>1 DEF SpareRow, Kept, Lost, ImageRef, IsLatest, Beyond
<1>6. \A r \in rolls' : RollSpare(r)'
  BY <1>1, RollsSparedStill DEF ImageRef
<1> QED  BY <1>2, <1>5, <1>6 DEF SpareInv

LEMMA PutSpares ==
    ASSUME ImageInv, SpareInv, NEW a \in AppIds, NEW i \in DOMAIN deployRows[a], NEW e \in DeployRow,
           Puts(a, i, e), UNCHANGED <<registry, sweep, rolls, missed>>,
           deployRows[a][i].made # Nothing => e.made = deployRows[a][i].made,
           deployRows[a][i].ref # 0 => e.ref = deployRows[a][i].ref,
           e.status # "building",
           \/ e.ref = deployRows[a][i].ref /\ (e.status = "live" => IsLatest(a, i))
           \/ /\ deployRows[a][i].status = "building" /\ deployRows[a][i].made # Nothing
              /\ e.ref = i
    PROVE  SpareInv'
<1>1. RowsGo /\ (\A b \in AppIds : DOMAIN deployRows'[b] = DOMAIN deployRows[b])
      /\ deployRows'[a][i] = e
      /\ (\A b \in AppIds : \A j \in DOMAIN deployRows[b] :
             <<b, j>> # <<a, i>> => deployRows'[b][j] = deployRows[b][j])
  BY PutGoes DEF ImageInv
<1>2. \A b \in AppIds : Len(deployRows'[b]) = Len(deployRows[b])
  <2>1. TAKE b \in AppIds
  <2>2. deployRows'[b] \in Seq(DeployRow) /\ deployRows[b] \in Seq(DeployRow)
    BY <1>1 DEF RowsGo, ImageInv, ImageShape
  <2>3. /\ DOMAIN deployRows'[b] = 1 .. Len(deployRows'[b]) /\ Len(deployRows'[b]) \in Nat
        /\ DOMAIN deployRows[b] = 1 .. Len(deployRows[b]) /\ Len(deployRows[b]) \in Nat
    BY <2>2, LenProperties
  <2> QED  BY <1>1, <2>3
<1>3. OwnContent' /\ Condemned'
  BY DEF SpareInv, OwnContent, Condemned, ImageRef
<1>4. ASSUME NEW b \in AppIds, NEW j \in DOMAIN deployRows[b], <<b, j>> # <<a, i>>
      PROVE SpareRow(b, j)'
  <2>1. SpareRow(b, j) /\ (IsLatest(b, j)' => IsLatest(b, j)) /\ (Beyond(b, j) => Beyond(b, j)')
    BY <1>2 DEF SpareInv, IsLatest, Beyond
  <2> QED  BY <1>1, <1>4, <2>1, SparedStill
<1>5. SpareRow(a, i)'
  <2>1. /\ SpareRow(a, i) /\ (IsLatest(a, i)' => IsLatest(a, i)) /\ RowNames(a, i)
        /\ Beyond(a, i) => Beyond(a, i)'
    BY <1>2 DEF SpareInv, IsLatest, ImageInv, Beyond
  <2>2. CASE e.ref = deployRows[a][i].ref /\ (e.status = "live" => IsLatest(a, i))
    BY <1>1, <2>1, <2>2 DEF SpareRow, Kept, Lost, ImageRef
  <2>3. CASE /\ deployRows[a][i].status = "building" /\ deployRows[a][i].made # Nothing
             /\ e.ref = i
    BY <1>1, <2>1, <2>3 DEF SpareRow, Kept, Lost, ImageRef
  <2> QED  BY <2>2, <2>3
<1>6. ASSUME NEW b \in AppIds, NEW j \in DOMAIN deployRows'[b]  PROVE SpareRow(b, j)'
  <2>1. j \in DOMAIN deployRows[b]
    BY <1>1
  <2> QED  BY <1>4, <1>5, <2>1 DEF SpareRow, Kept, Lost, ImageRef, IsLatest, Beyond
<1>7. \A r \in rolls' : RollSpare(r)'
  BY <1>1, RollsSparedStill DEF ImageRef
<1> QED  BY <1>3, <1>6, <1>7 DEF SpareInv

LEMMA JobPushesSpares ==
    ASSUME OwnRepositories, ~ Reproducible, ImageInv, SpareInv,
           NEW a \in AppIds, NEW i \in DOMAIN deployRows[a], JobPushes(a, i)
    PROVE  SpareInv'
<1>1. ImageShape /\ i \in 1 .. MaxTags /\ deployRows[a][i].made = Nothing
      /\ deployRows[a][i].ref = 0 /\ deployRows[a][i].status = "building"
  BY ImageRowTypes DEF ImageInv, JobPushes, RowNames
<1>2. PICK c \in Contents, e \in DeployRow :
               /\ Puts(a, i, e) /\ registry' = [registry EXCEPT ![ImageRef(a, i)] = c]
               /\ e.status = "building" /\ e.ref = 0 /\ e.made = c /\ c = <<a, i>>
  BY JobPushesMakes
<1>3. RowsGo /\ (\A b \in AppIds : DOMAIN deployRows'[b] = DOMAIN deployRows[b])
      /\ deployRows'[a][i] = e
      /\ (\A b \in AppIds : \A j \in DOMAIN deployRows[b] :
             <<b, j>> # <<a, i>> => deployRows'[b][j] = deployRows[b][j])
  BY <1>1, <1>2, PutGoes
<1>4. \A b \in AppIds : Len(deployRows'[b]) = Len(deployRows[b])
  <2>1. TAKE b \in AppIds
  <2>2. deployRows'[b] \in Seq(DeployRow) /\ deployRows[b] \in Seq(DeployRow)
    BY <1>1, <1>3 DEF RowsGo, ImageShape
  <2>3. /\ DOMAIN deployRows'[b] = 1 .. Len(deployRows'[b]) /\ Len(deployRows'[b]) \in Nat
        /\ DOMAIN deployRows[b] = 1 .. Len(deployRows[b]) /\ Len(deployRows[b]) \in Nat
    BY <2>2, LenProperties
  <2> QED  BY <1>3, <2>3
<1>5. /\ registry'[ImageRef(a, i)] = <<a, i>> /\ <<a, i>> # Nothing
      /\ \A b \in AppIds, s \in 1 .. MaxTags :
            registry'[ImageRef(b, s)] = registry[ImageRef(b, s)] \/ <<b, s>> = <<a, i>>
  BY <1>1, <1>2, ImageTypes, RefsDiffer DEF ImageShape
<1>6. OwnContent'
  BY <1>5 DEF SpareInv, OwnContent, ImageRef
<1>7. Condemned'
  BY DEF SpareInv, Condemned, ImageRef, JobPushes
<1>8. ASSUME NEW b \in AppIds, NEW j \in DOMAIN deployRows'[b]  PROVE SpareRow(b, j)'
  <2>1. /\ j \in DOMAIN deployRows[b] /\ j \in 1 .. MaxTags /\ deployRows[b][j] \in DeployRow
        /\ SpareRow(b, j) /\ (IsLatest(b, j)' <=> IsLatest(b, j)) /\ (Beyond(b, j)' <=> Beyond(b, j))
    BY <1>1, <1>3, <1>4, ImageRowTypes DEF SpareInv, IsLatest, Beyond
  <2>2. UNCHANGED <<sweep, missed>>
    BY DEF JobPushes
  <2>3. CASE <<b, j>> = <<a, i>>
    BY <1>1, <1>2, <1>3, <1>5, <2>1, <2>2, <2>3 DEF SpareRow, Kept, Lost, ImageRef
  <2>4. CASE <<b, j>> # <<a, i>>
    <3>1. deployRows'[b][j] = deployRows[b][j]
      BY <1>3, <2>1, <2>4
    <3>2. Kept(b, j)' <=> Kept(b, j)
      BY <2>1, <3>1 DEF Kept
    <3>3. registry'[ImageRef(b, j)] # Nothing \/ registry'[ImageRef(b, j)] = registry[ImageRef(b, j)]
      BY <1>5, <2>1
    <3>4. deployRows[b][j].ref # 0 => (Lost(b, j)' => Lost(b, j))
      <4>1. deployRows[b][j].ref # 0 => deployRows[b][j].ref \in 1 .. MaxTags
        BY <2>1, ImageAssumption DEF DeployRow
      <4> QED  BY <1>5, <3>1, <4>1 DEF Lost, ImageRef
    <3> QED  BY <2>1, <2>2, <3>1, <3>2, <3>3, <3>4 DEF SpareRow, Kept, ImageRef
  <2> QED  BY <2>3, <2>4
<1>9. \A r \in rolls' : RollSpare(r)'
  <2>1. \A b \in AppIds, s \in 1 .. MaxTags :
            registry[ImageRef(b, s)] # Nothing => registry'[ImageRef(b, s)] # Nothing
    BY <1>5
  <2> QED  BY <1>3, <2>1, RollsSparedStill DEF JobPushes
<1> QED  BY <1>6, <1>7, <1>8, <1>9 DEF SpareInv

LEMMA RefTags ==
    ASSUME NEW t \in Tags
    PROVE  \E a \in AppIds, s \in 1 .. MaxTags : t = ImageRef(a, s)
  BY DEF Tags, Repos, ImageRef

\* When a sweep begins, what it is to keep is on its list.
LEMMA SweepStartsSpares ==
    ASSUME ImageInv, SpareInv, SweepStarts  PROVE SpareInv'
<1>1. ImageShape /\ sweep = NoSweep
  BY DEF ImageInv, ImageShape, SweepStarts
<1>2. sweep'.todo = {} /\ sweep'.victims = {} /\ sweep'.keep = KeepTags
  BY <1>1 DEF SweepStarts, NoSweep
<1>3. OwnContent' /\ Condemned'
  BY <1>2 DEF SpareInv, OwnContent, Condemned, ImageRef, SweepStarts
<1>4. ASSUME NEW a \in AppIds, NEW i \in DOMAIN deployRows[a]  PROVE SpareRow(a, i)'
  <2>1. SpareRow(a, i) /\ UNCHANGED <<deployRows, registry>> /\ missed \subseteq missed'
    BY DEF SpareInv, SweepStarts
  <2>2. CASE deployRows[a][i].status = "building"
    <3>1. i \in 1 .. MaxTags
      BY <1>1, ImageRowTypes
    <3>2. PICK x : x = <<a, i>>
      OBVIOUS
    <3>3. x \in AppIds \X (1 .. MaxTags) /\ x[1] = a /\ x[2] = i
      BY <3>1, <3>2
    <3>4. x \in missed'
      BY <2>2, <3>3 DEF SweepStarts
    <3> QED  BY <3>2, <3>4 DEF SpareRow
  <2>3. CASE Beyond(a, i)
    BY <2>1, <2>3 DEF SpareRow, Beyond
  <2>4. CASE deployRows[a][i].status # "building" /\ ~ Beyond(a, i)
    <3>1. Kept(a, i) => ImageRef(a, deployRows[a][i].ref) \in KeepTags
      <4>1. i \in 1 .. Len(deployRows[a]) /\ Len(deployRows[a]) \in 0 .. MaxTags
        BY <1>1, ImageRowTypes
      <4>2. i + History > Len(deployRows[a])
        BY <2>4, <4>1, ImageAssumption DEF Beyond
      <4>3. Kept(a, i) => i \in RefRows(a)
        BY <4>2 DEF Kept, RefRows
      <4> QED  BY <4>3 DEF Kept, KeepTags
    <3> QED  BY <1>2, <2>1, <2>4, <3>1 DEF SpareRow, Kept, Lost, IsLatest, ImageRef
  <2> QED  BY <2>2, <2>3, <2>4
<1>5. \A r \in rolls' : RollSpare(r)'
  <2>1. TAKE r \in rolls'
  <2>2. PICK q \in rolls : r = [q EXCEPT !.swept = TRUE]
    BY DEF SweepStarts
  <2>3. q \in Roll
    BY DEF ImageInv, RollsStand
  <2> QED  BY <2>2, <2>3 DEF Roll, RollSpare
<1> QED  BY <1>3, <1>4, <1>5 DEF SpareInv, SweepStarts

\* A sweep that goes on keeps what it keeps, or ends.
LEMMA SweepGoesOnSpares ==
    ASSUME ImageInv, SpareInv, UNCHANGED <<deployRows, registry, rolls, missed>>,
           Condemned', sweep.pc # "idle",
           sweep'.pc = "idle" \/ sweep'.keep = sweep.keep
    PROVE  SpareInv'
<1>1. OwnContent'
  BY DEF SpareInv, OwnContent, ImageRef
<1>2. \A a \in AppIds : \A i \in DOMAIN deployRows[a] : SpareRow(a, i)'
  BY DEF SpareInv, SpareRow, Kept, Lost, IsLatest, ImageRef, Beyond
<1>3. \A r \in rolls : RollSpare(r)'
  BY DEF SpareInv, RollSpare, Sweeping, Lost, ImageRef
<1> QED  BY <1>1, <1>2, <1>3 DEF SpareInv

LEMMA SweepLooksUpSpares ==
    ASSUME ImageInv, SpareInv, NEW t \in Tags, SweepLooksUp(t)  PROVE SpareInv'
<1>1. PICK a \in AppIds, s \in 1 .. MaxTags : t = ImageRef(a, s)
  BY RefTags
<1>2. registry[t] \in {Nothing, <<a, s>>} /\ t \notin sweep.keep
  BY <1>1 DEF SpareInv, OwnContent, Condemned, SweepLooksUp
<1>3. sweep \in SweepType
  BY DEF ImageInv, ImageShape
<1>4. /\ sweep'.todo = sweep.todo \ {t} /\ sweep'.keep = sweep.keep
      /\ sweep'.victims = {<<t[1], registry[t]>>} \ (Repos \X {Nothing})
  BY <1>3 DEF SweepLooksUp, SweepType
<1>5. \A v \in sweep'.victims : v = <<RepoOf[a], <<a, s>>>>
  <2>1. t[1] = RepoOf[a] /\ RepoOf[a] \in Repos
    BY <1>1 DEF ImageRef, Repos
  <2> QED  BY <1>2, <1>4, <2>1
<1>6. Condemned'
  BY <1>1, <1>2, <1>4, <1>5 DEF SpareInv, Condemned, ImageRef
<1> QED  BY <1>4, <1>6, SweepGoesOnSpares DEF SweepLooksUp

LEMMA SweepDeletesSpares ==
    ASSUME OwnRepositories, ImageInv, SpareInv, SweepDeletes  PROVE SpareInv'
<1>1. ImageShape /\ sweep \in SweepType /\ sweep.pc # "idle"
  BY DEF ImageInv, ImageShape, SweepDeletes, NoSweep
<1>2. ASSUME NEW a \in AppIds, NEW s \in 1 .. MaxTags
      PROVE  \/ registry'[ImageRef(a, s)] = registry[ImageRef(a, s)]
             \/ registry'[ImageRef(a, s)] = Nothing /\ ImageRef(a, s) \notin sweep.keep
  <2> DEFINE t == ImageRef(a, s)
  <2>1. t \in Tags /\ registry[t] \in {Nothing, <<a, s>>}
    BY ImageTypes DEF SpareInv, OwnContent
  <2>2. \/ registry'[t] = registry[t]
        \/ registry'[t] = Nothing /\ \E v \in sweep.victims : t \in TagsOf(v)
    BY <2>1 DEF SweepDeletes
  <2>3. ASSUME NEW v \in sweep.victims, t \in TagsOf(v), registry[t] # Nothing
        PROVE  t \notin sweep.keep
    <3>1. PICK b \in AppIds, u \in 1 .. MaxTags :
              v = <<RepoOf[b], <<b, u>>>> /\ ImageRef(b, u) \notin sweep.keep
      BY DEF SpareInv, Condemned
    <3>2. registry[t] = v[2] /\ v[2] = <<b, u>>
      BY <2>3, <3>1 DEF TagsOf
    <3>3. a = b /\ s = u
      BY <2>1, <2>3, <3>2
    <3> QED  BY <3>1, <3>3
  <2> QED  BY <2>2, <2>3
<1>3. OwnContent'
  BY <1>2 DEF SpareInv, OwnContent, ImageRef
<1>4. /\ sweep'.victims = {} /\ sweep'.todo = sweep.todo /\ sweep'.keep = sweep.keep
      /\ sweep'.pc = sweep.pc
  BY <1>1 DEF SweepDeletes, SweepType
<1>5. Condemned'
  BY <1>4 DEF SpareInv, Condemned
<1>6. ASSUME NEW a \in AppIds, NEW i \in DOMAIN deployRows[a]  PROVE SpareRow(a, i)'
  <2>1. /\ SpareRow(a, i) /\ deployRows[a][i] \in DeployRow /\ i \in 1 .. MaxTags
        /\ UNCHANGED <<deployRows, missed>>
    BY <1>1, ImageRowTypes DEF SpareInv, SweepDeletes
  <2>2. deployRows[a][i].ref # 0 => deployRows[a][i].ref \in 1 .. MaxTags
    BY <2>1, ImageAssumption DEF DeployRow
  <2>3. (Kept(a, i)' <=> Kept(a, i)) /\ (Kept(a, i) => deployRows[a][i].ref # 0)
    BY <2>1 DEF Kept, IsLatest
  <2>4. CASE <<a, i>> \in missed \/ Beyond(a, i)
    BY <2>1, <2>4 DEF SpareRow, Beyond
  <2>5. CASE ~ (<<a, i>> \in missed \/ Beyond(a, i))
    <3>1. /\ deployRows[a][i].status # "building" /\ (Kept(a, i) => ~ Lost(a, i))
          /\ Kept(a, i) => ImageRef(a, deployRows[a][i].ref) \in sweep.keep
      BY <1>1, <2>1, <2>5 DEF SpareRow
    <3>2. Kept(a, i) => ~ Lost(a, i)'
      BY <1>2, <2>1, <2>2, <2>3, <3>1 DEF Lost, ImageRef
    <3> QED  BY <1>4, <2>1, <2>3, <3>1, <3>2 DEF SpareRow, ImageRef
  <2> QED  BY <2>4, <2>5
<1>7. \A r \in rolls' : RollSpare(r)'
  BY <1>1, <1>4 DEF SpareInv, RollSpare, Sweeping, SweepDeletes
<1> QED  BY <1>3, <1>5, <1>6, <1>7 DEF SpareInv, SweepDeletes

LEMMA SweepStepSpares ==
    ASSUME OwnRepositories, ImageInv, SpareInv, SweepStep
    PROVE  SpareInv'
<1>1. sweep \in SweepType /\ (sweep.pc = "idle" => sweep = NoSweep)
  BY DEF ImageInv, ImageShape
<1>2. ASSUME NEW r \in Repos, SweepLists(r)  PROVE SpareInv'
  <2>1. sweep'.keep = sweep.keep /\ sweep'.victims = sweep.victims
        /\ sweep'.todo \cap sweep'.keep = {}
    BY <1>1, <1>2 DEF SweepLists, SweepType
  <2>2. Condemned'
    BY <2>1 DEF SpareInv, Condemned, ImageRef
  <2> QED  BY <1>2, <2>1, <2>2, SweepGoesOnSpares DEF SweepLists
<1>3. CASE SweepSkips
  <2>1. sweep'.keep = sweep.keep /\ sweep'.victims = {} /\ sweep'.todo = sweep.todo
        /\ sweep.pc # "idle"
    BY <1>1, <1>3 DEF SweepSkips, SweepType, NoSweep
  <2>2. Condemned'
    BY <2>1 DEF SpareInv, Condemned
  <2> QED  BY <1>3, <2>1, <2>2, SweepGoesOnSpares DEF SweepSkips
<1>4. CASE SweepMovesOn \/ SweepDies
  <2>1. \/ sweep' = NoSweep
        \/ /\ sweep'.keep = sweep.keep /\ sweep'.victims = sweep.victims
           /\ sweep'.todo = sweep.todo
    BY <1>1, <1>4 DEF SweepMovesOn, SweepDies, SweepType
  <2>2. Condemned'
    <3>1. CASE sweep' = NoSweep
      BY <3>1 DEF Condemned, NoSweep
    <3>2. CASE sweep'.victims = sweep.victims /\ sweep'.todo = sweep.todo /\ sweep'.keep = sweep.keep
      <4>1. Condemned
        BY DEF SpareInv
      <4> QED  BY <3>2, <4>1 DEF Condemned, ImageRef
    <3> QED  BY <2>1, <3>1, <3>2
  <2> QED  BY <1>4, <2>1, <2>2, SweepGoesOnSpares DEF SweepMovesOn, SweepDies, NoSweep
<1> QED
  BY <1>2, <1>3, <1>4, SweepStartsSpares, SweepDeletesSpares, SweepLooksUpSpares DEF SweepStep

LEMMA SpareStep ==
    ASSUME OwnRepositories, ~ Reproducible, ImageInv, SpareInv, [ImageNext]_imageVars
    PROVE  SpareInv'
<1>1. ASSUME NEW a \in AppIds, BuildAsked(a)  PROVE SpareInv'
  <2>1. PICK e : e = [status |-> "building", ref |-> 0, made |-> Nothing]
    OBVIOUS
  <2>2. e \in DeployRow /\ e.status = "building" /\ e.ref = 0 /\ e.made = Nothing
    BY <2>1, ImageAssumption DEF DeployRow
  <2>3. Adds(a, e)
    BY <1>1, <2>1 DEF BuildAsked, Adds
  <2>4. Sweeping \in BOOLEAN /\ NotSeen(a, Sweeping) /\ rolls' \subseteq rolls
    BY <1>1 DEF BuildAsked, Sweeping
  <2> QED  BY <1>1, <2>2, <2>3, <2>4, AddSpares DEF BuildAsked
<1>2. ASSUME NEW r \in rolls, RollbackTo(r)  PROVE SpareInv'
  <2>0. PICK a, t : a = r.app /\ t = r.to
    OBVIOUS
  <2>a. /\ a \in AppIds /\ t \in DOMAIN deployRows[a] /\ r.swept \in BOOLEAN
        /\ Sweeping => r.swept
        /\ ~ r.swept => registry[ImageRef(a, deployRows[a][t].ref)] # Nothing
    BY <2>0 DEF ImageInv, RollsStand, RollNames, Roll, SpareInv, RollSpare, Lost
  <2>1. PICK e : e = [deployRows[a][t] EXCEPT !.status = "deploying"]
    OBVIOUS
  <2>2. deployRows[a][t] \in DeployRow
    BY <2>a, ImageRowTypes DEF ImageInv
  <2>3. e \in DeployRow /\ e.status = "deploying" /\ e.ref = deployRows[a][t].ref
    BY <2>1, <2>2 DEF DeployRow
  <2>4. Adds(a, e) /\ NotSeen(a, r.swept) /\ rolls' \subseteq rolls /\ Len(deployRows[a]) < MaxTags
    BY <1>2, <2>0, <2>1 DEF RollbackTo, Adds
  <2> QED  BY <1>2, <2>a, <2>3, <2>4, AddSpares DEF RollbackTo
<1>b. ASSUME NEW a \in AppIds, NEW t \in DOMAIN deployRows[a], RollbackLooks(a, t)  PROVE SpareInv'
  <2>1. PICK q : q = [app |-> a, to |-> t, swept |-> Sweeping]
    OBVIOUS
  <2>2. rolls' = rolls \cup {q} /\ UNCHANGED <<deployRows, registry, sweep, missed>>
    BY <1>b, <2>1 DEF RollbackLooks
  <2>3. RollSpare(q)'
    BY <1>b, <2>1, <2>2 DEF RollbackLooks, RollSpare, Sweeping, Lost, ImageRef
  <2>4. \A r \in rolls : RollSpare(r)'
    BY <2>2 DEF SpareInv, RollSpare, Sweeping, Lost, ImageRef
  <2>5. OwnContent' /\ Condemned'
    BY <2>2 DEF SpareInv, OwnContent, Condemned, ImageRef
  <2>6. \A b \in AppIds : \A i \in DOMAIN deployRows'[b] : SpareRow(b, i)'
    BY <2>2 DEF SpareInv, SpareRow, Kept, Lost, IsLatest, ImageRef, Beyond
  <2> QED  BY <2>2, <2>3, <2>4, <2>5, <2>6 DEF SpareInv
<1>3. ASSUME NEW a \in AppIds, NEW i \in DOMAIN deployRows[a], ImageBuildFails(a, i) \/ ApplyDeploy(a, i)
      PROVE  SpareInv'
  <2>1. PICK s \in {"live", "failed"} : SetStatus(a, i, s) /\ (s = "live" => IsLatest(a, i))
    BY <1>3 DEF ImageBuildFails, ApplyDeploy
  <2>2. PICK e \in DeployRow : /\ Puts(a, i, e) /\ e.status = s
                               /\ e.ref = deployRows[a][i].ref /\ e.made = deployRows[a][i].made
    BY <2>1, SetStatusPuts DEF ImageInv
  <2> QED  BY <1>3, <2>1, <2>2, PutSpares DEF ImageBuildFails, ApplyDeploy
<1>4. ASSUME NEW a \in AppIds, NEW i \in DOMAIN deployRows[a], FinishDeploy(a, i)  PROVE SpareInv'
  <2>1. deployRows[a][i] \in DeployRow /\ i \in 0 .. MaxTags /\ RowNames(a, i)
    BY ImageRowTypes, ImageAssumption DEF ImageInv
  <2>2. PICK e : e = [deployRows[a][i] EXCEPT !.status = "deploying", !.ref = i]
    OBVIOUS
  <2>3. /\ e \in DeployRow /\ e.status = "deploying" /\ e.ref = i
        /\ e.made = deployRows[a][i].made
    BY <2>1, <2>2 DEF DeployRow
  <2>4. Puts(a, i, e)
    BY <1>4, <2>2 DEF FinishDeploy, Puts
  <2> QED  BY <1>4, <2>1, <2>3, <2>4, PutSpares DEF FinishDeploy, RowNames
<1>5. CASE UNCHANGED <<deployRows, registry, sweep, rolls, missed>>
  <2>1. OwnContent' /\ Condemned' /\ \A r \in rolls' : RollSpare(r)'
    BY <1>5 DEF SpareInv, OwnContent, Condemned, ImageRef, RollSpare, Sweeping, Lost
  <2>2. \A b \in AppIds : \A i \in DOMAIN deployRows'[b] : SpareRow(b, i)'
    BY <1>5 DEF SpareInv, SpareRow, Kept, Lost, IsLatest, ImageRef, Beyond
  <2> QED  BY <2>1, <2>2 DEF SpareInv
<1>6. ASSUME NEW a \in AppIds, NEW i \in DOMAIN deployRows[a], DeployStep(a, i)  PROVE SpareInv'
  BY <1>b, <1>3, <1>4, <1>6, JobPushesSpares DEF DeployStep
<1>7. ASSUME NEW a \in AppIds, PodMovesNode(a)  PROVE SpareInv'
  BY <1>5, <1>7 DEF PodMovesNode
<1> QED
  BY <1>1, <1>2, <1>5, <1>6, <1>7, SweepStepSpares DEF ImageNext, imageVars

\* Apps run what they built, and a sweep takes no image that is live or the newest but one beyond
\* the rows that ListDeployments returns, and one it could not know of, whatever goes on meanwhile
\* (runRegistryGC, KeepTags, rollback): for apps that share no repository, and builds that differ.
THEOREM ImagesKept ==
    ASSUME OwnRepositories, ~ Reproducible
    PROVE  ImageSpec => []ImagesWhole
<1>1. ImageInit => ImageInv /\ SpareInv
  BY ImageInitInv, SpareInit
<1>2. (ImageInv /\ SpareInv) /\ [ImageNext]_imageVars => (ImageInv /\ SpareInv)'
  BY ImageStepInv, SpareStep
<1>3. ImageInv /\ SpareInv => ImagesWhole
  BY DEF ImageInv, SpareInv, SpareRow, SweepSpares, ImagesWhole, Serves, ServesItsBuild
<1> QED  BY <1>1, <1>2, <1>3, PTL DEF ImageSpec

================================
