------------------------------- MODULE MCRequests -------------------------------
(* What requests do to environments, settings and addons,                  *)
(* and what the two surfaces let through.  These parts share no state      *)
(* here: a behaviour is one of one part, and the others stand still.       *)
EXTENDS Environments, Settings, Addons, Surfaces, TLC

Parts == {"environments", "settings", "addons", "surfaces"}

VARIABLE part \* whose behaviour it is

\* Clients differ in nothing but what they do, and addons in nothing but their names.
Alike == Permutations(AddonClients) \cup Permutations(AddonNames)

\* sanitizeBranch: feat/x and feat-x.
SlashIsDash == [b \in Branches |-> "feat-x"]

\* What production's app may be when the requests start.
StartApp(kind, git, ejected, deployed) ==
    [id |-> 1, kind |-> kind, git |-> git, ejected |-> ejected, deployed |-> deployed]
SomeApps ==
    {StartApp("web", TRUE, FALSE, TRUE), StartApp("web", FALSE, TRUE, TRUE),
     StartApp("web", TRUE, TRUE, TRUE), StartApp("job", FALSE, FALSE, TRUE),
     StartApp("job", FALSE, TRUE, TRUE), StartApp("cron", FALSE, FALSE, FALSE)}

partVars == <<part, envVars, settingVars, addonVars, surfaceVars>>

PartsInit ==
    /\ part \in Parts
    /\ EnvInit /\ SettingsInit /\ AddonInit /\ SurfaceInit
    /\ part # "settings" => app = NewApp
    /\ part # "surfaces" => /\ \A e \in Slots : appAt[e] = NoAppHere
                            /\ role["ann"] = "none" /\ ~hasKube /\ ~hasSealer

Of(p) == part = p /\ UNCHANGED part

PartsNext ==
    \/ /\ Of("environments") /\ EnvNext
       /\ UNCHANGED <<settingVars, addonVars, surfaceVars>>
    \/ /\ Of("settings") /\ SettingsNext
       /\ UNCHANGED <<envVars, addonVars, surfaceVars>>
    \/ /\ Of("addons") /\ AddonNext
       /\ UNCHANGED <<envVars, settingVars, surfaceVars>>
    \/ /\ Of("surfaces") /\ SurfaceNext
       /\ UNCHANGED <<envVars, settingVars, addonVars>>

PartsSpec == PartsInit /\ [][PartsNext]_partVars

\* Every variable of the part has the shape its comment gives (preview.go,
\* apps.go, addons.go, ui.go); those of the others stand still.
PartsTypeOK ==
    /\ part = "environments" => EnvTypeOK
    /\ part = "settings" => SettingsTypeOK
    /\ part = "addons" => AddonTypeOK
    /\ part = "surfaces" => SurfaceTypeOK

\* The page and the API let the same through and keep each other's state whole
\* (projects.go, ui.go); asked only where requests are under way, for its cost.
RequestsWhole == part = "surfaces" => SurfacesWhole

================================
