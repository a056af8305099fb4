-------------------------------- MODULE MCReleases -------------------------------
(* The deploys of one app, the images they leave in the registry, and the  *)
(* life of several apps, one of these at a time: they share no state here, *)
(* and the others stand still.                                             *)
EXTENDS MCDeploy, Images, Apps, TLC

VARIABLE part \* whose behaviour it is

\* Clients differ in nothing but what they do.
AlikeClients == Permutations(AppClients)

\* Apps with names of their own.
OwnRepos == [a \in AppIds |-> <<"own", a>>]

releaseVars == <<part, vars, imageVars, appVars>>

ReleasesInit ==
    /\ part \in {"deploys", "images", "apps"}
    /\ Init /\ ImageInit /\ AppInit
    /\ part # "deploys" => policy = P("canary", TRUE)

ReleasesNext ==
    \/ part = "deploys" /\ Next /\ UNCHANGED <<part, imageVars, appVars>>
    \/ part = "images" /\ ImageNext /\ UNCHANGED <<part, vars, appVars>>
    \/ part = "apps" /\ AppNext /\ UNCHANGED <<part, vars, imageVars>>

ReleasesSpec == ReleasesInit /\ [][ReleasesNext]_releaseVars

================================
