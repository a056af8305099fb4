------------------------------- MODULE MCProjects -------------------------------
(* Accounts, projects, the opening of the database that holds them, and a  *)
(* sweep that stops early, one of these at a time: they share no state     *)
(* here, and the others stand still.                                       *)
EXTENDS TLC, SweepProperties, Accounts, Projects, Migrations

Subjects == {"accounts", "projects", "opening", "sweep"}

\* Two apps and an addon of one project; another has none.
InOneProject == [api |-> "p", web |-> "p", db |-> "p"]

VARIABLE subject \* whose behaviour it is

\* Metrics of trials, as readers of a growing log may find them.
Report(value, step) == [found |-> TRUE, value |-> value, step |-> step]
GoodOrBad == {Report(1, 2), Report(2, 1)}

\* Two projects, the second named as an environment of the first is placed.
TwoEnvironments == <<"production", "develop">>
NamesMeet ==
    [x \in Names \X EnvNames |->
        CASE x[2] = "production" -> x[1]
          [] x = <<"a", "develop">> -> "ad"
          [] OTHER -> "add"]

\* Requests differ in nothing but what they do.
AlikeClients == Permutations(Clients)

subjectVars == <<subject, vars, accountVars, projectVars, migrationVars>>

\* What stands still starts in one way only.
OneProject ==
    /\ {<<p.name, p.gpu>> : p \in projects} = {<<"a", 0>>}
    /\ ~isolation /\ \A s \in Spaces : ~space[s].there

\* No namespace exists yet, or all do.
FewSpaces == {s \in Spaces : space[s].there} \in {{}, {e.ns : e \in environments}}

NoDatabase ==
    database = NoFile /\ origin = NoFile /\ opening = "closed" /\ written = {}

SubjectsInit ==
    /\ subject \in Subjects
    /\ Init /\ AccountInit /\ ProjectInit
    /\ IF subject = "opening" THEN MigrationInit ELSE NoDatabase
    /\ subject # "accounts" => Cardinality(users) = 1
    /\ IF subject = "projects" THEN FewSpaces ELSE OneProject

Of(s) == subject = s /\ UNCHANGED subject

SubjectsNext ==
    \/ Of("accounts") /\ AccountNext /\ UNCHANGED <<vars, projectVars, migrationVars>>
    \/ Of("projects") /\ ProjectNext /\ UNCHANGED <<vars, accountVars, migrationVars>>
    \/ Of("opening") /\ MigrationNext /\ UNCHANGED <<vars, accountVars, projectVars>>
    \/ Of("sweep") /\ Next /\ UNCHANGED <<accountVars, projectVars, migrationVars>>

SubjectsSpec == SubjectsInit /\ [][SubjectsNext]_subjectVars

\* Every variable of the subject has the shape its comment gives (store/schema.sql, auth.go,
\* projects.go, store.go, sweeps.go); those of the others stand still.
SubjectsTypeOK ==
    /\ subject = "accounts" => AccountTypeOK
    /\ subject = "projects" => ProjectTypeOK
    /\ subject = "opening" => MigrationTypeOK
    /\ subject = "sweep" => TypeOK

================================
