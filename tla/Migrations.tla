------------------------------- MODULE Migrations -------------------------------
(***************************************************************************)
(* Opening the database (internal/store/store.go: Open, migrate,           *)
(* seedNetworkIsolation).  The server opens whatever an older one, or one  *)
(* that died half way through this, has left: it adds the columns that are *)
(* missing, rebuilds the tables whose constraints are old, gives rows what *)
(* they lack, and each statement or transaction may be the last.           *)
(*                                                                         *)
(* Of the columns only those that a later step reads are kept.  A          *)
(* deployment is known by `was', its place in the order of creation, which *)
(* the numbers of old tables follow and the text ids of new ones do not.   *)
(***************************************************************************)
EXTENDS Naturals, Sequences, FiniteSetsExt

CONSTANTS
    OldProjects, \* projects there may be
    HomeOf,      \* the project of every app and addon
    OldApps,     \* those in it that deploy
    MaxRows      \* bound: deployments

ASSUME MigrationAssumption ==
    /\ IsFiniteSet(OldProjects) /\ IsFiniteSet(OldApps) /\ MaxRows \in Nat
    /\ OldApps \subseteq DOMAIN HomeOf /\ \A h \in DOMAIN HomeOf : HomeOf[h] \in OldProjects

VARIABLES
    database,   \* the file
    opening,    \* where Open is: "closed", one of Steps, or "stuck" when it failed
    origin,     \* history: the database the first Open found
    written     \* history: the deployments that were ever written

migrationVars == <<database, opening, origin, written>>

Housed    == DOMAIN HomeOf      \* apps and addons
Defaults  == {"production", "develop", "staging"}
Columns   == <<"rolled_back_from", "seq", "apps.environment_id", "addons.environment_id",
               "projects.default_env">>
AllColumns == {Columns[i] : i \in DOMAIN Columns}
Rebuilt   == {"scope", "text", "types", "roles"}   \* tables in their present shape

\* back: which deployment a rollback returned to, by `was'; 0 is NULL, or no column.
Row     == [was : 1 .. MaxRows, app : OldApps, id : 1 .. MaxRows, seq : 0 .. MaxRows,
            from : 0 .. MaxRows, back : 0 .. MaxRows]
\* place: "absent", or the environment, or "none" for environment_id 0.
Database == [tables : BOOLEAN, columns : SUBSET AllColumns, shape : SUBSET Rebuilt,
             index : BOOLEAN, projects : SUBSET OldProjects,
             envs : SUBSET (OldProjects \X Defaults),
             place : [Housed -> Defaults \cup {"absent", "none"}], rows : SUBSET Row,
             isolation : {"none", "on", "off"}]
NoFile  == [tables |-> FALSE, columns |-> {}, shape |-> {}, index |-> FALSE, projects |-> {},
            envs |-> {}, place |-> [h \in Housed |-> "absent"], rows |-> {}, isolation |-> "none"]

--------------------------------
(***************************************************************************)
(* The databases that older servers have left.                             *)
(***************************************************************************)

\* Which app each deployment was of, and which one of that app it returned to.
Histories ==
    UNION {{h \in [1 .. n -> [app : OldApps, back : 0 .. n]] :
                \A i \in 1 .. n : LET b == h[i].back IN
                    b = 0 \/ (b < i /\ h[b].app = h[i].app)} : n \in 0 .. MaxRows}

Before(h, i) == Cardinality({j \in 1 .. i : h[j].app = h[i].app})

\* The table of deployments had no lineage, then no numbers, then ids that were numbers.
Ages == {"bare", "lineage", "numbered", "text"}

RowsOf(h, age) ==
    LET Id(i)  == IF age = "text" THEN MaxRows + 1 - i ELSE i
        back(i) == IF age = "bare" THEN 0 ELSE h[i].back
    IN  {[was |-> i, app |-> h[i].app, id |-> Id(i),
          seq |-> IF age \in {"numbered", "text"} THEN Before(h, i) ELSE 0,
          from |-> IF back(i) = 0 THEN 0 ELSE Id(back(i)), back |-> back(i)] : i \in DOMAIN h}

ColumnsOf(age) ==
    CASE age = "bare" -> {} [] age = "lineage" -> {"rolled_back_from"}
      [] OTHER -> {"rolled_back_from", "seq"}

\* Environments came with the columns that name them and the scope of an app's name; the
\* types of addons and the roles of members came before text ids.
Found(h, age, placed, isolated) ==
    [tables |-> TRUE,
     columns |-> ColumnsOf(age) \cup (IF placed THEN AllColumns \ {"rolled_back_from", "seq"}
                                      ELSE {}),
     shape |-> (IF age = "text" THEN {"text", "types", "roles"} ELSE {})
               \cup (IF placed THEN {"scope"} ELSE {}),
     index |-> age \in {"numbered", "text"},
     projects |-> OldProjects,
     envs |-> IF placed THEN OldProjects \X Defaults ELSE {},
     place |-> [x \in Housed |-> IF ~ placed THEN "none"
                                 ELSE IF x \in OldApps THEN "production" ELSE "staging"],
     rows |-> RowsOf(h, age),
     isolation |-> isolated]

OldDatabases ==
    {NoFile} \cup
    {Found(h, age, placed, isolated) :
        h \in Histories, age \in Ages, placed \in BOOLEAN, isolated \in {"none", "on"}}

\* An old server without projects.
Unused == [NoFile EXCEPT !.tables = TRUE]

Identity(r) == [was |-> r.was, app |-> r.app, back |-> r.back]

MigrationInit ==
    /\ origin \in OldDatabases \cup {Unused} /\ database = origin
    /\ opening = "closed" /\ written = {Identity(r) : r \in origin.rows}

--------------------------------
(***************************************************************************)
(* Open.  A step that finds a column or a constraint missing fails, and    *)
(* the server with it.                                                     *)
(***************************************************************************)

\* Mutant: the table is rebuilt with text ids before its rows are numbered.
StepsTextFirst == <<"schema", "columns", "scope", "environments", "text", "seq", "types",
                    "roles", "index", "isolation", "open">>

\* The order of migrate's steps.
Steps == <<"schema", "columns", "scope", "environments", "seq", "text", "types", "roles",
           "index", "isolation", "open">>

After(pc)  == Steps[1 + CHOOSE i \in DOMAIN Steps : Steps[i] = pc]
At(pc)     == opening = pc
Unless(missing) == opening' = IF missing THEN "stuck" ELSE After(opening)
Same       == UNCHANGED <<origin, written>>

OpenStarts ==
    /\ At("closed") /\ opening' = "schema" /\ UNCHANGED <<database, origin, written>>

\* schema.sql creates only the tables that are not there.
Schema ==
    /\ At("schema") /\ Unless(FALSE) /\ Same
    /\ database' = IF database.tables THEN database
                   ELSE [database EXCEPT !.tables = TRUE, !.columns = AllColumns,
                                         !.shape = Rebuilt]

\* The loop of ALTERs, one column at a time.
AddColumn ==
    /\ At("columns") /\ Same
    /\ LET missing == {i \in DOMAIN Columns : Columns[i] \notin database.columns} IN
       IF missing = {} THEN Unless(FALSE) /\ UNCHANGED database
       ELSE /\ database' = [database EXCEPT !.columns = @ \cup {Columns[Min(missing)]}]
            /\ UNCHANGED opening

\* migrateAppsUniqueScope, migrateAddonTypes, migrateMemberRoles: with foreign keys off the
\* old table is copied and dropped in one transaction.
Rebuild(pc, needs) ==
    /\ At(pc) /\ Same
    /\ IF pc \in database.shape THEN Unless(FALSE) /\ UNCHANGED database
       ELSE /\ Unless(~ needs \subseteq database.columns)
            /\ database' = IF needs \subseteq database.columns
                           THEN [database EXCEPT !.shape = @ \cup {pc}] ELSE database

\* The projects that have no environments.
Bare == {p \in database.projects : ~ \E e \in database.envs : e[1] = p}

\* backfillProjectEnvironments, a transaction for each project.
Backfill ==
    /\ At("environments") /\ Same
    /\ LET ready == /\ "scope" \in database.shape
                    /\ AllColumns \ {"rolled_back_from", "seq"} \subseteq database.columns
       IN  IF Bare = {} \/ ~ ready
           THEN Unless(~ ready /\ Bare # {}) /\ UNCHANGED database
           ELSE \E p \in Bare :
                    /\ database' = [database EXCEPT
                           !.envs = @ \cup ({p} \X Defaults),
                           !.place = [x \in Housed |->
                               IF HomeOf[x] = p /\ @[x] = "none" THEN "production" ELSE @[x]]]
                    /\ UNCHANGED opening

\* Rows without a number get their place among the app's ids.
Number ==
    /\ At("seq") /\ Unless("seq" \notin database.columns) /\ Same
    /\ database' = IF "seq" \notin database.columns THEN database
                   ELSE [database EXCEPT !.rows =
                       {[r EXCEPT !.seq = IF @ # 0 THEN @ ELSE
                            Cardinality({s.id : s \in {t \in database.rows :
                                                       t.app = r.app /\ t.id <= r.id}})]
                        : r \in database.rows}]

NewIds(ids) == {f \in [ids -> 1 .. Cardinality(ids)] : \A i, j \in ids : f[i] = f[j] => i = j}

\* migrateDeploymentIDsToText: new ids follow no order, and a lineage goes with them.
TextIds ==
    /\ At("text") /\ Same
    /\ LET ready == {"seq", "rolled_back_from"} \subseteq database.columns IN
       IF "text" \in database.shape \/ ~ ready
       THEN Unless("text" \notin database.shape) /\ UNCHANGED database
       ELSE /\ Unless(FALSE)
            /\ \E new \in NewIds({r.id : r \in database.rows}) :
                   database' = [database EXCEPT
                       !.shape = @ \cup {"text"}, !.index = FALSE,
                       !.rows = {[r EXCEPT !.id = new[@],
                                           !.from = IF @ \in DOMAIN new THEN new[@] ELSE 0]
                                 : r \in database.rows}]

\* The unique index, which two rows of one number would refuse.
Index ==
    /\ At("index") /\ Same
    /\ LET fits == /\ "seq" \in database.columns
                   /\ \A r, s \in database.rows : r.app = s.app /\ r.seq = s.seq => r = s
       IN  Unless(~ fits) /\ database' = [database EXCEPT !.index = @ \/ fits]

\* seedNetworkIsolation: an install that has no projects yet is new.
Isolation ==
    /\ At("isolation") /\ Unless(FALSE) /\ Same
    /\ database' = IF database.isolation # "none" THEN database
                   ELSE [database EXCEPT !.isolation =
                            IF database.projects = {} THEN "on" ELSE "off"]

--------------------------------
(***************************************************************************)
(* The server at work, and its death at any point.                         *)
(***************************************************************************)

\* handleCreateProject; the death of the server may leave the project without environments.
ProjectMade ==
    /\ At("open")
    /\ \E p \in OldProjects \ database.projects, seeded \in BOOLEAN :
           /\ database' = [database EXCEPT !.projects = @ \cup {p},
                               !.envs = IF seeded THEN @ \cup ({p} \X Defaults) ELSE @]
           /\ opening' = IF seeded THEN opening ELSE "closed"
    /\ Same

\* CreateApp, placed where its environment is.
AppMade ==
    /\ At("open") /\ UNCHANGED opening /\ Same
    /\ \E x \in Housed, e \in Defaults :
           /\ database.place[x] = "absent" /\ <<HomeOf[x], e>> \in database.envs
           /\ database' = [database EXCEPT !.place[x] = e]

\* CreateDeployment.
Deployed ==
    /\ At("open") /\ Cardinality(database.rows) < MaxRows /\ UNCHANGED <<opening, origin>>
    /\ \E a \in OldApps, id \in (1 .. MaxRows) \ {r.id : r \in database.rows} :
           /\ database.place[a] # "absent"
           /\ LET r == [was |-> Cardinality(database.rows) + 1, app |-> a, id |-> id,
                        seq |-> Max({s.seq : s \in {t \in database.rows : t.app = a}} \cup {0}) + 1,
                        from |-> 0, back |-> 0]
              IN  /\ database' = [database EXCEPT !.rows = @ \cup {r}]
                  /\ written' = written \cup {Identity(r)}

\* Transactions that were not committed leave nothing.
Dies ==
    /\ opening \notin {"closed", "stuck"} /\ opening' = "closed"
    /\ UNCHANGED <<database, origin, written>>

MigrationNext ==
    \/ OpenStarts \/ Schema \/ AddColumn \/ Backfill \/ Number \/ TextIds \/ Index \/ Isolation
    \/ Rebuild("scope", {"apps.environment_id"}) \/ Rebuild("types", {"addons.environment_id"})
    \/ Rebuild("roles", {})
    \/ ProjectMade \/ AppMade \/ Deployed \/ Dies

MigrationSpec == MigrationInit /\ [][MigrationNext]_migrationVars

--------------------------------
(***************************************************************************)
(* Properties.                                                             *)
(***************************************************************************)

\* The file and Open have the shape their comments give (store.go, schema.sql).
MigrationTypeOK ==
    /\ database \in Database /\ origin \in Database
    /\ opening \in {"closed", "stuck"} \cup {Steps[i] : i \in DOMAIN Steps}

IsOpen == opening = "open"

\* No death of the server, wherever it strikes, leaves a database the next Open refuses.
NeverStuck == opening # "stuck"

\* Whatever is rebuilt and however often, no deployment is lost or made up, and a rollback
\* names the deployment it returned to under the id that one has now.
HistoryKept ==
    /\ {Identity(r) : r \in database.rows} = written
    /\ \A r, s \in database.rows : r.id = s.id => r = s
    /\ \A r \in database.rows :
           IF r.back = 0 THEN r.from = 0
           ELSE \E s \in database.rows : s.was = r.back /\ s.id = r.from

\* Once open, the deployments of an app are numbered in the order they were made.
NumberedInOrder ==
    IsOpen => /\ database.index
              /\ \A r \in database.rows : r.seq =
                     Cardinality({s.was : s \in {t \in database.rows :
                                                 t.app = r.app /\ t.was <= r.was}})

\* Once open, no project is without environments and every app and addon is in one of its
\* project's: in production if it had none, where it was otherwise.
EverythingHoused ==
    /\ IsOpen => Bare = {}
    /\ \A x \in Housed :
           /\ IsOpen /\ database.place[x] # "absent" =>
                  <<HomeOf[x], database.place[x]>> \in database.envs
           /\ origin.place[x] = "none" => database.place[x] \in {"none", "production"}
           /\ origin.place[x] \in Defaults => database.place[x] = origin.place[x]

\* Isolation is on in an install that had no project when a server that knows it came
\* first, and an upgrade or a death half way never turns it on.
IsolationByAge ==
    IsOpen => database.isolation =
        IF origin.isolation # "none" THEN origin.isolation
        ELSE IF origin.projects = {} THEN "on"
        ELSE "off"

\* Wherever an Open was cut off, however often, the one that ends has made of the old
\* database what one Open that nothing disturbed would have (Open, migrate).
MigrationsWhole ==
    NeverStuck /\ HistoryKept /\ NumberedInOrder /\ EverythingHoused /\ IsolationByAge

================================
