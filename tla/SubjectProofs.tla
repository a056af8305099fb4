----------------------------- MODULE SubjectProofs -----------------------------
(***************************************************************************)
(* Proofs about the opening of the database, for any projects, apps and    *)
(* number of deployments, and however often Open is cut off, and about the *)
(* accounts it holds, for any people and requests: modules Migrations and  *)
(* Accounts.                                                               *)
(***************************************************************************)
EXTENDS Migrations, Accounts, TableLemmas, FiniteSetTheorems

--------------------------------
\* Migrations: the opening of the database.

\* Where Open may be when a step is behind it.
PastIndex        == {"isolation", "open"}
PastText         == {"types", "roles", "index"} \cup PastIndex
PastSeq          == {"text"} \cup PastText
PastEnvironments == {"seq"} \cup PastSeq
PastScope        == {"environments"} \cup PastEnvironments
PastColumns      == {"scope"} \cup PastScope
PastSchema       == {"columns"} \cup PastColumns
AllSteps         == {"schema"} \cup PastSchema

\* The deployments of an app up to one of them, by `was': its number counts these.
UpTo(rows, r) == {s.was : s \in {t \in rows : t.app = r.app /\ t.was <= r.was}}

\* Deployments are known by `was', which is 1, 2, ... in the order they were made, and by
\* their id, which is `was' as long as ids are numbers.
RowsInOrder ==
    /\ IsFiniteSet(database.rows) /\ Cardinality(database.rows) <= MaxRows
    /\ \A r \in database.rows : r.was <= Cardinality(database.rows)
    /\ \A r, s \in database.rows : (r.was = s.was \/ r.id = s.id) => r = s
    /\ "text" \notin database.shape => \A r \in database.rows : r.id = r.was

\* A rollback's lineage is the id of the deployment it returned to.
Lineage ==
    \A r \in database.rows :
        IF r.back = 0 THEN r.from = 0
        ELSE \E s \in database.rows : s.was = r.back /\ s.id = r.from

\* A number is a deployment's place among those of its app, and every row of a table with
\* text ids, or that Open has numbered, has one.
NumbersAreRight ==
    \A r \in database.rows :
        /\ r.seq = 0 \/ r.seq = Cardinality(UpTo(database.rows, r))
        /\ "text" \in database.shape \/ opening \in PastSeq => r.seq # 0

\* What a step needs, the steps before it have made.
StepsBehind ==
    /\ opening \in PastSchema => database.tables
    /\ opening \in PastColumns => database.columns = AllColumns
    /\ opening \in PastScope => "scope" \in database.shape
    /\ opening \in PastEnvironments => Bare = {}
    /\ opening \in PastText => "text" \in database.shape
    /\ opening \in PastIndex => database.index
    /\ ~ database.tables => database = NoFile

\* Apps and addons without an environment are those of projects without any.
Places ==
    \A x \in Housed :
        /\ database.place[x] \in Defaults => <<HomeOf[x], database.place[x]>> \in database.envs
        /\ database.place[x] = "none" => HomeOf[x] \in Bare
        /\ origin.place[x] = "none" => database.place[x] \in {"none", "production"}
        /\ origin.place[x] \in Defaults => database.place[x] = origin.place[x]

\* Until isolation is set, the projects are those the first Open found.
IsolationOnce ==
    IF database.isolation = "none"
    THEN origin.isolation = "none" /\ database.projects = origin.projects /\ opening # "open"
    ELSE database.isolation =
            IF origin.isolation # "none" THEN origin.isolation
            ELSE IF origin.projects = {} THEN "on"
            ELSE "off"

\* No deployment is lost or made up.
NothingLost == {Identity(r) : r \in database.rows} = written

\* The inductive invariant.
MigrationInv ==
    /\ MigrationTypeOK /\ RowsInOrder /\ Lineage /\ NumbersAreRight /\ StepsBehind /\ Places
    /\ IsolationOnce /\ NeverStuck /\ NothingLost

--------------------------------
\* The order of the steps, and the places of rows in their app's history.

\* Steps is what it lists (migrate).
LEMMA StepsOrder ==
    /\ {Steps[i] : i \in DOMAIN Steps} = AllSteps
    /\ After("schema") = "columns" /\ After("columns") = "scope"
    /\ After("scope") = "environments" /\ After("environments") = "seq"
    /\ After("seq") = "text" /\ After("text") = "types" /\ After("types") = "roles"
    /\ After("roles") = "index" /\ After("index") = "isolation"
    /\ After("isolation") = "open"
  <1> DEFINE Where(pc) == CHOOSE i \in 1 .. 11 : Steps[i] = pc
  <1>1. DOMAIN Steps = 1 .. 11
    BY DEF Steps
  <1>2. {Steps[i] : i \in DOMAIN Steps} = AllSteps
    <2>1. \A i \in 1 .. 11 : Steps[i] \in AllSteps
      BY DEF Steps, AllSteps, PastSchema, PastColumns, PastScope, PastEnvironments, PastSeq,
             PastText, PastIndex
    <2>2. /\ Steps[1] = "schema" /\ Steps[2] = "columns" /\ Steps[3] = "scope"
          /\ Steps[4] = "environments" /\ Steps[5] = "seq" /\ Steps[6] = "text"
          /\ Steps[7] = "types" /\ Steps[8] = "roles" /\ Steps[9] = "index"
          /\ Steps[10] = "isolation" /\ Steps[11] = "open"
      BY DEF Steps
    <2>3. \A pc \in AllSteps : \E i \in 1 .. 11 : Steps[i] = pc
      BY <2>2 DEF AllSteps, PastSchema, PastColumns, PastScope, PastEnvironments, PastSeq,
             PastText, PastIndex
    <2> QED
      BY <1>1, <2>1, <2>3
  <1>3. /\ Where("schema") = 1 /\ Where("columns") = 2 /\ Where("scope") = 3
        /\ Where("environments") = 4 /\ Where("seq") = 5
    BY DEF Steps
  <1>4. /\ Where("text") = 6 /\ Where("types") = 7 /\ Where("roles") = 8
        /\ Where("index") = 9 /\ Where("isolation") = 10
    BY DEF Steps
  <1> QED
    BY <1>1, <1>2, <1>3, <1>4 DEF After, Steps

\* A place in an app's history is a number from 1 on.
LEMMA PlaceIsPositive ==
    ASSUME NEW rows \in SUBSET Row, NEW r \in rows
    PROVE  /\ IsFiniteSet(UpTo(rows, r)) /\ UpTo(rows, r) \subseteq 1 .. MaxRows
           /\ Cardinality(UpTo(rows, r)) \in 1 .. MaxRows
  <1>1. UpTo(rows, r) \subseteq 1 .. MaxRows
    BY DEF UpTo, Row
  <1>2. IsFiniteSet(1 .. MaxRows) /\ Cardinality(1 .. MaxRows) = MaxRows
    BY FS_Interval, MigrationAssumption
  <1>3. /\ IsFiniteSet(UpTo(rows, r)) /\ Cardinality(UpTo(rows, r)) <= MaxRows
        /\ Cardinality(UpTo(rows, r)) \in Nat
    BY <1>1, <1>2, FS_Subset, FS_CardinalityType
  <1>4. r.was \in UpTo(rows, r)
    BY DEF UpTo, Row
  <1>5. Cardinality(UpTo(rows, r)) # 0
    BY <1>3, <1>4, FS_EmptySet
  <1> QED
    BY <1>1, <1>3, <1>5, MigrationAssumption

\* Of two deployments of an app the later has more up to it.
LEMMA LaterIsFurther ==
    ASSUME NEW rows \in SUBSET Row, NEW r \in rows, NEW s \in rows,
           r.app = s.app, r.was < s.was
    PROVE  Cardinality(UpTo(rows, r)) < Cardinality(UpTo(rows, s))
<1>1. UpTo(rows, r) \subseteq UpTo(rows, s) /\ s.was \in UpTo(rows, s)
  BY DEF UpTo, Row
<1>2. s.was \notin UpTo(rows, r)
  BY DEF UpTo, Row
<1>3. IsFiniteSet(UpTo(rows, s)) /\ Cardinality(UpTo(rows, s)) \in Nat
  BY PlaceIsPositive
<1>4. Cardinality(UpTo(rows, r)) \in Nat
  BY PlaceIsPositive
<1>5. /\ Cardinality(UpTo(rows, r)) <= Cardinality(UpTo(rows, s))
      /\ Cardinality(UpTo(rows, r)) # Cardinality(UpTo(rows, s))
  BY <1>1, <1>2, <1>3, FS_Subset
<1> QED
  BY <1>3, <1>4, <1>5

--------------------------------
\* The databases that older servers leave satisfy the invariant.

\* The database that was never opened, and that of a server without projects.
LEMMA EmptyIsRight ==
    ASSUME MigrationInit, origin \in {NoFile, Unused}
    PROVE  MigrationInv
<1>1. /\ database.rows = {} /\ database \in Database /\ written = {}
      /\ database.columns \subseteq AllColumns /\ database.shape = {}
      /\ database.projects = {} /\ database.isolation = "none"
      /\ \A x \in Housed : database.place[x] = "absent"
  <2> DEFINE nowhere == [x \in Housed |-> "absent"]
  <2>1. nowhere \in [Housed -> Defaults \cup {"absent", "none"}]
    OBVIOUS
  <2>2. database \in Database
    <3>1. NoFile \in Database
      BY <2>1 DEF NoFile, Database
    <3>2. Unused \in Database
      BY <3>1 DEF Unused, Database
    <3> QED
      BY <3>1, <3>2 DEF MigrationInit
  <2>3. database = origin /\ origin.rows = {}
    BY DEF MigrationInit, NoFile, Unused
  <2>4. written = {}
    BY <2>3 DEF MigrationInit
  <2>5. /\ database.columns \subseteq AllColumns /\ database.shape = {}
        /\ database.projects = {} /\ database.isolation = "none"
    BY <2>3 DEF NoFile, Unused
  <2>6. \A x \in Housed : database.place[x] = "absent"
    BY <2>3 DEF NoFile, Unused
  <2> QED
    BY <2>2, <2>3, <2>4, <2>5, <2>6
<1>2. ~ database.tables => database = NoFile
  BY DEF MigrationInit, NoFile, Unused
<1>3. opening = "closed" /\ origin = database
  BY DEF MigrationInit
<1>4. MigrationTypeOK /\ NeverStuck
  BY <1>1, <1>3 DEF MigrationTypeOK, NeverStuck
<1>5. RowsInOrder
  BY <1>1, FS_EmptySet, MigrationAssumption DEF RowsInOrder
<1>6. Lineage /\ NumbersAreRight /\ NothingLost
  BY <1>1 DEF Lineage, NumbersAreRight, NothingLost
<1>7. StepsBehind
  BY <1>2, <1>3 DEF StepsBehind, PastSchema, PastColumns, PastScope, PastEnvironments, PastSeq,
     PastText, PastIndex
<1>8. Places /\ IsolationOnce
  BY <1>1, <1>3 DEF Places, IsolationOnce, Defaults
<1> QED
  BY <1>4, <1>5, <1>6, <1>7, <1>8 DEF MigrationInv

\* The table of deployments an older server has left: a row for each deployment of its
\* history, numbered or not.
LEMMA TableIsRight ==
    ASSUME NEW h \in Histories, NEW age \in Ages, database.rows = RowsOf(h, age),
           age = "text" <=> "text" \in database.shape, opening = "closed"
    PROVE  /\ database.rows \in SUBSET Row
           /\ RowsInOrder /\ Lineage /\ NumbersAreRight
<1> DEFINE Id(i)   == IF age = "text" THEN MaxRows + 1 - i ELSE i
           back(i) == IF age = "bare" THEN 0 ELSE h[i].back
           from(i) == IF back(i) = 0 THEN 0 ELSE Id(back(i))
           seq(i)  == IF age \in {"numbered", "text"} THEN Before(h, i) ELSE 0
           row(i)  == [was |-> i, app |-> h[i].app, id |-> Id(i), seq |-> seq(i),
                       from |-> from(i), back |-> back(i)]
<1>1. PICK n \in 0 .. MaxRows :
          /\ h \in [1 .. n -> [app : OldApps, back : 0 .. n]]
          /\ \A i \in 1 .. n : h[i].back = 0
                               \/ (h[i].back < i /\ h[h[i].back].app = h[i].app)
  BY DEF Histories
<1>2. database.rows = {row(i) : i \in 1 .. n}
  BY <1>1 DEF RowsOf
<1>3. \A i \in 1 .. n : Before(h, i) \in 0 .. MaxRows
  <2> SUFFICES ASSUME NEW i \in 1 .. n  PROVE Before(h, i) \in 0 .. MaxRows
    OBVIOUS
  <2>1. IsFiniteSet(1 .. i) /\ Cardinality(1 .. i) = i
    BY FS_Interval, MigrationAssumption
  <2>2. /\ IsFiniteSet({j \in 1 .. i : h[j].app = h[i].app})
        /\ Cardinality({j \in 1 .. i : h[j].app = h[i].app}) <= i
    BY <2>1, FS_Subset
  <2> QED
    BY <2>2, FS_CardinalityType, MigrationAssumption DEF Before
<1>4. \A i \in 1 .. n : back(i) \in 0 .. i - 1 /\ from(i) \in 0 .. MaxRows
                         /\ Id(i) \in 1 .. MaxRows
  BY <1>1, MigrationAssumption
<1>5. \A i \in 1 .. n : row(i) \in Row
  <2> SUFFICES ASSUME NEW i \in 1 .. n  PROVE row(i) \in Row
    OBVIOUS
  <2>1. /\ i \in 1 .. MaxRows /\ h[i].app \in OldApps /\ Id(i) \in 1 .. MaxRows
        /\ seq(i) \in 0 .. MaxRows /\ from(i) \in 0 .. MaxRows /\ back(i) \in 0 .. MaxRows
    BY <1>1, <1>3, <1>4, MigrationAssumption
  <2> HIDE DEF Id, back, from, seq
  <2> QED
    BY <2>1 DEF Row
<1>6. database.rows \in SUBSET Row
  <2> HIDE DEF row
  <2> QED
    BY <1>2, <1>5
<1>7. \A i, j \in 1 .. n : Id(i) = Id(j) => i = j
  BY MigrationAssumption
<1>8. RowsInOrder
  <2>1. IsFiniteSet(database.rows) /\ Cardinality(database.rows) = n
    <3> DEFINE f == [i \in 1 .. n |-> row(i)]
    <3>1. \A i, j \in 1 .. n : row(i) = row(j) => i = j
      OBVIOUS
    <3>2. f \in Bijection(1 .. n, database.rows)
      <4> HIDE DEF row
      <4> QED
        BY <1>2, <3>1 DEF Bijection, Injection, Surjection, IsInjective
    <3>3. IsFiniteSet(1 .. n) /\ Cardinality(1 .. n) = n
      BY FS_Interval, MigrationAssumption
    <3> QED
      BY <3>2, <3>3, FS_Bijection DEF ExistsBijection
  <2>2. \A r \in database.rows : r.was <= n
    BY <1>2
  <2>3. \A r, s \in database.rows : (r.was = s.was \/ r.id = s.id) => r = s
    <3> HIDE DEF Id, back, from, seq
    <3> QED
      BY <1>2, <1>7
  <2>4. "text" \notin database.shape => \A r \in database.rows : r.id = r.was
    BY <1>2
  <2> QED
    BY <2>1, <2>2, <2>3, <2>4, MigrationAssumption DEF RowsInOrder
<1>9. Lineage
  <2> SUFFICES ASSUME NEW i \in 1 .. n
               PROVE  IF back(i) = 0 THEN from(i) = 0
                      ELSE \E s \in database.rows : s.was = back(i) /\ s.id = from(i)
    BY <1>2 DEF Lineage
  <2>1. back(i) # 0 => row(back(i)) \in database.rows
    BY <1>2, <1>4
  <2> QED
    BY <2>1
<1>10. NumbersAreRight
  <2>1. ASSUME NEW i \in 1 .. n
        PROVE  Before(h, i) = Cardinality(UpTo(database.rows, row(i)))
    <3>1. \A j \in 1 .. n : row(j).was = j /\ row(j).app = h[j].app
      OBVIOUS
    <3>2. UpTo(database.rows, row(i)) = {j \in 1 .. i : h[j].app = h[i].app}
      <4> HIDE DEF row
      <4>1. \A x : x \in UpTo(database.rows, row(i)) <=>
                       \E s \in database.rows : /\ s.app = row(i).app /\ s.was <= row(i).was
                                                /\ x = s.was
        BY DEF UpTo
      <4>2. \A x : x \in UpTo(database.rows, row(i)) <=>
                       \E j \in 1 .. n : h[j].app = h[i].app /\ j <= i /\ x = j
        BY <1>2, <3>1, <4>1
      <4>3. \A x : x \in 1 .. i <=> (x \in 1 .. n /\ x <= i)
        BY <1>1
      <4> QED
        BY <4>2, <4>3
    <3> QED
      BY <3>2 DEF Before
  <2>2. \A i \in 1 .. n : Cardinality(UpTo(database.rows, row(i))) # 0
    <3> SUFFICES ASSUME NEW i \in 1 .. n
                 PROVE  Cardinality(UpTo(database.rows, row(i))) # 0
      OBVIOUS
    <3> HIDE DEF row
    <3>1. row(i) \in database.rows
      BY <1>2
    <3>2. Cardinality(UpTo(database.rows, row(i))) \in 1 .. MaxRows
      BY <1>6, <3>1, PlaceIsPositive
    <3> QED
      BY <3>2, MigrationAssumption
  <2>3. opening \notin PastSeq
    BY DEF PastSeq, PastText, PastIndex
  <2>4. ASSUME NEW i \in 1 .. n
        PROVE  /\ row(i).seq = 0 \/ row(i).seq = Cardinality(UpTo(database.rows, row(i)))
               /\ "text" \in database.shape => row(i).seq # 0
    <3>1. row(i).seq = seq(i)
      OBVIOUS
    <3> HIDE DEF row
    <3> QED
      BY <2>1, <2>2, <3>1
  <2> QED
    BY <1>2, <2>3, <2>4 DEF NumbersAreRight
<1> QED
  BY <1>6, <1>8, <1>9, <1>10

\* What an older server with projects has left.
LEMMA FoundIsRight ==
    ASSUME MigrationInit, NEW h \in Histories, NEW age \in Ages, NEW placed \in BOOLEAN,
           NEW isolated \in {"none", "on"}, origin = Found(h, age, placed, isolated)
    PROVE  MigrationInv
<1>1. opening = "closed" /\ database = origin
  BY DEF MigrationInit
<1>2. /\ database.tables = TRUE /\ database.projects = OldProjects
      /\ database.rows = RowsOf(h, age) /\ database.isolation = isolated
      /\ database.envs = IF placed THEN OldProjects \X Defaults ELSE {}
      /\ \A x \in Housed : database.place[x] = IF ~ placed THEN "none"
                               ELSE IF x \in OldApps THEN "production" ELSE "staging"
  BY <1>1 DEF Found
<1>3. age = "text" <=> "text" \in database.shape
  BY <1>1 DEF Found
<1>4. database.rows \in SUBSET Row /\ RowsInOrder /\ Lineage /\ NumbersAreRight
  BY <1>1, <1>2, <1>3, TableIsRight
<1>5. database \in Database
  <2>1. database.columns \in SUBSET AllColumns
    <3>1. ColumnsOf(age) \in SUBSET AllColumns
      BY DEF ColumnsOf, Ages, AllColumns, Columns
    <3>2. \/ database.columns = ColumnsOf(age)
          \/ database.columns = ColumnsOf(age) \cup (AllColumns \ {"rolled_back_from", "seq"})
      BY <1>1 DEF Found
    <3> QED
      BY <3>1, <3>2
  <2>2. database.shape \in SUBSET Rebuilt
    BY <1>1 DEF Found, Rebuilt
  <2>3. database.index \in BOOLEAN
    BY <1>1 DEF Found
  <2>4. database.place \in [Housed -> Defaults \cup {"absent", "none"}]
    BY <1>1 DEF Found, Defaults
  <2>5. database.envs \in SUBSET (OldProjects \X Defaults)
    BY <1>2
  <2>6. database = [tables |-> database.tables, columns |-> database.columns,
                    shape |-> database.shape, index |-> database.index,
                    projects |-> database.projects, envs |-> database.envs,
                    place |-> database.place, rows |-> database.rows,
                    isolation |-> database.isolation]
    BY <1>1 DEF Found
  <2> QED
    BY <1>2, <1>4, <2>1, <2>2, <2>3, <2>4, <2>5, <2>6 DEF Database
<1>6. MigrationTypeOK /\ NeverStuck
  BY <1>1, <1>5 DEF MigrationTypeOK, NeverStuck
<1>7. StepsBehind
  BY <1>1, <1>2 DEF StepsBehind, PastSchema, PastColumns, PastScope, PastEnvironments, PastSeq,
     PastText, PastIndex
<1>8. Places
  BY <1>1, <1>2, MigrationAssumption DEF Places, Defaults, Bare, Housed
<1>9. IsolationOnce /\ NothingLost
  BY <1>1, <1>2 DEF IsolationOnce, NothingLost, MigrationInit
<1> QED
  BY <1>4, <1>6, <1>7, <1>8, <1>9 DEF MigrationInv

\* The invariant holds of whatever the first Open finds.
LEMMA MigrationInitially == MigrationInit => MigrationInv
<1> SUFFICES ASSUME MigrationInit  PROVE MigrationInv
  OBVIOUS
<1>1. CASE origin \in {NoFile, Unused}
  BY <1>1, EmptyIsRight
<1>2. CASE \E h \in Histories, age \in Ages, placed \in BOOLEAN, isolated \in {"none", "on"} :
               origin = Found(h, age, placed, isolated)
  BY <1>2, FoundIsRight
<1> QED
  BY <1>1, <1>2 DEF MigrationInit, OldDatabases

--------------------------------
\* Every step of Open preserves the invariant.

\* A step that leaves the rows alone, and the constraint on their ids.
LEMMA RowsUntouched ==
    ASSUME MigrationInv, database'.rows = database.rows, UNCHANGED written,
           "text" \in database'.shape <=> "text" \in database.shape,
           opening' \in PastSeq => opening \in PastSeq
    PROVE  RowsInOrder' /\ Lineage' /\ NumbersAreRight' /\ NothingLost'
<1>1. RowsInOrder'
  BY DEF MigrationInv, RowsInOrder
<1>2. Lineage'
  BY DEF MigrationInv, Lineage
<1>3. NumbersAreRight'
  BY DEF MigrationInv, NumbersAreRight
<1>4. NothingLost'
  BY DEF MigrationInv, NothingLost
<1> QED
  BY <1>1, <1>2, <1>3, <1>4

\* Open goes on, or is cut off, without touching the database.
LEMMA OpeningMoves ==
    ASSUME MigrationInv, UNCHANGED <<database, origin, written>>,
           opening' \in {"closed"} \cup AllSteps,
           opening' = "open" => database.isolation # "none",
           opening' \in PastSeq => opening \in PastSeq,
           StepsBehind'
    PROVE  MigrationInv'
<1>1. MigrationTypeOK'
  BY StepsOrder DEF MigrationInv, MigrationTypeOK
<1>2. Places' /\ IsolationOnce'
  BY DEF MigrationInv, Places, IsolationOnce, Bare
<1>3. NeverStuck'
  BY DEF NeverStuck, AllSteps, PastSchema, PastColumns, PastScope, PastEnvironments, PastSeq,
     PastText, PastIndex
<1>4. RowsInOrder' /\ Lineage' /\ NumbersAreRight' /\ NothingLost'
  BY RowsUntouched
<1> QED
  BY <1>1, <1>2, <1>3, <1>4 DEF MigrationInv

LEMMA OpenStartsPreserves == MigrationInv /\ OpenStarts => MigrationInv'
<1> SUFFICES ASSUME MigrationInv, OpenStarts  PROVE MigrationInv'
  OBVIOUS
<1> USE DEF AllSteps, PastSchema, PastColumns, PastScope, PastEnvironments, PastSeq, PastText,
            PastIndex
<1>1. StepsBehind'
  BY DEF MigrationInv, StepsBehind, OpenStarts, Bare
<1> QED
  BY <1>1, OpeningMoves DEF OpenStarts

LEMMA DiesPreserves == MigrationInv /\ Dies => MigrationInv'
<1> SUFFICES ASSUME MigrationInv, Dies  PROVE MigrationInv'
  OBVIOUS
<1> USE DEF AllSteps, PastSchema, PastColumns, PastScope, PastEnvironments, PastSeq, PastText,
            PastIndex
<1>1. StepsBehind'
  BY DEF MigrationInv, StepsBehind, Dies, Bare
<1> QED
  BY <1>1, OpeningMoves DEF Dies

LEMMA SchemaPreserves == MigrationInv /\ Schema => MigrationInv'
<1> SUFFICES ASSUME MigrationInv, Schema  PROVE MigrationInv'
  OBVIOUS
<1> USE DEF AllSteps, PastSchema, PastColumns, PastScope, PastEnvironments, PastSeq, PastText,
            PastIndex
<1>1. opening = "schema" /\ opening' = "columns" /\ UNCHANGED <<origin, written>>
  BY StepsOrder DEF Schema, At, Unless, Same
<1>2. CASE database.tables
  <2>1. UNCHANGED database
    BY <1>2 DEF Schema
  <2>2. StepsBehind'
    BY <1>1, <1>2, <2>1 DEF StepsBehind
  <2> QED
    BY <1>1, <2>1, <2>2, OpeningMoves
<1>3. CASE ~ database.tables
  <2>1. /\ database = NoFile
        /\ database' = [NoFile EXCEPT !.tables = TRUE, !.columns = AllColumns, !.shape = Rebuilt]
    BY <1>1, <1>3 DEF Schema, MigrationInv, StepsBehind
  <2>2. /\ database.rows = {} /\ database'.rows = {} /\ database'.tables = TRUE
        /\ database'.place = database.place /\ database'.projects = database.projects
        /\ database'.envs = database.envs /\ database'.isolation = database.isolation
    BY <2>1 DEF NoFile
  <2>3. MigrationTypeOK' /\ NeverStuck'
    <3>1. database' \in Database
      BY <1>3, <2>1 DEF MigrationInv, MigrationTypeOK, Schema, Database
    <3> QED
      BY <1>1, <3>1, StepsOrder DEF MigrationInv, MigrationTypeOK, NeverStuck
  <2>4. RowsInOrder' /\ Lineage' /\ NumbersAreRight'
    BY <2>2, FS_EmptySet, MigrationAssumption DEF RowsInOrder, Lineage, NumbersAreRight
  <2>5. NothingLost'
    BY <1>1, <2>2 DEF MigrationInv, NothingLost
  <2>6. StepsBehind'
    BY <1>1, <2>2 DEF StepsBehind
  <2>7. Places' /\ IsolationOnce'
    BY <1>1, <2>2 DEF MigrationInv, Places, IsolationOnce, Bare
  <2> QED
    BY <2>3, <2>4, <2>5, <2>6, <2>7 DEF MigrationInv
<1> QED
  BY <1>2, <1>3

LEMMA AddColumnPreserves == MigrationInv /\ AddColumn => MigrationInv'
<1> SUFFICES ASSUME MigrationInv, AddColumn  PROVE MigrationInv'
  OBVIOUS
<1> USE DEF AllSteps, PastSchema, PastColumns, PastScope, PastEnvironments, PastSeq, PastText,
            PastIndex
<1> DEFINE missing == {i \in DOMAIN Columns : Columns[i] \notin database.columns}
<1>1. opening = "columns" /\ UNCHANGED <<origin, written>>
  BY DEF AddColumn, At, Same
<1>2. CASE missing = {}
  <2>1. UNCHANGED database /\ opening' = "scope"
    BY <1>1, <1>2, StepsOrder DEF AddColumn, Unless
  <2>2. database.columns = AllColumns
    BY <1>2 DEF AllColumns, MigrationInv, MigrationTypeOK, Database
  <2>3. StepsBehind'
    BY <1>1, <2>1, <2>2 DEF MigrationInv, StepsBehind
  <2> QED
    BY <1>1, <2>1, <2>3, OpeningMoves
<1>3. CASE missing # {}
  <2>1. missing \in SUBSET Nat
    BY DEF Columns
  <2>2. Columns[Min(missing)] \in AllColumns
    BY <1>3, <2>1, MinPicks DEF AllColumns
  <2>3. /\ database' = [database EXCEPT !.columns = @ \cup {Columns[Min(missing)]}]
        /\ opening' = "columns"
    BY <1>1, <1>3 DEF AddColumn
  <2> HIDE DEF missing
  <2>4. database \in Database
    BY DEF MigrationInv, MigrationTypeOK
  <2>5. MigrationTypeOK' /\ NeverStuck'
    <3>1. database' \in Database
      BY <2>2, <2>3, <2>4 DEF Database
    <3> QED
      BY <1>1, <2>3, <3>1, StepsOrder DEF MigrationInv, MigrationTypeOK, NeverStuck
  <2>6. /\ database'.rows = database.rows /\ database'.tables = database.tables
        /\ database'.place = database.place /\ database'.projects = database.projects
        /\ database'.envs = database.envs /\ database'.isolation = database.isolation
        /\ database'.shape = database.shape
    BY <2>3, <2>4 DEF Database
  <2>7. RowsInOrder' /\ Lineage' /\ NumbersAreRight' /\ NothingLost'
    BY <1>1, <2>3, <2>6, RowsUntouched
  <2>8. StepsBehind'
    BY <1>1, <2>3, <2>6 DEF MigrationInv, StepsBehind
  <2>9. Places' /\ IsolationOnce'
    BY <1>1, <2>3, <2>6 DEF MigrationInv, Places, IsolationOnce, Bare
  <2> QED
    BY <2>5, <2>7, <2>8, <2>9 DEF MigrationInv
<1> QED
  BY <1>2, <1>3

\* A table is rebuilt when the columns it needs are there, which they are.
LEMMA RebuildPreserves ==
    ASSUME MigrationInv, NEW pc \in {"scope", "types", "roles"}, NEW needs \in SUBSET AllColumns,
           Rebuild(pc, needs)
    PROVE  MigrationInv'
<1> USE DEF AllSteps, PastSchema, PastColumns, PastScope, PastEnvironments, PastSeq, PastText,
            PastIndex
<1>1. opening = pc /\ UNCHANGED <<origin, written>>
  BY DEF Rebuild, At, Same
<1>2. needs \subseteq database.columns
  BY <1>1 DEF MigrationInv, StepsBehind
<1>3. \/ pc = "scope" /\ opening' = "environments"
      \/ pc = "types" /\ opening' = "roles"
      \/ pc = "roles" /\ opening' = "index"
  BY <1>1, <1>2, StepsOrder DEF Rebuild, Unless
<1>4. CASE pc \in database.shape
  <2>1. UNCHANGED database
    BY <1>4 DEF Rebuild
  <2>2. StepsBehind'
    BY <1>1, <1>3, <1>4, <2>1 DEF MigrationInv, StepsBehind, Bare
  <2> QED
    BY <1>1, <1>3, <2>1, <2>2, OpeningMoves
<1>5. CASE pc \notin database.shape
  <2>1. database' = [database EXCEPT !.shape = @ \cup {pc}]
    BY <1>2, <1>5 DEF Rebuild
  <2>2. database \in Database
    BY DEF MigrationInv, MigrationTypeOK
  <2>3. MigrationTypeOK' /\ NeverStuck'
    <3>1. pc \in Rebuilt
      BY DEF Rebuilt
    <3>2. database' \in Database
      BY <2>1, <2>2, <3>1 DEF Database
    <3> QED
      BY <1>1, <1>3, <3>2, StepsOrder DEF MigrationInv, MigrationTypeOK, NeverStuck
  <2>4. /\ database'.rows = database.rows /\ database'.tables = database.tables
        /\ database'.place = database.place /\ database'.projects = database.projects
        /\ database'.envs = database.envs /\ database'.isolation = database.isolation
        /\ database'.shape = database.shape \cup {pc} /\ database'.index = database.index
        /\ database'.columns = database.columns
    BY <2>1, <2>2 DEF Database
  <2>5. RowsInOrder' /\ Lineage' /\ NumbersAreRight' /\ NothingLost'
    BY <1>1, <1>3, <2>4, RowsUntouched
  <2>6. StepsBehind'
    BY <1>1, <1>3, <2>4 DEF MigrationInv, StepsBehind, Bare
  <2>7. Places' /\ IsolationOnce'
    BY <1>1, <1>3, <2>4 DEF MigrationInv, Places, IsolationOnce, Bare
  <2> QED
    BY <2>3, <2>5, <2>6, <2>7 DEF MigrationInv
<1> QED
  BY <1>4, <1>5

LEMMA BackfillPreserves == MigrationInv /\ Backfill => MigrationInv'
<1> SUFFICES ASSUME MigrationInv, Backfill  PROVE MigrationInv'
  OBVIOUS
<1> USE DEF AllSteps, PastSchema, PastColumns, PastScope, PastEnvironments, PastSeq, PastText,
            PastIndex
<1>1. opening = "environments" /\ UNCHANGED <<origin, written>>
  BY DEF Backfill, At, Same
<1>2. /\ "scope" \in database.shape
      /\ AllColumns \ {"rolled_back_from", "seq"} \subseteq database.columns
  BY <1>1 DEF MigrationInv, StepsBehind
<1>3. CASE Bare = {}
  <2>1. UNCHANGED database /\ opening' = "seq"
    BY <1>1, <1>2, <1>3, StepsOrder DEF Backfill, Unless
  <2>2. StepsBehind'
    BY <1>1, <1>3, <2>1 DEF MigrationInv, StepsBehind, Bare
  <2>3. opening' \in PastSeq => opening \in PastSeq
    BY <2>1
  <2> QED
    BY <1>1, <2>1, <2>2, <2>3, OpeningMoves
<1>4. CASE Bare # {}
  <2>1. PICK p \in Bare :
            /\ database' = [database EXCEPT
                   !.envs = @ \cup ({p} \X Defaults),
                   !.place = [x \in Housed |->
                       IF HomeOf[x] = p /\ @[x] = "none" THEN "production" ELSE @[x]]]
            /\ opening' = "environments"
    BY <1>1, <1>2, <1>4 DEF Backfill
  <2>2. database \in Database
    BY DEF MigrationInv, MigrationTypeOK
  <2>3. p \in database.projects /\ p \in OldProjects
    BY <2>2 DEF Bare, Database
  <2>4. /\ database'.rows = database.rows /\ database'.tables = database.tables
        /\ database'.projects = database.projects /\ database'.index = database.index
        /\ database'.envs = database.envs \cup ({p} \X Defaults)
        /\ database'.isolation = database.isolation /\ database'.shape = database.shape
        /\ database'.columns = database.columns
        /\ database'.place = [x \in Housed |->
               IF HomeOf[x] = p /\ database.place[x] = "none" THEN "production"
               ELSE database.place[x]]
    BY <2>1, <2>2 DEF Database
  <2>5. MigrationTypeOK' /\ NeverStuck'
    <3>1. database'.place \in [Housed -> Defaults \cup {"absent", "none"}]
      BY <2>2, <2>4 DEF Database, Defaults
    <3>2. database'.envs \in SUBSET (OldProjects \X Defaults)
      BY <2>2, <2>3, <2>4 DEF Database
    <3>3. database' \in Database
      BY <2>1, <2>2, <2>4, <3>1, <3>2 DEF Database
    <3> QED
      BY <1>1, <2>1, <3>3, StepsOrder DEF MigrationInv, MigrationTypeOK, NeverStuck
  <2>6. RowsInOrder' /\ Lineage' /\ NumbersAreRight' /\ NothingLost'
    BY <1>1, <2>1, <2>4, RowsUntouched
  <2>7. StepsBehind'
    BY <1>1, <2>1, <2>4 DEF MigrationInv, StepsBehind
  <2>8. Places'
    <3> SUFFICES ASSUME NEW x \in Housed
                 PROVE  /\ database'.place[x] \in Defaults =>
                               <<HomeOf[x], database'.place[x]>> \in database'.envs
                        /\ database'.place[x] = "none" => HomeOf[x] \in Bare'
                        /\ origin.place[x] = "none" =>
                               database'.place[x] \in {"none", "production"}
                        /\ origin.place[x] \in Defaults => database'.place[x] = origin.place[x]
      BY <1>1 DEF Places
    <3>1. CASE HomeOf[x] = p /\ database.place[x] = "none"
      <4>1. database'.place[x] = "production" /\ "production" \in Defaults /\ "none" \notin Defaults
        BY <2>4, <3>1 DEF Defaults
      <4> QED
        BY <2>4, <3>1, <4>1 DEF MigrationInv, Places
    <3>2. CASE ~ (HomeOf[x] = p /\ database.place[x] = "none")
      <4>1. database'.place[x] = database.place[x]
        BY <2>4, <3>2
      <4>2. database.place[x] = "none" => HomeOf[x] \in Bare'
        BY <2>4, <3>2 DEF MigrationInv, Places, Bare
      <4> QED
        BY <2>4, <4>1, <4>2 DEF MigrationInv, Places
    <3> QED
      BY <3>1, <3>2
  <2>9. IsolationOnce'
    BY <1>1, <2>1, <2>4 DEF MigrationInv, IsolationOnce
  <2> QED
    BY <2>5, <2>6, <2>7, <2>8, <2>9 DEF MigrationInv
<1> QED
  BY <1>3, <1>4

\* The numbering gives every row its place: ids are in the order the rows were made as long
\* as they are numbers, and afterwards every row has its number.
LEMMA NumberPreserves == MigrationInv /\ Number => MigrationInv'
<1> SUFFICES ASSUME MigrationInv, Number  PROVE MigrationInv'
  OBVIOUS
<1> DEFINE rows    == database.rows
           place(r) == Cardinality(UpTo(rows, r))
           with(r)  == [r EXCEPT !.seq = place(r)]
<1>1. opening = "seq" /\ UNCHANGED <<origin, written>>
  BY DEF Number, At, Same
<1>2. /\ database.columns = AllColumns /\ database.tables /\ "scope" \in database.shape
      /\ Bare = {}
  BY <1>1 DEF MigrationInv, StepsBehind, PastSchema, PastColumns, PastScope, PastEnvironments,
     PastSeq, PastText, PastIndex
<1>3. opening' = "text"
  BY <1>1, <1>2, StepsOrder DEF Number, Unless, AllColumns, Columns
<1>4. database \in Database /\ rows \in SUBSET Row
  BY DEF MigrationInv, MigrationTypeOK, Database
<1>5. ASSUME NEW r \in rows
      PROVE  (IF r.seq # 0 THEN r.seq
              ELSE Cardinality({s.id : s \in {t \in rows : t.app = r.app /\ t.id <= r.id}}))
             = place(r)
  <2>1. CASE r.seq # 0
    BY <2>1 DEF MigrationInv, NumbersAreRight
  <2>2. CASE r.seq = 0
    <3>1. \A t \in rows : t.id = t.was
      BY <2>2 DEF MigrationInv, NumbersAreRight, RowsInOrder
    <3>2. {t \in rows : t.app = r.app /\ t.id <= r.id}
              = {t \in rows : t.app = r.app /\ t.was <= r.was}
      BY <3>1
    <3>3. {s.id : s \in {t \in rows : t.app = r.app /\ t.id <= r.id}} = UpTo(rows, r)
      BY <3>1, <3>2 DEF UpTo
    <3> QED
      BY <2>2, <3>3
  <2> QED
    BY <2>1, <2>2
<1>6. database' = [database EXCEPT !.rows = {with(r) : r \in rows}]
  <2>1. "seq" \in database.columns
    BY <1>2 DEF AllColumns, Columns
  <2>2. database' = [database EXCEPT !.rows =
            {[r EXCEPT !.seq = IF r.seq # 0 THEN r.seq
              ELSE Cardinality({s.id : s \in {t \in rows : t.app = r.app /\ t.id <= r.id}})]
             : r \in rows}]
    BY <2>1 DEF Number
  <2> HIDE DEF rows, place
  <2> QED
    BY <1>5, <2>2
<1>7. \A r \in rows : /\ with(r) \in Row /\ with(r).was = r.was /\ with(r).app = r.app
                      /\ with(r).id = r.id /\ with(r).from = r.from /\ with(r).back = r.back
                      /\ with(r).seq = place(r) /\ place(r) \in 1 .. MaxRows
  <2> SUFFICES ASSUME NEW r \in rows
               PROVE  /\ with(r) \in Row /\ with(r).was = r.was /\ with(r).app = r.app
                      /\ with(r).id = r.id /\ with(r).from = r.from /\ with(r).back = r.back
                      /\ with(r).seq = place(r) /\ place(r) \in 1 .. MaxRows
    OBVIOUS
  <2>1. place(r) \in 1 .. MaxRows
    BY <1>4, PlaceIsPositive
  <2> HIDE DEF place
  <2> QED
    BY <1>4, <2>1, MigrationAssumption DEF Row
<1>8. /\ database'.rows = {with(r) : r \in rows} /\ database'.tables = database.tables
      /\ database'.place = database.place /\ database'.projects = database.projects
      /\ database'.envs = database.envs /\ database'.isolation = database.isolation
      /\ database'.shape = database.shape /\ database'.index = database.index
      /\ database'.columns = database.columns
  <2> HIDE DEF with
  <2> QED
    BY <1>4, <1>6 DEF Database
<1> HIDE DEF with, place
<1>9. MigrationTypeOK' /\ NeverStuck'
  <2>1. {with(r) : r \in rows} \in SUBSET Row
    BY <1>7
  <2> HIDE DEF rows
  <2>2. database' \in Database
    BY <1>4, <1>6, <2>1 DEF Database
  <2> QED
    BY <1>1, <1>3, <2>2, StepsOrder
       DEF MigrationInv, MigrationTypeOK, NeverStuck, AllSteps, PastSchema, PastColumns, PastScope,
           PastEnvironments, PastSeq
<1>10. RowsInOrder'
  <2>1. IsFiniteSet(database'.rows) /\ Cardinality(database'.rows) = Cardinality(rows)
    <3> DEFINE f == [r \in rows |-> with(r)]
    <3>1. \A r, s \in rows : with(r) = with(s) => r = s
      BY <1>7 DEF MigrationInv, RowsInOrder
    <3>2. f \in Bijection(rows, database'.rows)
      BY <1>8, <3>1 DEF Bijection, Injection, Surjection, IsInjective
    <3> QED
      BY <3>2, FS_Bijection DEF ExistsBijection, MigrationInv, RowsInOrder
  <2>2. /\ \A r \in rows : r.was <= Cardinality(rows)
        /\ \A r, s \in rows : (r.was = s.was \/ r.id = s.id) => r = s
        /\ "text" \notin database.shape => \A r \in rows : r.id = r.was
        /\ Cardinality(rows) <= MaxRows
    BY DEF MigrationInv, RowsInOrder
  <2>3. \A r \in rows : with(r).was <= Cardinality(rows)
    BY <1>7, <2>2
  <2>4. \A r, s \in rows : (with(r).was = with(s).was \/ with(r).id = with(s).id) => r = s
    BY <1>7, <2>2
  <2>5. "text" \notin database.shape => \A r \in rows : with(r).id = with(r).was
    BY <1>7, <2>2
  <2>6. \A x \in database'.rows : \E r \in rows : x = with(r)
    BY <1>8
  <2> HIDE DEF rows
  <2>7. \A x \in database'.rows : x.was <= Cardinality(database'.rows)
    BY <2>1, <2>3, <2>6
  <2>8. \A x, y \in database'.rows : (x.was = y.was \/ x.id = y.id) => x = y
    BY <2>4, <2>6
  <2>9. "text" \notin database'.shape => \A x \in database'.rows : x.id = x.was
    BY <1>8, <2>5, <2>6
  <2> QED
    BY <2>1, <2>2, <2>7, <2>8, <2>9 DEF RowsInOrder
<1>11. Lineage'
  <2> SUFFICES ASSUME NEW r \in rows
               PROVE  IF r.back = 0 THEN r.from = 0
                      ELSE \E s \in rows : with(s).was = r.back /\ with(s).id = r.from
    BY <1>7, <1>8 DEF Lineage
  <2> QED
    BY <1>7 DEF MigrationInv, Lineage
<1>12. NumbersAreRight'
  <2>1. ASSUME NEW r \in rows  PROVE UpTo(database'.rows, with(r)) = UpTo(rows, r)
    <3>1. \A x : x \in UpTo(rows, r) <=>
                     \E s \in rows : s.app = r.app /\ s.was <= r.was /\ x = s.was
      BY DEF UpTo
    <3>2. \A x : x \in UpTo(database'.rows, with(r)) <=>
                     \E s \in database'.rows : /\ s.app = with(r).app /\ s.was <= with(r).was
                                               /\ x = s.was
      BY DEF UpTo
    <3>3. \A x : x \in UpTo(database'.rows, with(r)) <=>
                     \E s \in rows : /\ with(s).app = with(r).app /\ with(s).was <= with(r).was
                                     /\ x = with(s).was
      <4> HIDE DEF rows
      <4> QED
        BY <1>8, <3>2
    <3>4. \A x : x \in UpTo(database'.rows, with(r)) <=> x \in UpTo(rows, r)
      BY <1>7, <3>1, <3>3
    <3> QED
      BY <3>4
  <2>2. \A r \in rows : with(r).seq = Cardinality(UpTo(database'.rows, with(r)))
    BY <1>7, <2>1 DEF place
  <2>3. \A r \in rows : with(r).seq # 0
    BY <1>7, MigrationAssumption
  <2> QED
    BY <1>8, <2>2, <2>3 DEF NumbersAreRight
<1>13. StepsBehind'
  BY <1>2, <1>3, <1>8 DEF StepsBehind, PastSchema, PastColumns, PastScope, PastEnvironments,
     PastSeq, PastText, PastIndex, Bare
<1>14. Places' /\ IsolationOnce'
  BY <1>1, <1>3, <1>8 DEF MigrationInv, Places, IsolationOnce, Bare
<1>15. NothingLost'
  <2>1. \A r \in rows : Identity(with(r)) = Identity(r)
    BY <1>7 DEF Identity
  <2>2. {Identity(r) : r \in database'.rows} = {Identity(with(r)) : r \in rows}
    BY <1>8
  <2> QED
    BY <1>1, <2>1, <2>2 DEF MigrationInv, NothingLost
<1> QED
  BY <1>9, <1>10, <1>11, <1>12, <1>13, <1>14, <1>15 DEF MigrationInv

\* New ids are as different from one another as the old ones were, and lineages follow them.
LEMMA TextIdsPreserves == MigrationInv /\ TextIds => MigrationInv'
<1> SUFFICES ASSUME MigrationInv, TextIds  PROVE MigrationInv'
  OBVIOUS
<1> DEFINE rows == database.rows
           ids  == {r.id : r \in rows}
<1>1. opening = "text" /\ UNCHANGED <<origin, written>>
  BY DEF TextIds, At, Same
<1>2. /\ database.columns = AllColumns /\ database.tables /\ "scope" \in database.shape
      /\ Bare = {}
  BY <1>1 DEF MigrationInv, StepsBehind, PastSchema, PastColumns, PastScope, PastEnvironments,
     PastSeq, PastText, PastIndex
<1>3. {"seq", "rolled_back_from"} \subseteq database.columns
  BY <1>2 DEF AllColumns, Columns
<1>4. opening' = "types"
  BY <1>1, <1>3, StepsOrder DEF TextIds, Unless
<1>5. database \in Database /\ rows \in SUBSET Row
  BY DEF MigrationInv, MigrationTypeOK, Database
<1>6. CASE "text" \in database.shape
  <2>1. UNCHANGED database
    BY <1>6 DEF TextIds
  <2>2. StepsBehind'
    BY <1>2, <1>4, <1>6, <2>1 DEF StepsBehind, PastSchema, PastColumns, PastScope,
       PastEnvironments, PastSeq, PastText, PastIndex, Bare
  <2>3. opening' \in AllSteps /\ opening \in PastSeq
    BY <1>1, <1>4 DEF AllSteps, PastSchema, PastColumns, PastScope, PastEnvironments, PastSeq,
       PastText
  <2> QED
    BY <1>1, <1>4, <2>1, <2>2, <2>3, OpeningMoves
<1>7. CASE "text" \notin database.shape
  <2>1. PICK new \in NewIds(ids) :
            database' = [database EXCEPT
                !.shape = @ \cup {"text"}, !.index = FALSE,
                !.rows = {[r EXCEPT !.id = new[@],
                                    !.from = IF @ \in DOMAIN new THEN new[@] ELSE 0]
                          : r \in rows}]
    BY <1>3, <1>7 DEF TextIds
  <2> DEFINE with(r) == [r EXCEPT !.id = new[r.id],
                                  !.from = IF r.from \in ids THEN new[r.from] ELSE 0]
  <2>2. ids \in SUBSET (1 .. MaxRows) /\ Cardinality(ids) <= MaxRows /\ Cardinality(ids) \in Nat
    <3>1. ids \in SUBSET (1 .. MaxRows)
      BY <1>5 DEF Row
    <3>2. IsFiniteSet(1 .. MaxRows) /\ Cardinality(1 .. MaxRows) = MaxRows
      BY FS_Interval, MigrationAssumption
    <3> HIDE DEF ids
    <3> QED
      BY <3>1, <3>2, FS_Subset, FS_CardinalityType
  <2>3. /\ DOMAIN new = ids /\ \A i \in ids : new[i] \in 1 .. MaxRows
        /\ \A i, j \in ids : new[i] = new[j] => i = j
    <3> HIDE DEF ids
    <3> QED
      BY <2>1, <2>2, MigrationAssumption DEF NewIds
  <2>4. \A r \in rows : /\ with(r) \in Row /\ with(r).was = r.was /\ with(r).app = r.app
                        /\ with(r).seq = r.seq /\ with(r).back = r.back
                        /\ with(r).id = new[r.id] /\ r.id \in ids
                        /\ with(r).from = IF r.from \in ids THEN new[r.from] ELSE 0
    <3> SUFFICES ASSUME NEW r \in rows
                 PROVE  /\ with(r) \in Row /\ with(r).was = r.was /\ with(r).app = r.app
                        /\ with(r).seq = r.seq /\ with(r).back = r.back
                        /\ with(r).id = new[r.id] /\ r.id \in ids
                        /\ with(r).from = IF r.from \in ids THEN new[r.from] ELSE 0
      OBVIOUS
    <3>1. r \in Row /\ r.id \in ids
      BY <1>5
    <3>2. new[r.id] \in 1 .. MaxRows
      BY <2>3, <3>1
    <3>3. (IF r.from \in ids THEN new[r.from] ELSE 0) \in 0 .. MaxRows
      BY <2>3, MigrationAssumption
    <3> HIDE DEF ids
    <3> QED
      BY <3>1, <3>2, <3>3, MigrationAssumption DEF Row
  <2>5. database' = [database EXCEPT !.shape = @ \cup {"text"}, !.index = FALSE,
                                     !.rows = {with(r) : r \in rows}]
    <3> HIDE DEF rows, ids
    <3> QED
      BY <2>1, <2>3
  <2>6. /\ database'.rows = {with(r) : r \in rows} /\ database'.tables = database.tables
        /\ database'.place = database.place /\ database'.projects = database.projects
        /\ database'.envs = database.envs /\ database'.isolation = database.isolation
        /\ database'.shape = database.shape \cup {"text"}
        /\ database'.columns = database.columns
    <3> HIDE DEF with, rows
    <3> QED
      BY <1>5, <2>5 DEF Database
  <2> HIDE DEF with
  <2>7. MigrationTypeOK' /\ NeverStuck'
    <3>1. {with(r) : r \in rows} \in SUBSET Row
      BY <2>4
    <3> HIDE DEF rows
    <3>2. database' \in Database
      BY <1>5, <2>5, <3>1 DEF Database, Rebuilt
    <3> QED
      BY <1>1, <1>4, <3>2, StepsOrder
         DEF MigrationInv, MigrationTypeOK, NeverStuck, AllSteps, PastSchema, PastColumns,
             PastScope, PastEnvironments, PastSeq, PastText
  <2>8. RowsInOrder'
    <3>1. /\ \A r \in rows : r.was <= Cardinality(rows)
          /\ \A r, s \in rows : (r.was = s.was \/ r.id = s.id) => r = s
          /\ IsFiniteSet(rows) /\ Cardinality(rows) <= MaxRows
      BY DEF MigrationInv, RowsInOrder
    <3>2. \A r, s \in rows : (with(r).was = with(s).was \/ with(r).id = with(s).id) => r = s
      BY <2>3, <2>4, <3>1
    <3>3. IsFiniteSet(database'.rows) /\ Cardinality(database'.rows) = Cardinality(rows)
      <4> DEFINE f == [r \in rows |-> with(r)]
      <4>1. f \in Bijection(rows, database'.rows)
        BY <2>6, <3>2 DEF Bijection, Injection, Surjection, IsInjective
      <4> QED
        BY <3>1, <4>1, FS_Bijection DEF ExistsBijection
    <3>4. \A r \in rows : with(r).was <= Cardinality(rows)
      BY <2>4, <3>1
    <3>5. \A x \in database'.rows : \E r \in rows : x = with(r)
      BY <2>6
    <3> HIDE DEF rows
    <3>6. \A x \in database'.rows : x.was <= Cardinality(database'.rows)
      BY <3>3, <3>4, <3>5
    <3>7. \A x, y \in database'.rows : (x.was = y.was \/ x.id = y.id) => x = y
      BY <3>2, <3>5
    <3> QED
      BY <2>6, <3>1, <3>3, <3>6, <3>7 DEF RowsInOrder
  <2>9. Lineage'
    <3>1. ASSUME NEW r \in rows
          PROVE  IF r.back = 0 THEN with(r).from = 0
                 ELSE \E s \in rows : with(s).was = r.back /\ with(s).id = with(r).from
      <4>1. CASE r.back = 0
        <5>1. r.from = 0 /\ 0 \notin ids
          BY <2>2, <4>1 DEF MigrationInv, Lineage
        <5> QED
          BY <2>4, <4>1, <5>1
      <4>2. CASE r.back # 0
        <5>1. PICK s \in rows : s.was = r.back /\ s.id = r.from
          BY <4>2 DEF MigrationInv, Lineage
        <5>2. r.from \in ids
          BY <5>1
        <5>3. with(s).was = r.back /\ with(s).id = with(r).from
          BY <2>4, <5>1, <5>2
        <5> QED
          BY <4>2, <5>3
      <4> QED
        BY <4>1, <4>2
    <3>2. \A r \in rows : with(r).back = r.back
      BY <2>4
    <3> HIDE DEF rows
    <3> QED
      BY <2>6, <3>1, <3>2 DEF Lineage
  <2>10. NumbersAreRight'
    <3>1. ASSUME NEW r \in rows  PROVE UpTo(database'.rows, with(r)) = UpTo(rows, r)
      <4>1. \A x : x \in UpTo(rows, r) <=>
                       \E s \in rows : s.app = r.app /\ s.was <= r.was /\ x = s.was
        BY DEF UpTo
      <4>2. \A x : x \in UpTo(database'.rows, with(r)) <=>
                       \E s \in database'.rows : /\ s.app = with(r).app /\ s.was <= with(r).was
                                                 /\ x = s.was
        BY DEF UpTo
      <4>3. \A x : x \in UpTo(database'.rows, with(r)) <=>
                       \E s \in rows : /\ with(s).app = with(r).app /\ with(s).was <= with(r).was
                                       /\ x = with(s).was
        <5> HIDE DEF rows
        <5> QED
          BY <2>6, <4>2
      <4>4. \A x : x \in UpTo(database'.rows, with(r)) <=> x \in UpTo(rows, r)
        BY <2>4, <4>1, <4>3
      <4> QED
        BY <4>4
    <3>2. \A r \in rows : r.seq # 0 /\ r.seq = Cardinality(UpTo(rows, r))
      BY <1>1 DEF MigrationInv, NumbersAreRight, PastSeq
    <3>3. \A r \in rows : /\ with(r).seq = Cardinality(UpTo(database'.rows, with(r)))
                          /\ with(r).seq # 0
      BY <2>4, <3>1, <3>2
    <3> HIDE DEF rows
    <3> QED
      BY <2>6, <3>3 DEF NumbersAreRight
  <2>11. StepsBehind'
    BY <1>2, <1>4, <2>6 DEF StepsBehind, PastSchema, PastColumns, PastScope, PastEnvironments,
       PastSeq, PastText, PastIndex, Bare
  <2>12. Places' /\ IsolationOnce'
    BY <1>1, <1>4, <2>6 DEF MigrationInv, Places, IsolationOnce, Bare
  <2>13. NothingLost'
    <3>1. \A r \in rows : Identity(with(r)) = Identity(r)
      BY <2>4 DEF Identity
    <3>2. {Identity(r) : r \in database'.rows} = {Identity(with(r)) : r \in rows}
      BY <2>6
    <3> QED
      BY <1>1, <3>1, <3>2 DEF MigrationInv, NothingLost
  <2> QED
    BY <2>7, <2>8, <2>9, <2>10, <2>11, <2>12, <2>13 DEF MigrationInv
<1> QED
  BY <1>6, <1>7

\* The unique index finds no two deployments of an app with one number.
LEMMA IndexPreserves == MigrationInv /\ Index => MigrationInv'
<1> SUFFICES ASSUME MigrationInv, Index  PROVE MigrationInv'
  OBVIOUS
<1> USE DEF AllSteps, PastSchema, PastColumns, PastScope, PastEnvironments, PastSeq, PastText,
            PastIndex
<1>1. opening = "index" /\ UNCHANGED <<origin, written>>
  BY DEF Index, At, Same
<1>2. database \in Database /\ database.rows \in SUBSET Row
  BY DEF MigrationInv, MigrationTypeOK, Database
<1>3. "seq" \in database.columns
  BY <1>1 DEF MigrationInv, StepsBehind, AllColumns, Columns
<1>4. ASSUME NEW r \in database.rows, NEW s \in database.rows, r.app = s.app, r.seq = s.seq
      PROVE  r = s
  <2>1. /\ r.seq = Cardinality(UpTo(database.rows, r))
        /\ s.seq = Cardinality(UpTo(database.rows, s))
    BY <1>1 DEF MigrationInv, NumbersAreRight
  <2>2. r.seq \in Nat /\ s.seq \in Nat
    BY <1>2, MigrationAssumption DEF Row
  <2>3. r.was < s.was => r.seq < s.seq
    BY <1>2, <1>4, <2>1, LaterIsFurther
  <2>4. s.was < r.was => s.seq < r.seq
    BY <1>2, <1>4, <2>1, LaterIsFurther
  <2>5. r.was = s.was
    BY <1>2, <1>4, <2>2, <2>3, <2>4 DEF Row
  <2> QED
    BY <2>5 DEF MigrationInv, RowsInOrder
<1>5. opening' = "isolation" /\ database' = [database EXCEPT !.index = TRUE]
  <2>1. \A r, s \in database.rows : r.app = s.app /\ r.seq = s.seq => r = s
    BY <1>4
  <2>2. opening' = After("index")
    BY <1>1, <1>3, <2>1 DEF Index, Unless
  <2>3. database' = [database EXCEPT !.index = TRUE]
    BY <1>3, <2>1 DEF Index
  <2> QED
    BY <2>2, <2>3, StepsOrder
<1>6. MigrationTypeOK' /\ NeverStuck'
  <2>1. database' \in Database
    BY <1>2, <1>5 DEF Database
  <2> QED
    BY <1>1, <1>5, <2>1, StepsOrder DEF MigrationInv, MigrationTypeOK, NeverStuck
<1>7. /\ database'.rows = database.rows /\ database'.tables = database.tables
      /\ database'.place = database.place /\ database'.projects = database.projects
      /\ database'.envs = database.envs /\ database'.isolation = database.isolation
      /\ database'.shape = database.shape /\ database'.columns = database.columns
      /\ database'.index = TRUE
  BY <1>2, <1>5 DEF Database
<1>8. RowsInOrder' /\ Lineage' /\ NumbersAreRight' /\ NothingLost'
  BY <1>1, <1>5, <1>7, RowsUntouched
<1>9. StepsBehind'
  BY <1>1, <1>5, <1>7 DEF MigrationInv, StepsBehind, Bare
<1>10. Places' /\ IsolationOnce'
  BY <1>1, <1>5, <1>7 DEF MigrationInv, Places, IsolationOnce, Bare
<1> QED
  BY <1>6, <1>8, <1>9, <1>10 DEF MigrationInv

LEMMA IsolationPreserves == MigrationInv /\ Isolation => MigrationInv'
<1> SUFFICES ASSUME MigrationInv, Isolation  PROVE MigrationInv'
  OBVIOUS
<1> USE DEF AllSteps, PastSchema, PastColumns, PastScope, PastEnvironments, PastSeq, PastText,
            PastIndex
<1>1. opening = "isolation" /\ opening' = "open" /\ UNCHANGED <<origin, written>>
  BY StepsOrder DEF Isolation, At, Unless, Same
<1>2. database \in Database
  BY DEF MigrationInv, MigrationTypeOK
<1>3. CASE database.isolation # "none"
  <2>1. UNCHANGED database
    BY <1>3 DEF Isolation
  <2>2. StepsBehind'
    BY <1>1, <2>1 DEF MigrationInv, StepsBehind, Bare
  <2> QED
    BY <1>1, <1>3, <2>1, <2>2, OpeningMoves
<1>4. CASE database.isolation = "none"
  <2>1. database' = [database EXCEPT !.isolation =
                         IF database.projects = {} THEN "on" ELSE "off"]
    BY <1>4 DEF Isolation
  <2>2. MigrationTypeOK' /\ NeverStuck'
    <3>1. database' \in Database
      BY <1>2, <2>1 DEF Database
    <3> QED
      BY <1>1, <3>1, StepsOrder DEF MigrationInv, MigrationTypeOK, NeverStuck
  <2>3. /\ database'.rows = database.rows /\ database'.tables = database.tables
        /\ database'.place = database.place /\ database'.projects = database.projects
        /\ database'.envs = database.envs /\ database'.shape = database.shape
        /\ database'.columns = database.columns /\ database'.index = database.index
        /\ database'.isolation = IF database.projects = {} THEN "on" ELSE "off"
    BY <1>2, <2>1 DEF Database
  <2>4. RowsInOrder' /\ Lineage' /\ NumbersAreRight' /\ NothingLost'
    BY <1>1, <2>3, RowsUntouched
  <2>5. StepsBehind'
    BY <1>1, <2>3 DEF MigrationInv, StepsBehind, Bare
  <2>6. Places'
    BY <1>1, <2>3 DEF MigrationInv, Places, Bare
  <2>7. IsolationOnce'
    BY <1>1, <1>4, <2>3 DEF MigrationInv, IsolationOnce
  <2> QED
    BY <2>2, <2>4, <2>5, <2>6, <2>7 DEF MigrationInv
<1> QED
  BY <1>3, <1>4

--------------------------------
\* What the server does while it is open preserves the invariant too.

\* While the server is open no app or addon is without an environment.
LEMMA OpenMeans ==
    ASSUME MigrationInv, opening = "open"
    PROVE  /\ Bare = {} /\ \A x \in Housed : database.place[x] # "none"
           /\ database.tables /\ database.columns = AllColumns /\ "scope" \in database.shape
           /\ "text" \in database.shape /\ database.index /\ database.isolation # "none"
           /\ \A r \in database.rows : r.seq # 0
           /\ database \in Database /\ database.rows \in SUBSET Row
<1> USE DEF PastSchema, PastColumns, PastScope, PastEnvironments, PastSeq, PastText, PastIndex
<1>1. /\ Bare = {} /\ database.tables /\ database.columns = AllColumns
      /\ "scope" \in database.shape /\ "text" \in database.shape /\ database.index
  BY DEF MigrationInv, StepsBehind
<1>2. \A x \in Housed : database.place[x] # "none"
  BY <1>1 DEF MigrationInv, Places
<1>3. database.isolation # "none"
  BY DEF MigrationInv, IsolationOnce
<1>4. \A r \in database.rows : r.seq # 0
  BY DEF MigrationInv, NumbersAreRight
<1>5. database \in Database /\ database.rows \in SUBSET Row
  BY DEF MigrationInv, MigrationTypeOK, Database
<1> QED
  BY <1>1, <1>2, <1>3, <1>4, <1>5

LEMMA ProjectMadePreserves == MigrationInv /\ ProjectMade => MigrationInv'
<1> SUFFICES ASSUME MigrationInv, ProjectMade  PROVE MigrationInv'
  OBVIOUS
<1> USE DEF AllSteps, PastSchema, PastColumns, PastScope, PastEnvironments, PastSeq, PastText,
            PastIndex
<1>1. PICK p \in OldProjects \ database.projects, seeded \in BOOLEAN :
          /\ database' = [database EXCEPT !.projects = @ \cup {p},
                              !.envs = IF seeded THEN @ \cup ({p} \X Defaults) ELSE @]
          /\ opening' = IF seeded THEN opening ELSE "closed"
  BY DEF ProjectMade
<1>2. opening = "open" /\ UNCHANGED <<origin, written>>
  BY DEF ProjectMade, At, Same
<1>3. /\ Bare = {} /\ \A x \in Housed : database.place[x] # "none"
      /\ database.tables /\ database.columns = AllColumns /\ "scope" \in database.shape
      /\ "text" \in database.shape /\ database.index /\ database.isolation # "none"
      /\ database \in Database
  BY <1>2, OpenMeans
<1>4. /\ database'.rows = database.rows /\ database'.tables = database.tables
      /\ database'.place = database.place /\ database'.isolation = database.isolation
      /\ database'.shape = database.shape /\ database'.columns = database.columns
      /\ database'.index = database.index /\ database'.projects = database.projects \cup {p}
      /\ database'.envs = IF seeded THEN database.envs \cup ({p} \X Defaults) ELSE database.envs
  BY <1>1, <1>3 DEF Database
<1>5. MigrationTypeOK' /\ NeverStuck'
  <2>1. database'.envs \in SUBSET (OldProjects \X Defaults)
    BY <1>3, <1>4 DEF Database
  <2>2. database' = [database EXCEPT !.projects = database'.projects, !.envs = database'.envs]
    BY <1>1, <1>4
  <2>3. database' \in Database
    BY <1>3, <1>4, <2>1, <2>2 DEF Database
  <2> QED
    BY <1>1, <1>2, <2>3, StepsOrder DEF MigrationInv, MigrationTypeOK, NeverStuck
<1>6. RowsInOrder' /\ Lineage' /\ NumbersAreRight' /\ NothingLost'
  BY <1>1, <1>2, <1>4, RowsUntouched
<1>7. seeded => Bare' = {}
  <2>1. "production" \in Defaults
    BY DEF Defaults
  <2>2. seeded => <<p, "production">> \in database'.envs
    BY <1>4, <2>1
  <2> QED
    BY <1>3, <1>4, <2>2 DEF Bare
<1>8. StepsBehind'
  BY <1>1, <1>2, <1>3, <1>4, <1>7 DEF StepsBehind
<1>9. Places'
  BY <1>2, <1>3, <1>4 DEF MigrationInv, Places
<1>10. IsolationOnce'
  BY <1>2, <1>3, <1>4 DEF MigrationInv, IsolationOnce
<1> QED
  BY <1>5, <1>6, <1>8, <1>9, <1>10 DEF MigrationInv

LEMMA AppMadePreserves == MigrationInv /\ AppMade => MigrationInv'
<1> SUFFICES ASSUME MigrationInv, AppMade  PROVE MigrationInv'
  OBVIOUS
<1> USE DEF AllSteps, PastSchema, PastColumns, PastScope, PastEnvironments, PastSeq, PastText,
            PastIndex
<1>1. PICK x \in Housed, e \in Defaults :
          /\ database.place[x] = "absent" /\ <<HomeOf[x], e>> \in database.envs
          /\ database' = [database EXCEPT !.place[x] = e]
  BY DEF AppMade
<1>2. opening = "open" /\ opening' = "open" /\ UNCHANGED <<origin, written>>
  BY DEF AppMade, At, Same
<1>3. /\ Bare = {} /\ \A y \in Housed : database.place[y] # "none"
      /\ database.tables /\ database.columns = AllColumns /\ "scope" \in database.shape
      /\ "text" \in database.shape /\ database.index /\ database.isolation # "none"
      /\ database \in Database
  BY <1>2, OpenMeans
<1>4. /\ database'.rows = database.rows /\ database'.tables = database.tables
      /\ database'.envs = database.envs /\ database'.isolation = database.isolation
      /\ database'.shape = database.shape /\ database'.columns = database.columns
      /\ database'.index = database.index /\ database'.projects = database.projects
      /\ database'.place = [database.place EXCEPT ![x] = e]
  BY <1>1, <1>3 DEF Database
<1>5. database'.place \in [Housed -> Defaults \cup {"absent", "none"}]
  BY <1>3, <1>4 DEF Database
<1>6. MigrationTypeOK' /\ NeverStuck'
  <2>1. database' \in Database
    BY <1>1, <1>3, <1>4, <1>5 DEF Database
  <2> QED
    BY <1>2, <2>1 DEF MigrationInv, MigrationTypeOK, NeverStuck
<1>7. RowsInOrder' /\ Lineage' /\ NumbersAreRight' /\ NothingLost'
  BY <1>2, <1>4, RowsUntouched
<1>8. StepsBehind'
  BY <1>2, <1>3, <1>4 DEF StepsBehind, Bare
<1>9. Places'
  <2>1. database'.place[x] = e /\ \A y \in Housed : y # x => database'.place[y] = database.place[y]
    BY <1>3, <1>4 DEF Database
  <2>2. origin.place[x] \notin Defaults \cup {"none"}
    BY <1>1 DEF MigrationInv, Places, Defaults
  <2>3. e # "none"
    BY DEF Defaults
  <2> QED
    BY <1>1, <1>2, <1>3, <1>4, <2>1, <2>2, <2>3 DEF MigrationInv, Places
<1>10. IsolationOnce'
  BY <1>2, <1>3, <1>4 DEF MigrationInv, IsolationOnce
<1> QED
  BY <1>6, <1>7, <1>8, <1>9, <1>10 DEF MigrationInv

\* The greatest number of an app's deployments is how many it has.
LEMMA GreatestIsCount ==
    ASSUME NEW rows \in SUBSET Row, NEW a \in OldApps,
           \A r \in rows : r.seq = Cardinality(UpTo(rows, r))
    PROVE  LET those == {t \in rows : t.app = a} IN
           Max({s.seq : s \in those} \cup {0}) = Cardinality({s.was : s \in those})
<1> DEFINE those == {t \in rows : t.app = a}
           W     == {s.was : s \in those}
           S     == {s.seq : s \in those} \cup {0}
<1>1. W \in SUBSET (1 .. MaxRows) /\ S \in SUBSET (0 .. MaxRows)
  BY MigrationAssumption DEF Row
<1>2. IsFiniteSet(W) /\ Cardinality(W) \in Nat
  <2>1. IsFiniteSet(1 .. MaxRows)
    BY FS_Interval, MigrationAssumption
  <2> HIDE DEF W
  <2> QED
    BY <1>1, <2>1, FS_Subset, FS_CardinalityType
<1>3. Max(S) \in S /\ \A m \in S : m <= Max(S)
  <2>1. S \in SUBSET Nat /\ S # {} /\ \A m \in S : m <= MaxRows
    BY <1>1, MigrationAssumption
  <2> HIDE DEF S
  <2> QED
    BY <2>1, MaxPicks, MigrationAssumption
<1>4. \A s \in those : s.seq <= Cardinality(W)
  <2> SUFFICES ASSUME NEW s \in those  PROVE s.seq <= Cardinality(W)
    OBVIOUS
  <2>1. UpTo(rows, s) \subseteq W
    BY DEF UpTo
  <2> HIDE DEF W
  <2> QED
    BY <1>2, <2>1, FS_Subset
<1>5. CASE W = {}
  <2>1. S = {0}
    BY <1>5
  <2>2. Cardinality(W) = 0
    BY <1>5, FS_EmptySet
  <2> HIDE DEF S, W
  <2> QED
    BY <1>3, <2>1, <2>2 DEF S, W
<1>6. CASE W # {}
  <2>1. Max(W) \in W /\ \A m \in W : m <= Max(W)
    <3>1. W \in SUBSET Nat /\ \A m \in W : m <= MaxRows
      BY <1>1, MigrationAssumption
    <3> HIDE DEF W
    <3> QED
      BY <1>6, <3>1, MaxPicks, MigrationAssumption
  <2>2. PICK s \in those : s.was = Max(W)
    BY <2>1
  <2>3. UpTo(rows, s) = W
    <3>1. \A t \in those : t.was <= s.was
      BY <2>1, <2>2
    <3> QED
      BY <3>1 DEF UpTo
  <2>4. s.seq = Cardinality(W) /\ s.seq \in S
    BY <2>3
  <2>5. \A m \in S : m <= Cardinality(W)
    BY <1>2, <1>4
  <2>6. Max(S) \in Nat
    BY <1>1, <1>3, MigrationAssumption
  <2> HIDE DEF S, W, those
  <2>7. Max(S) = Cardinality(W)
    BY <1>2, <1>3, <2>4, <2>5, <2>6
  <2> QED
    BY <2>7 DEF S, W, those
<1> QED
  BY <1>5, <1>6

LEMMA DeployedPreserves == MigrationInv /\ Deployed => MigrationInv'
<1> SUFFICES ASSUME MigrationInv, Deployed  PROVE MigrationInv'
  OBVIOUS
<1> USE DEF AllSteps, PastSchema, PastColumns, PastScope, PastEnvironments, PastSeq, PastText,
            PastIndex
<1> DEFINE rows == database.rows
           n    == Cardinality(rows)
<1>1. PICK a \in OldApps, id \in (1 .. MaxRows) \ {r.id : r \in rows} :
          LET r == [was |-> n + 1, app |-> a, id |-> id,
                    seq |-> Max({s.seq : s \in {t \in rows : t.app = a}} \cup {0}) + 1,
                    from |-> 0, back |-> 0]
          IN  /\ database' = [database EXCEPT !.rows = @ \cup {r}]
              /\ written' = written \cup {Identity(r)}
  BY DEF Deployed
<1> DEFINE W   == {s.was : s \in {t \in rows : t.app = a}}
           new == [was |-> n + 1, app |-> a, id |-> id, seq |-> Cardinality(W) + 1,
                   from |-> 0, back |-> 0]
<1>2. opening = "open" /\ opening' = "open" /\ UNCHANGED origin /\ n < MaxRows
  BY DEF Deployed, At
<1>3. /\ Bare = {} /\ \A y \in Housed : database.place[y] # "none"
      /\ database.tables /\ database.columns = AllColumns /\ "scope" \in database.shape
      /\ "text" \in database.shape /\ database.index /\ database.isolation # "none"
      /\ \A r \in rows : r.seq # 0 /\ database \in Database /\ rows \in SUBSET Row
  BY <1>2, OpenMeans
<1>4. \A r \in rows : r.seq = Cardinality(UpTo(rows, r))
  BY <1>3 DEF MigrationInv, NumbersAreRight
<1>5. /\ IsFiniteSet(rows) /\ n \in Nat /\ \A r \in rows : r.was <= n
      /\ \A r, s \in rows : (r.was = s.was \/ r.id = s.id) => r = s
  <2>1. IsFiniteSet(rows)
    BY DEF MigrationInv, RowsInOrder
  <2>2. n \in Nat
    BY <2>1, FS_CardinalityType
  <2> QED
    BY <2>1, <2>2 DEF MigrationInv, RowsInOrder
<1>6. /\ database' = [database EXCEPT !.rows = rows \cup {new}]
      /\ written' = written \cup {Identity(new)}
  <2>1. Max({s.seq : s \in {t \in rows : t.app = a}} \cup {0}) = Cardinality(W)
    <3>1. rows \in SUBSET Row
      BY DEF MigrationInv, MigrationTypeOK, Database
    <3> QED
      BY <1>4, <3>1, GreatestIsCount
  <2> HIDE DEF W
  <2> QED
    BY <1>1, <2>1
<1>7. rows \in SUBSET Row /\ database \in Database
  BY DEF MigrationInv, MigrationTypeOK, Database
<1>8. IsFiniteSet(W) /\ Cardinality(W) \in Nat /\ Cardinality(W) <= n /\ n + 1 \notin W
  <2>1. W \in SUBSET (1 .. n) /\ n + 1 \notin W
    BY <1>5, <1>7 DEF Row
  <2>2. IsFiniteSet(1 .. n) /\ Cardinality(1 .. n) = n
    BY <1>5, FS_Interval
  <2> HIDE DEF W, n
  <2> QED
    BY <2>1, <2>2, FS_Subset, FS_CardinalityType
<1> HIDE DEF W
<1>9. new \in Row /\ new \notin rows
  BY <1>2, <1>5, <1>8, MigrationAssumption DEF Row
<1>10. /\ database'.rows = rows \cup {new} /\ database'.tables = database.tables
       /\ database'.envs = database.envs /\ database'.isolation = database.isolation
       /\ database'.shape = database.shape /\ database'.columns = database.columns
       /\ database'.index = database.index /\ database'.projects = database.projects
       /\ database'.place = database.place
  <2> HIDE DEF new
  <2> QED
    BY <1>6, <1>7 DEF Database
<1>11. MigrationTypeOK' /\ NeverStuck'
  <2> HIDE DEF new, rows
  <2>1. database' \in Database
    BY <1>6, <1>7, <1>9 DEF Database
  <2> QED
    BY <1>2, <2>1 DEF MigrationInv, MigrationTypeOK, NeverStuck
<1>12. RowsInOrder'
  <2>1. IsFiniteSet(rows \cup {new}) /\ Cardinality(rows \cup {new}) = n + 1
    BY <1>5, <1>9, FS_AddElement
  <2>2. \A r \in rows \cup {new} : r.was <= n + 1
    BY <1>5, <1>7 DEF Row
  <2>3. \A r \in rows : r.was # new.was /\ r.id # new.id
    BY <1>5, <1>7 DEF Row
  <2> HIDE DEF new, rows, n
  <2>4. \A r, s \in rows \cup {new} : (r.was = s.was \/ r.id = s.id) => r = s
    BY <1>5, <2>3
  <2>5. n + 1 <= MaxRows
    BY <1>2, <1>5, MigrationAssumption
  <2>6. "text" \in database'.shape /\ database'.rows = rows \cup {new}
    BY <1>3, <1>10
  <2>7. /\ IsFiniteSet(database'.rows) /\ Cardinality(database'.rows) = n + 1
        /\ \A r \in database'.rows : r.was <= n + 1
        /\ \A r, s \in database'.rows : (r.was = s.was \/ r.id = s.id) => r = s
    BY <2>1, <2>2, <2>4, <2>6
  <2> QED
    BY <2>5, <2>6, <2>7 DEF RowsInOrder
<1>13. Lineage'
  BY <1>10 DEF MigrationInv, Lineage
<1>14. NumbersAreRight'
  <2>1. \A r \in rows : UpTo(rows \cup {new}, r) = UpTo(rows, r)
    <3> SUFFICES ASSUME NEW r \in rows  PROVE UpTo(rows \cup {new}, r) = UpTo(rows, r)
      OBVIOUS
    <3>1. ~ (new.was <= r.was)
      BY <1>5, <1>7 DEF Row
    <3>2. {t \in rows \cup {new} : t.app = r.app /\ t.was <= r.was}
              = {t \in rows : t.app = r.app /\ t.was <= r.was}
      BY <3>1
    <3> QED
      BY <3>2 DEF UpTo
  <2>2. UpTo(rows \cup {new}, new) = W \cup {n + 1}
    <3>1. new.app = a /\ new.was = n + 1 /\ \A t \in rows : t.was <= n + 1
      BY <1>5, <1>7 DEF Row
    <3> HIDE DEF new, rows, n
    <3>2. \A x : x \in UpTo(rows \cup {new}, new) <=>
                     \E t \in rows \cup {new} : t.app = a /\ t.was <= n + 1 /\ x = t.was
      BY <3>1 DEF UpTo
    <3>3. \A x : x \in UpTo(rows \cup {new}, new) <=>
                     \/ \E t \in rows : t.app = a /\ x = t.was
                     \/ x = n + 1
      BY <1>5, <3>1, <3>2
    <3>4. \A x : x \in W <=> \E t \in rows : t.app = a /\ x = t.was
      BY DEF W
    <3>5. \A x : x \in UpTo(rows \cup {new}, new) <=> x \in W \cup {n + 1}
      BY <3>3, <3>4
    <3> QED
      BY <3>5
  <2>3. new.seq = Cardinality(UpTo(rows \cup {new}, new)) /\ new.seq # 0
    <3>1. new.seq = Cardinality(W) + 1
      OBVIOUS
    <3> HIDE DEF new, rows, n
    <3>2. Cardinality(W \cup {n + 1}) = Cardinality(W) + 1
      BY <1>8, FS_AddElement
    <3>3. Cardinality(UpTo(rows \cup {new}, new)) = Cardinality(W) + 1
      BY <2>2, <3>2
    <3>4. Cardinality(W) + 1 # 0
      BY <1>8
    <3> QED
      BY <3>1, <3>3, <3>4
  <2> HIDE DEF new, rows
  <2> QED
    BY <1>3, <1>4, <1>10, <2>1, <2>3 DEF NumbersAreRight
<1>15. StepsBehind'
  BY <1>2, <1>3, <1>10 DEF StepsBehind, Bare
<1>16. Places'
  BY <1>2, <1>3, <1>10 DEF MigrationInv, Places, Bare
<1>17. IsolationOnce'
  BY <1>2, <1>3, <1>10 DEF MigrationInv, IsolationOnce
<1>18. NothingLost'
  <2> HIDE DEF new
  <2> QED
    BY <1>6, <1>10 DEF MigrationInv, NothingLost
<1> QED
  BY <1>11, <1>12, <1>13, <1>14, <1>15, <1>16, <1>17, <1>18 DEF MigrationInv

--------------------------------
\* The theorems.

\* The invariant says what an open database is promised to be.
LEMMA InvariantSuffices == MigrationInv => MigrationsWhole
<1> SUFFICES ASSUME MigrationInv  PROVE MigrationsWhole
  OBVIOUS
<1>1. HistoryKept
  BY DEF MigrationInv, HistoryKept, NothingLost, Lineage, RowsInOrder
<1>2. NumberedInOrder
  <2> SUFFICES ASSUME IsOpen
               PROVE  /\ database.index
                      /\ \A r \in database.rows : r.seq = Cardinality(UpTo(database.rows, r))
    BY DEF NumberedInOrder, UpTo
  <2>1. database.index /\ \A r \in database.rows : r.seq # 0
    BY OpenMeans DEF IsOpen
  <2> QED
    BY <2>1 DEF MigrationInv, NumbersAreRight
<1>3. EverythingHoused
  <2>1. IsOpen => Bare = {} /\ \A x \in Housed : database.place[x] # "none"
    BY OpenMeans DEF IsOpen
  <2>2. \A x \in Housed : database.place[x] \in Defaults \cup {"absent", "none"}
    BY DEF MigrationInv, MigrationTypeOK, Database
  <2> QED
    BY <2>1, <2>2 DEF MigrationInv, Places, EverythingHoused
<1>4. IsolationByAge
  <2>1. IsOpen => database.isolation # "none"
    BY OpenMeans DEF IsOpen
  <2> QED
    BY <2>1 DEF MigrationInv, IsolationOnce, IsolationByAge
<1>5. NeverStuck
  BY DEF MigrationInv
<1> QED
  BY <1>1, <1>2, <1>3, <1>4, <1>5 DEF MigrationsWhole

\* Every step of Open, of the server at work, and its death preserve the invariant.
LEMMA MigrationStep == MigrationInv /\ [MigrationNext]_migrationVars => MigrationInv'
<1> SUFFICES ASSUME MigrationInv, [MigrationNext]_migrationVars  PROVE MigrationInv'
  OBVIOUS
<1>1. CASE OpenStarts \/ Schema \/ AddColumn \/ Backfill \/ Number \/ TextIds \/ Index
           \/ Isolation
  BY <1>1, OpenStartsPreserves, SchemaPreserves, AddColumnPreserves, BackfillPreserves,
     NumberPreserves, TextIdsPreserves, IndexPreserves, IsolationPreserves
<1>2. CASE \/ Rebuild("scope", {"apps.environment_id"})
           \/ Rebuild("types", {"addons.environment_id"}) \/ Rebuild("roles", {})
  <2>1. /\ {"apps.environment_id"} \in SUBSET AllColumns
        /\ {"addons.environment_id"} \in SUBSET AllColumns /\ {} \in SUBSET AllColumns
    BY DEF AllColumns, Columns
  <2> QED
    BY <1>2, <2>1, RebuildPreserves
<1>3. CASE ProjectMade \/ AppMade \/ Deployed \/ Dies
  BY <1>3, ProjectMadePreserves, AppMadePreserves, DeployedPreserves, DiesPreserves
<1>4. CASE UNCHANGED migrationVars
  BY <1>4 DEF migrationVars, MigrationInv, MigrationTypeOK, RowsInOrder, Lineage,
     NumbersAreRight, StepsBehind, Places, IsolationOnce, NeverStuck, NothingLost, Bare
<1> QED
  BY <1>1, <1>2, <1>3, <1>4 DEF MigrationNext

\* The database keeps its shape (store.go, schema.sql).
THEOREM MigrationsTyped == MigrationSpec => []MigrationTypeOK
<1>1. MigrationInv => MigrationTypeOK
  BY DEF MigrationInv
<1> QED
  BY <1>1, MigrationInitially, MigrationStep, PTL DEF MigrationSpec

\* Wherever an Open was cut off, however often, with any number of projects, apps and
\* deployments, the one that ends has made of the old database what one Open that nothing
\* disturbed would have (Open, migrate).
THEOREM MigrationsCorrect == MigrationSpec => []MigrationsWhole
BY MigrationInitially, MigrationStep, InvariantSuffices, PTL DEF MigrationSpec

--------------------------------
\* Accounts: who may sign in and write, and what belongs to whom.

\* What a request has read of an account, or nothing.
SeenUser == [id : 0 .. MaxAccounts, email : People \cup {NoUser.email},
             role : Roles \cup {NoUser.role}, secret : People \cup {NoUser.secret},
             acct : 0 .. MaxAccounts]

RequestType == [pc : RequestPCs, me : SeenUser, target : SeenUser, proved : 0 .. MaxAccounts,
                invite : 0 .. MaxRequests, could : BOOLEAN, out : BOOLEAN]

PastType == [accounts : 1 .. MaxAccounts, requests : 0 .. MaxRequests,
             faults : SUBSET {"mark", "crash"}, crossed : SUBSET Accounts, alone : BOOLEAN,
             guests : [1 .. MaxRequests -> Nat], met : SUBSET (1 .. MaxRequests),
             moved : SUBSET Accounts, slips : SUBSET Accounts]

\* The columns that are UNIQUE, and the how manieth account it is.
UsersShape ==
    /\ users \subseteq User
    /\ \A u \in users : u.id <= acctPast.accounts /\ u.acct <= acctPast.accounts
    /\ \A u, v \in users : u.id = v.id \/ u.email = v.email \/ u.acct = v.acct => u = v

AccountShape ==
    /\ UsersShape
    /\ api_tokens \subseteq Token /\ ssh_keys \subseteq Key
    /\ members \subseteq Member /\ invites \subseteq Invite
    /\ shown \subseteq [id : Accounts, acct : Accounts]
    /\ \A k, l \in ssh_keys : k.key = l.key => k = l
    /\ \A m, n \in members : m.uid = n.uid => m = n
    /\ \A i, j \in invites : i.n = j.n => i = j
    /\ request \in [Clients -> RequestType] /\ acctPast \in PastType
    /\ \A c \in Clients : request[c].pc \in {"register", "burn"} => request[c].invite # 0

\* Numbers are given to requests, of which those under way have had none yet.
Active == {c \in Clients : request[c].pc # "idle"}
Known  == {i.n : i \in invites} \cup {i \in 1 .. MaxRequests : acctPast.guests[i] > 0}

NumbersOK ==
    /\ Cardinality(Active) <= acctPast.requests
    /\ \A n \in Known : n + Cardinality(Active) <= acctPast.requests
    /\ \A t \in api_tokens : t.n + Cardinality(Active) <= acctPast.requests + 2
    /\ \A c \in Clients : request[c].pc = "register" =>
           request[c].invite + Cardinality(Active) <= acctPast.requests

\* What was read of an account is still true of it, or the history says why not.
Read(s) ==
    s.acct # 0 =>
        /\ s.acct <= acctPast.accounts
        /\ \A v \in users : v.acct = s.acct =>
               v.id = s.id /\ v.role = s.role /\ (v.email = s.email \/ s.acct \in acctPast.moved)
        /\ (\E v \in users : v.acct = s.acct) \/ s.acct \in acctPast.crossed

\* What a request relies on when it writes to a project, or changes its own account.
GateOK(r) ==
    /\ r.pc = "asked" => /\ r.me.acct # 0 /\ (r.me.role = "admin" => r.could)
                         /\ "member" \in RoleOf(r.me.id) => r.could
    /\ r.pc = "gate" => /\ r.me.acct # 0
                        /\ \/ r.could \/ r.out \/ r.me.acct \in acctPast.crossed
                           \/ "viewer" \in RoleOf(r.me.id)
    /\ r.pc = "write" => r.could \/ r.out \/ r.me.acct \in acctPast.crossed

ProvedOK(r) ==
    /\ r.pc \in {"mint", "password", "email", "burn"} => r.me.acct # 0
    /\ r.pc = "register" => r.me.role \in Roles
    /\ r.pc \in {"join", "leave"} => r.target.acct # 0
    /\ r.pc \in {"password", "email"} =>
           r.proved = r.me.acct \/ r.me.acct \in acctPast.crossed \cup acctPast.moved

\* An invite nobody disturbed is in one request's hands, and used once.
InviteOK(i) ==
    \/ i \in acctPast.met \/ acctPast.faults # {}
    \/ /\ acctPast.guests[i] <= 1
       /\ \A c, d \in Clients : request[c].invite = i /\ request[d].invite = i => c = d
       /\ \A c \in Clients : request[c].invite = i /\ request[c].pc = "register" => acctPast.guests[i] = 0
       /\ \A j \in invites : j.n = i /\ ~ j.used /\ acctPast.guests[i] > 0 =>
              \E c \in Clients : request[c].invite = i /\ request[c].pc = "burn"

AccountInv ==
    /\ AccountShape /\ NumbersOK
    /\ \A c \in Clients : Read(request[c].me) /\ Read(request[c].target)
    /\ \A c \in Clients : GateOK(request[c]) /\ ProvedOK(request[c])
    /\ \A i \in 1 .. MaxRequests : InviteOK(i)
    /\ AdminRemains /\ OwnersMatch /\ ChangesProved

LEMMA NoUserFields ==
    NoUser \in SeenUser /\ NoUser.id = 0 /\ NoUser.acct = 0 /\ NoUser.role # "admin"
<1>1. NoUser.id = 0 /\ NoUser.acct = 0
  BY DEF NoUser
<1>2. NoUser.role # "admin"
  BY Zenon DEF NoUser
<1>3. 0 \in 0 .. MaxAccounts
  BY AccountAssumption
<1>4. NoUser = [id |-> NoUser.id, email |-> NoUser.email, role |-> NoUser.role,
                secret |-> NoUser.secret, acct |-> NoUser.acct]
  BY Zenon DEF NoUser
<1>5. NoUser \in SeenUser
  BY <1>1, <1>3, <1>4 DEF SeenUser
<1> QED  BY <1>1, <1>2, <1>5

LEMMA AccountBounds ==
    /\ MaxAccounts \in Nat /\ 1 \in 0 .. MaxAccounts /\ 2 \in 1 .. MaxAccounts /\ MaxRequests \in Nat
    /\ Accounts = 1 .. MaxAccounts /\ Accounts \subseteq 0 .. MaxAccounts /\ 0 \notin Accounts
  BY AccountAssumption DEF Accounts

LEMMA UserSeen == User \subseteq SeenUser
  BY AccountBounds DEF User, SeenUser

LEMMA IdleFields ==
    /\ Idle \in RequestType /\ Idle.pc = "idle" /\ Idle.me = NoUser /\ Idle.target = NoUser
    /\ Idle.invite = 0 /\ Idle.me.acct = 0 /\ Idle.target.acct = 0
  BY NoUserFields, AccountBounds DEF Idle, RequestType, RequestPCs

LEMMA RequestFields ==
    ASSUME request \in [Clients -> RequestType], NEW c \in Clients
    PROVE  /\ request[c] \in RequestType
           /\ request[c].me \in SeenUser /\ request[c].target \in SeenUser
           /\ request[c].me.acct \in Nat /\ request[c].target.acct \in Nat
           /\ request[c].invite \in 0 .. MaxRequests
  BY AccountBounds DEF RequestType, SeenUser

LEMMA ActiveFinite == IsFiniteSet(Active) /\ Cardinality(Active) \in Nat
<1>1. IsFiniteSet(Clients) /\ Active \subseteq Clients
  BY AccountAssumption DEF Active
<1> QED  BY <1>1, FS_Subset, FS_CardinalityType

\* A request goes on to e; of the others it may change what they could do to the project.
Turns(c, e) ==
    /\ request' \in [Clients -> RequestType] /\ request'[c] = e
    /\ \A d \in Clients \ {c} :
          /\ request'[d].pc = request[d].pc /\ request'[d].me = request[d].me
          /\ request'[d].target = request[d].target /\ request'[d].proved = request[d].proved
          /\ request'[d].invite = request[d].invite

LEMMA TurnTurns ==
    ASSUME request \in [Clients -> RequestType], NEW c \in Clients, NEW e \in RequestType,
           request' = [request EXCEPT ![c] = e]
    PROVE  Turns(c, e) /\ \A d \in Clients \ {c} : request'[d] = request[d]
  BY DEF Turns

\* What the step of c shows the other requests of the accounts that they have read.
Others(c) ==
    /\ acctPast.accounts <= acctPast'.accounts
    /\ acctPast.crossed \subseteq acctPast'.crossed /\ acctPast.moved \subseteq acctPast'.moved
    /\ \A v \in users' : v.acct <= acctPast.accounts =>
           \E u \in users : /\ u.acct = v.acct /\ u.id = v.id /\ u.role = v.role
                            /\ u.email = v.email \/ v.acct \in acctPast'.moved \/ ~ Held(v.acct, c)
    /\ \A u \in users :
           (\E v \in users' : v.acct = u.acct) \/ u.acct \in acctPast'.crossed \/ ~ Held(u.acct, c)

\* Nothing happens to accounts, and their histories stay.
Calm ==
    /\ UNCHANGED users
    /\ acctPast'.accounts = acctPast.accounts /\ acctPast'.crossed = acctPast.crossed
    /\ acctPast'.moved = acctPast.moved /\ acctPast'.slips = acctPast.slips
    /\ acctPast'.alone = acctPast.alone

LEMMA CalmOthers ==
    ASSUME AccountShape, Calm, NEW c \in Clients
    PROVE  Others(c) /\ UsersShape'
<1>1. acctPast.accounts \in Nat
  BY AccountBounds DEF AccountShape, PastType
<1> QED  BY <1>1 DEF Others, Calm, AccountShape, UsersShape

LEMMA ReadStays ==
    ASSUME AccountShape, AccountShape', NEW c \in Clients, Others(c), NEW s \in SeenUser, Read(s),
           s.acct # 0 => Held(s.acct, c)
    PROVE  Read(s)'
<1> SUFFICES ASSUME s.acct # 0
             PROVE  /\ s.acct <= acctPast'.accounts
                    /\ \A v \in users' : v.acct = s.acct =>
                           /\ v.id = s.id /\ v.role = s.role
                           /\ v.email = s.email \/ s.acct \in acctPast'.moved
                    /\ (\E v \in users' : v.acct = s.acct) \/ s.acct \in acctPast'.crossed
  BY DEF Read
<1>1. /\ s.acct \in Nat /\ acctPast.accounts \in Nat /\ acctPast'.accounts \in Nat
      /\ s.acct <= acctPast.accounts /\ Held(s.acct, c)
  BY AccountBounds DEF SeenUser, AccountShape, PastType, Read
<1>2. s.acct <= acctPast'.accounts
  BY <1>1 DEF Others
<1>3. ASSUME NEW v \in users', v.acct = s.acct
      PROVE  v.id = s.id /\ v.role = s.role /\ (v.email = s.email \/ s.acct \in acctPast'.moved)
  <2>1. PICK u \in users : /\ u.acct = v.acct /\ u.id = v.id /\ u.role = v.role
                           /\ u.email = v.email \/ v.acct \in acctPast'.moved
    BY <1>1, <1>3 DEF Others
  <2> QED  BY <1>3, <2>1 DEF Read, Others
<1>4. (\E v \in users' : v.acct = s.acct) \/ s.acct \in acctPast'.crossed
  BY <1>1 DEF Read, Others
<1> QED  BY <1>2, <1>3, <1>4

\* What the parts of the invariant come to after a step.
LEMMA AccountInvFrom ==
    ASSUME AccountInv, NEW c \in Clients, NEW e \in RequestType, Turns(c, e), Others(c),
           UsersShape', api_tokens' \subseteq Token, ssh_keys' \subseteq Key,
           members' \subseteq Member, invites' \subseteq Invite,
           shown' \subseteq [id : Accounts, acct : Accounts],
           \A k, l \in ssh_keys' : k.key = l.key => k = l,
           \A m, n \in members' : m.uid = n.uid => m = n,
           \A i, j \in invites' : i.n = j.n => i = j,
           acctPast' \in PastType, e.pc \in {"register", "burn"} => e.invite # 0,
           NumbersOK', \A i \in 1 .. MaxRequests : InviteOK(i)',
           AdminRemains', OwnersMatch', ChangesProved',
           Read(e.me)', Read(e.target)', GateOK(e)', ProvedOK(e)',
           \A d \in Clients \ {c} : GateOK(request[d])'
    PROVE  AccountInv'
<1>1. request \in [Clients -> RequestType] /\ AccountShape
  BY DEF AccountInv, AccountShape
<1>2. AccountShape'
  BY <1>1 DEF AccountShape, Turns
<1>3. ASSUME NEW d \in Clients  PROVE Read(request[d].me)' /\ Read(request[d].target)'
  <2>1. CASE d = c
    BY <2>1 DEF Turns, Read
  <2>2. CASE d # c
    <3>1. PICK s \in SeenUser : s = request[d].me
      BY <1>1, RequestFields
    <3>2. PICK t \in SeenUser : t = request[d].target
      BY <1>1, RequestFields
    <3>3. Read(s) /\ Read(t) /\ Held(s.acct, c) /\ Held(t.acct, c)
      BY <2>2, <3>1, <3>2 DEF AccountInv, Held
    <3>4. Read(s)' /\ Read(t)'
      BY <1>1, <1>2, <3>3, ReadStays
    <3>5. request'[d].me = s /\ request'[d].target = t
      BY <2>2, <3>1, <3>2 DEF Turns
    <3> QED  BY <3>4, <3>5 DEF Read
  <2> QED  BY <2>1, <2>2
<1>4. ASSUME NEW d \in Clients  PROVE GateOK(request[d])' /\ ProvedOK(request[d])'
  <2>1. CASE d = c
    BY <2>1 DEF Turns, GateOK, ProvedOK, RoleOf
  <2>2. CASE d # c
    <3>1. ProvedOK(request[d])
      BY DEF AccountInv
    <3> QED  BY <2>2, <3>1 DEF Turns, ProvedOK, Others
  <2> QED  BY <2>1, <2>2
<1> QED  BY <1>2, <1>3, <1>4 DEF AccountInv

LEMMA ActiveTurns ==
    ASSUME AccountInv, NEW c \in Clients, NEW e \in RequestType, Turns(c, e)
    PROVE  /\ Cardinality(Active)' \in Nat
           /\ request[c].pc # "idle" => Cardinality(Active)' <= Cardinality(Active)
           /\ request[c].pc # "idle" /\ e.pc = "idle" => Cardinality(Active)' + 1 = Cardinality(Active)
           /\ Cardinality(Active)' <= Cardinality(Active) + 1
<1>1. IsFiniteSet(Active) /\ Cardinality(Active) \in Nat
  BY ActiveFinite
<1>2. Active' = IF e.pc = "idle" THEN Active \ {c} ELSE Active \cup {c}
  BY DEF Active, Turns
<1>3. c \in Active <=> request[c].pc # "idle"
  BY DEF Active
<1>4. CASE e.pc = "idle"
  <2>1. Active' = Active \ {c}
    BY <1>2, <1>4
  <2>2. /\ IsFiniteSet(Active \ {c})
        /\ Cardinality(Active \ {c}) = IF c \in Active THEN Cardinality(Active) - 1
                                       ELSE Cardinality(Active)
    BY <1>1, FS_RemoveElement
  <2>3. Cardinality(Active \ {c}) \in Nat
    BY <2>2, FS_CardinalityType
  <2> QED  BY <1>1, <1>3, <1>4, <2>1, <2>2, <2>3
<1>5. CASE e.pc # "idle"
  <2>1. Active' = Active \cup {c}
    BY <1>2, <1>5
  <2>2. /\ IsFiniteSet(Active \cup {c})
        /\ Cardinality(Active \cup {c}) = IF c \in Active THEN Cardinality(Active)
                                          ELSE Cardinality(Active) + 1
    BY <1>1, FS_AddElement
  <2>3. Cardinality(Active \cup {c}) \in Nat
    BY <2>2, FS_CardinalityType
  <2> QED  BY <1>1, <1>3, <1>5, <2>1, <2>2, <2>3
<1> QED  BY <1>4, <1>5

\* A step that gives no number, and counts the request that it begins.
LEMMA NumbersStay ==
    ASSUME AccountInv, NEW c \in Clients, NEW e \in RequestType, Turns(c, e),
           \A n \in Known' : n \in Known \/ (request[c].pc = "register" /\ n = request[c].invite),
           e.pc = "register" => e.invite \in Known,
           \A t \in api_tokens' : \E v \in api_tokens : v.n = t.n,
           acctPast' \in PastType,
           \/ request[c].pc # "idle" /\ acctPast'.requests = acctPast.requests
           \/ acctPast'.requests = acctPast.requests + 1
    PROVE  NumbersOK'
<1>1. /\ Cardinality(Active)' \in Nat /\ Cardinality(Active) \in Nat
      /\ acctPast.requests \in Nat /\ acctPast'.requests \in Nat
      /\ Known \subseteq Nat /\ \A v \in api_tokens : v.n \in Nat
  <2>1. Cardinality(Active)' \in Nat /\ Cardinality(Active) \in Nat
    BY ActiveTurns, ActiveFinite
  <2>2. acctPast.requests \in Nat /\ acctPast'.requests \in Nat
    BY AccountBounds DEF AccountInv, AccountShape, PastType
  <2>3. Known \subseteq Nat
    BY AccountBounds DEF AccountInv, AccountShape, Known, Invite
  <2>4. \A v \in api_tokens : v.n \in Nat
    BY AccountBounds DEF AccountInv, AccountShape, Token
  <2> QED  BY <2>1, <2>2, <2>3, <2>4
<1>2. Cardinality(Active)' + acctPast.requests <= Cardinality(Active) + acctPast'.requests
  BY <1>1, ActiveTurns
<1>3. ASSUME NEW n \in Known'  PROVE n + Cardinality(Active)' <= acctPast'.requests
  <2>1. n + Cardinality(Active) <= acctPast.requests
    BY <1>3 DEF AccountInv, NumbersOK
  <2>2. n \in Nat
    <3>1. n \in Known \/ n = request[c].invite
      BY <1>3
    <3>2. request[c].invite \in Nat
      BY RequestFields, AccountBounds DEF AccountInv, AccountShape
    <3> QED  BY <1>1, <3>1, <3>2
  <2> QED  BY <1>1, <1>2, <2>1, <2>2
<1>4. ASSUME NEW t \in api_tokens'  PROVE t.n + Cardinality(Active)' <= acctPast'.requests + 2
  <2>1. PICK v \in api_tokens : v.n = t.n
    BY <1>4
  <2>2. v.n + Cardinality(Active) <= acctPast.requests + 2
    BY DEF AccountInv, NumbersOK
  <2> QED  BY <1>1, <1>2, <2>1, <2>2
<1>5. Cardinality(Active)' <= acctPast'.requests
  BY <1>1, <1>2 DEF AccountInv, NumbersOK
<1>6. ASSUME NEW d \in Clients, request'[d].pc = "register"
      PROVE  request'[d].invite + Cardinality(Active)' <= acctPast'.requests
  <2>1. request[d].invite \in Nat
    BY RequestFields, AccountBounds DEF AccountInv, AccountShape
  <2>2. CASE d = c
    <3>1. request'[d].invite \in Known
      BY <1>6, <2>2 DEF Turns
    <3>2. request'[d].invite + Cardinality(Active) <= acctPast.requests /\ request'[d].invite \in Nat
      BY <1>1, <3>1 DEF AccountInv, NumbersOK
    <3> QED  BY <1>1, <1>2, <3>2
  <2>3. CASE d # c
    <3>1. request[d].pc = "register" /\ request'[d].invite = request[d].invite
      BY <1>6, <2>3 DEF Turns
    <3>2. request[d].invite + Cardinality(Active) <= acctPast.requests
      BY <3>1 DEF AccountInv, NumbersOK
    <3> QED  BY <1>1, <1>2, <2>1, <3>1, <3>2
  <2> QED  BY <2>2, <2>3
<1> QED  BY <1>3, <1>4, <1>5, <1>6 DEF NumbersOK

\* The numbers of the invites that requests are at, when one of them ends.
LEMMA RegistersNumbers ==
    ASSUME AccountInv, NEW c \in Clients, Turns(c, Idle), acctPast' = acctPast,
           Cardinality(Active)' \in Nat, Cardinality(Active)' + 1 = Cardinality(Active)
    PROVE  \A d \in Clients : request'[d].pc = "register" =>
               request'[d].invite + Cardinality(Active)' <= acctPast'.requests
<1> SUFFICES ASSUME NEW d \in Clients, request'[d].pc = "register"
             PROVE  request'[d].invite + Cardinality(Active)' <= acctPast'.requests
  OBVIOUS
<1>1. d # c
  BY IdleFields DEF Turns
<1>2. request[d].pc = "register" /\ request'[d].invite = request[d].invite
  BY <1>1 DEF Turns
<1>3. request[d].invite + Cardinality(Active) <= acctPast.requests
  BY <1>2 DEF AccountInv, NumbersOK
<1>4. request[d].invite \in Nat /\ Cardinality(Active) \in Nat /\ acctPast.requests \in Nat
  BY RequestFields, ActiveFinite, AccountBounds DEF AccountInv, AccountShape, PastType
<1> QED  BY <1>2, <1>3, <1>4

\* A step that is not about invites, or makes one.
LEMMA InvitesStay ==
    ASSUME AccountInv, NEW c \in Clients, NEW e \in RequestType, Turns(c, e),
           \A j \in invites' : j \in invites \/ acctPast.guests[j.n] = 0,
           acctPast'.guests = acctPast.guests,
           acctPast.met \subseteq acctPast'.met, acctPast.faults \subseteq acctPast'.faults,
           e.invite \in {request[c].invite, 0}, e.pc # "register", request[c].pc # "burn"
    PROVE  \A i \in 1 .. MaxRequests : InviteOK(i)'
<1> SUFFICES ASSUME NEW i \in 1 .. MaxRequests, i \notin acctPast'.met, acctPast'.faults = {}
             PROVE  /\ acctPast'.guests[i] <= 1
                    /\ \A d, f \in Clients :
                           request'[d].invite = i /\ request'[f].invite = i => d = f
                    /\ \A d \in Clients : request'[d].invite = i /\ request'[d].pc = "register" =>
                           acctPast'.guests[i] = 0
                    /\ \A j \in invites' : j.n = i /\ ~ j.used /\ acctPast'.guests[i] > 0 =>
                           \E d \in Clients : request'[d].invite = i /\ request'[d].pc = "burn"
  BY DEF InviteOK
<1>1. /\ i \notin acctPast.met /\ acctPast.faults = {} /\ InviteOK(i) /\ i # 0
  BY AccountBounds DEF AccountInv
<1>2. \A d \in Clients : request'[d].invite = i => request[d].invite = i
  BY <1>1 DEF Turns
<1>3. \A d \in Clients : request[d].pc = "burn" /\ request[d].invite = i =>
          request'[d].pc = "burn" /\ request'[d].invite = i
  BY DEF Turns
<1>4. \A d \in Clients : request'[d].pc = "register" => request[d].pc = "register"
  BY DEF Turns
<1> QED  BY <1>1, <1>2, <1>3, <1>4 DEF InviteOK

LEMMA OwnedStay ==
    ASSUME OwnersMatch, acctPast.crossed \subseteq acctPast'.crossed,
           \A x \in api_tokens' \cup ssh_keys' \cup members' :
              \/ x \in api_tokens \cup ssh_keys \cup members
              \/ \E u \in users' : u.id = x.uid /\ (u.acct = x.acct \/ x.acct \in acctPast'.crossed),
           \A u \in users : (\E x \in api_tokens' \cup ssh_keys' \cup members' : x.uid = u.id) =>
              \E v \in users' : v.id = u.id /\ v.acct = u.acct
    PROVE  OwnersMatch'
  BY DEF OwnersMatch

\* What the request of an account gives it is the account's, or the history says whose.
LEMMA ReadOwns ==
    ASSUME AccountInv, NEW s \in SeenUser, Read(s), s.acct # 0, NEW u \in users, u.id = s.id
    PROVE  u.acct = s.acct \/ s.acct \in acctPast.crossed
<1>1. (\E v \in users : v.acct = s.acct /\ v.id = s.id) \/ s.acct \in acctPast.crossed
  BY DEF Read
<1>2. \A v \in users : v.id = u.id => v = u
  BY DEF AccountInv, AccountShape, UsersShape
<1> QED  BY <1>1, <1>2

\* Steps that leave accounts and memberships alone.
LEMMA CalmInv ==
    ASSUME AccountInv, NEW c \in Clients, NEW e \in RequestType,
           request' = [request EXCEPT ![c] = e], Calm, UNCHANGED members,
           acctPast' \in PastType,
           api_tokens' \subseteq Token, ssh_keys' \subseteq Key, invites' \subseteq Invite,
           shown' \subseteq [id : Accounts, acct : Accounts],
           \A k, l \in ssh_keys' : k.key = l.key => k = l,
           \A i, j \in invites' : i.n = j.n => i = j,
           e.pc \in {"register", "burn"} => e.invite # 0,
           NumbersOK', \A i \in 1 .. MaxRequests : InviteOK(i)',
           \A x \in api_tokens' \cup ssh_keys' :
              \/ x \in api_tokens \cup ssh_keys
              \/ \E u \in users : u.id = x.uid /\ (u.acct = x.acct \/ x.acct \in acctPast.crossed),
           Read(e.me), Read(e.target), GateOK(e), ProvedOK(e)
    PROVE  AccountInv'
<1>1. AccountShape /\ request \in [Clients -> RequestType]
  BY DEF AccountInv, AccountShape
<1>2. Turns(c, e) /\ (\A d \in Clients \ {c} : request'[d] = request[d])
  BY <1>1, TurnTurns
<1>3. Others(c) /\ UsersShape'
  BY <1>1, CalmOthers
<1>4. members' \subseteq Member /\ \A m, n \in members' : m.uid = n.uid => m = n
  BY <1>1 DEF AccountShape
<1>5. OwnersMatch'
  BY OwnedStay DEF AccountInv, Calm
<1>6. AdminRemains' /\ ChangesProved'
  BY DEF AccountInv, AdminRemains, ChangesProved, Calm
<1>7. Read(e.me)' /\ Read(e.target)' /\ GateOK(e)' /\ ProvedOK(e)'
  BY DEF Read, GateOK, ProvedOK, RoleOf, Calm
<1>8. \A d \in Clients \ {c} : GateOK(request[d])'
  <2>1. \A d \in Clients : GateOK(request[d])
    BY DEF AccountInv
  <2> QED  BY <1>2, <2>1 DEF GateOK, RoleOf, Calm
<1> QED  BY <1>2, <1>3, <1>4, <1>5, <1>6, <1>7, <1>8, AccountInvFrom

\* Steps of a request under way, or the one that begins it, that change no table.
LEMMA QuietInv ==
    ASSUME AccountInv, NEW c \in Clients, NEW e \in RequestType,
           request' = [request EXCEPT ![c] = e],
           UNCHANGED <<users, api_tokens, ssh_keys, members, invites, shown>>,
           \/ request[c].pc # "idle" /\ acctPast' = acctPast
           \/ Counted,
           e.invite \in {request[c].invite, 0}, e.pc \notin {"register", "burn"},
           request[c].pc # "burn",
           Read(e.me), Read(e.target), GateOK(e), ProvedOK(e)
    PROVE  AccountInv'
<1>1. AccountShape /\ request \in [Clients -> RequestType] /\ acctPast \in PastType
  BY DEF AccountInv, AccountShape
<1>2. /\ acctPast' \in PastType /\ acctPast'.guests = acctPast.guests
      /\ acctPast'.met = acctPast.met /\ acctPast'.faults = acctPast.faults /\ Calm
      /\ \/ request[c].pc # "idle" /\ acctPast'.requests = acctPast.requests
         \/ acctPast'.requests = acctPast.requests + 1
  <2>1. CASE acctPast' = acctPast /\ request[c].pc # "idle"
    BY <1>1, <2>1 DEF Calm
  <2>2. CASE Counted
    <3>1. PICK n : n = acctPast.requests + 1
      OBVIOUS
    <3>2. n \in 0 .. MaxRequests /\ acctPast' = [acctPast EXCEPT !.requests = n]
      BY <1>1, <2>2, <3>1, AccountBounds DEF Counted, PastType
    <3> QED  BY <1>1, <3>1, <3>2 DEF Calm, PastType
  <2> QED  BY <2>1, <2>2
<1>3. Turns(c, e)
  BY <1>1, TurnTurns
<1>4. NumbersOK'
  BY <1>2, <1>3, NumbersStay DEF Known
<1>5. \A i \in 1 .. MaxRequests : InviteOK(i)'
  BY <1>2, <1>3, InvitesStay
<1> QED  BY <1>1, <1>2, <1>4, <1>5, CalmInv DEF AccountShape

LEMMA ReadUser == ASSUME AccountInv, NEW u \in users  PROVE Read(u) /\ u \in SeenUser /\ u.acct # 0
<1>1. u \in User /\ u.acct <= acctPast.accounts /\ \A v \in users : v.acct = u.acct => v = u
  BY DEF AccountInv, AccountShape, UsersShape
<1> QED  BY <1>1, UserSeen, AccountBounds DEF Read, User

LEMMA ReadNobody == Read(NoUser) /\ GateOK(Idle) /\ ProvedOK(Idle) /\ Read(Idle.me) /\ Read(Idle.target)
  BY NoUserFields, IdleFields DEF Read, GateOK, ProvedOK

LEMMA LoginInv == ASSUME AccountInv, NEW c \in Clients, Login(c)  PROVE AccountInv'
<1>1. PICK u \in users :
          request' = [request EXCEPT ![c] = [Idle EXCEPT !.pc = "mint", !.me = u]]
  BY DEF Login
<1>2. PICK e : e = [Idle EXCEPT !.pc = "mint", !.me = u]
  OBVIOUS
<1>3. u \in SeenUser /\ Read(u) /\ u.acct # 0
  BY ReadUser
<1>4. /\ e \in RequestType /\ e.pc = "mint" /\ e.me = u /\ e.target = NoUser /\ e.invite = 0
  BY <1>2, <1>3, IdleFields DEF RequestType, RequestPCs
<1>5. Read(e.me) /\ Read(e.target) /\ GateOK(e) /\ ProvedOK(e)
  BY <1>3, <1>4, ReadNobody DEF GateOK, ProvedOK
<1> QED  BY <1>1, <1>2, <1>4, <1>5, QuietInv DEF Login

LEMMA AuthedInv == ASSUME AccountInv, NEW c \in Clients, Authed(c)  PROVE AccountInv'
<1>1. PICK u \in users :
          request' = [request EXCEPT ![c] =
                         [Idle EXCEPT !.pc = "asked", !.me = u, !.could = Writer(u)]]
  BY DEF Authed
<1>2. PICK e : e = [Idle EXCEPT !.pc = "asked", !.me = u, !.could = Writer(u)]
  OBVIOUS
<1>3. u \in SeenUser /\ Read(u) /\ u.acct # 0
  BY ReadUser
<1>4. PICK w \in BOOLEAN : w = Writer(u)
  BY DEF Writer
<1>5. /\ e \in RequestType /\ e.pc = "asked" /\ e.me = u /\ e.target = NoUser /\ e.invite = 0
      /\ e.could = Writer(u)
  BY <1>2, <1>3, <1>4, IdleFields DEF RequestType, RequestPCs
<1>6. Read(e.me) /\ Read(e.target) /\ GateOK(e) /\ ProvedOK(e)
  BY <1>3, <1>5, ReadNobody DEF GateOK, ProvedOK, Writer
<1> QED  BY <1>1, <1>2, <1>5, <1>6, QuietInv DEF Authed

\* A request that ends without having changed anything.
LEMMA NothingDoneInv ==
    ASSUME AccountInv, NEW c \in Clients, request[c].pc \notin {"idle", "burn"}, Done(c),
           UNCHANGED <<users, api_tokens, ssh_keys, members, invites, shown, acctPast>>
    PROVE  AccountInv'
  BY ReadNobody, IdleFields, QuietInv DEF Done

\* A request that goes on with what it has read.
LEMMA GoesInv ==
    ASSUME AccountInv, NEW c \in Clients, NEW pc \in {"write", "gate"}, Goes(c, pc),
           request[c].pc \notin {"idle", "burn"},
           GateOK([request[c] EXCEPT !.pc = pc]),
           UNCHANGED <<users, api_tokens, ssh_keys, members, invites, shown, acctPast>>
    PROVE  AccountInv'
<1>1. PICK e : e = [request[c] EXCEPT !.pc = pc]
  OBVIOUS
<1>2. request[c] \in RequestType /\ request' = [request EXCEPT ![c] = e]
  BY <1>1 DEF AccountInv, AccountShape, Goes
<1>3. /\ e \in RequestType /\ e.pc = pc /\ e.me = request[c].me /\ e.target = request[c].target
      /\ e.invite = request[c].invite
  BY <1>1, <1>2 DEF RequestType, RequestPCs
<1>4. Read(e.me) /\ Read(e.target) /\ GateOK(e) /\ ProvedOK(e)
  BY <1>1, <1>3 DEF AccountInv, ProvedOK
<1> QED  BY <1>2, <1>3, <1>4, QuietInv

LEMMA RequireInv ==
    ASSUME AccountInv, NEW c \in Clients,
           RequireProject(c) \/ RequireProjectWrite(c) \/ Writes(c)
    PROVE  AccountInv'
<1> DEFINE r == request[c]
<1>1. /\ r \in RequestType /\ GateOK(r) /\ members \subseteq Member
      /\ r.me \in SeenUser
  BY RequestFields DEF AccountInv, AccountShape
<1>2. CASE Done(c)
  BY <1>2, NothingDoneInv DEF RequireProject, RequireProjectWrite, Writes, Asked
<1>3. CASE RequireProject(c) /\ Goes(c, "write") /\ r.me.role = "admin"
  <2>1. GateOK([r EXCEPT !.pc = "write"])
    BY <1>1, <1>3 DEF GateOK, RequireProject, Asked, RequestType
  <2> QED  BY <1>3, <2>1, GoesInv DEF RequireProject, Asked
<1>4. CASE RequireProject(c) /\ Goes(c, "gate") /\ RoleOf(r.me.id) # {}
  <2>1. RoleOf(r.me.id) \subseteq {"member", "viewer"}
    BY <1>1 DEF RoleOf, Member, MemberRoles
  <2>2. "member" \in RoleOf(r.me.id) \/ "viewer" \in RoleOf(r.me.id)
    BY <1>4, <2>1
  <2>3. GateOK([r EXCEPT !.pc = "gate"])
    BY <1>1, <1>4, <2>2 DEF GateOK, RequireProject, Asked, RequestType
  <2> QED  BY <1>4, <2>3, GoesInv DEF RequireProject, Asked
<1>5. CASE RequireProjectWrite(c) /\ Goes(c, "write") /\ ~ ViewersRefused(c)
  <2>1. GateOK([r EXCEPT !.pc = "write"])
    BY <1>1, <1>5 DEF GateOK, RequireProjectWrite, ViewersRefused, RequestType
  <2> QED  BY <1>5, <2>1, GoesInv DEF RequireProjectWrite
<1> QED  BY <1>2, <1>3, <1>4, <1>5 DEF RequireProject, RequireProjectWrite, Writes

LEMMA FindsMemberInv == ASSUME AccountInv, NEW c \in Clients, FindsMember(c)  PROVE AccountInv'
<1>1. PICK u \in users, pc \in {"join", "leave"} :
          request' = [request EXCEPT ![c] = [@ EXCEPT !.pc = pc, !.target = u]]
  BY DEF FindsMember
<1>2. PICK e : e = [request[c] EXCEPT !.pc = pc, !.target = u]
  OBVIOUS
<1>3. u \in SeenUser /\ Read(u) /\ u.acct # 0
  BY ReadUser
<1>4. request[c] \in RequestType /\ request[c].pc = "asked" /\ Read(request[c].me)
  BY DEF AccountInv, AccountShape, FindsMember, AdminAsked, Asked
<1>5. /\ e \in RequestType /\ e.pc = pc /\ e.me = request[c].me /\ e.target = u
      /\ e.invite = request[c].invite /\ request' = [request EXCEPT ![c] = e]
  BY <1>1, <1>2, <1>3, <1>4 DEF RequestType, RequestPCs
<1>6. Read(e.me) /\ Read(e.target) /\ GateOK(e) /\ ProvedOK(e)
  BY <1>3, <1>4, <1>5 DEF GateOK, ProvedOK
<1> QED  BY <1>4, <1>5, <1>6, QuietInv DEF FindsMember

LEMMA AuthenticateInv == ASSUME AccountInv, NEW c \in Clients, Authenticate(c)  PROVE AccountInv'
<1>1. PICK u \in WithEmail(request[c].me.email), pc \in {"password", "email"} :
          request' = [request EXCEPT ![c] = [@ EXCEPT !.pc = pc, !.proved = u.acct]]
  BY DEF Authenticate
<1>2. PICK e : e = [request[c] EXCEPT !.pc = pc, !.proved = u.acct]
  OBVIOUS
<1>3. u \in users /\ u.email = request[c].me.email /\ u.acct \in 0 .. MaxAccounts
  BY ReadUser DEF WithEmail, SeenUser
<1>4. /\ request[c] \in RequestType /\ request[c].pc = "asked" /\ Read(request[c].me)
      /\ Read(request[c].target) /\ request[c].me.acct # 0
  BY DEF AccountInv, AccountShape, Authenticate, Asked, GateOK
<1>5. /\ e \in RequestType /\ e.pc = pc /\ e.me = request[c].me /\ e.target = request[c].target
      /\ e.proved = u.acct /\ e.invite = request[c].invite
      /\ request' = [request EXCEPT ![c] = e]
  BY <1>1, <1>2, <1>3, <1>4 DEF RequestType, RequestPCs
<1>6. u.acct = e.me.acct \/ e.me.acct \in acctPast.crossed \cup acctPast.moved
  <2>1. CASE e.me.acct \in acctPast.crossed \cup acctPast.moved
    BY <2>1
  <2>2. CASE e.me.acct \notin acctPast.crossed \cup acctPast.moved
    <3>1. PICK v \in users : v.acct = e.me.acct /\ v.email = e.me.email
      BY <1>4, <1>5, <2>2 DEF Read
    <3>2. v = u
      BY <1>3, <1>5, <3>1 DEF AccountInv, AccountShape, UsersShape
    <3> QED  BY <3>1, <3>2
  <2> QED  BY <2>1, <2>2
<1>7. Read(e.me) /\ Read(e.target) /\ GateOK(e) /\ ProvedOK(e)
  BY <1>4, <1>5, <1>6 DEF GateOK, ProvedOK
<1> QED  BY <1>4, <1>5, <1>7, QuietInv DEF Authenticate

\* A request ends that has changed tokens, keys or what lists have shown.
LEMMA DoneInv ==
    ASSUME AccountInv, NEW c \in Clients, request[c].pc \notin {"idle", "burn"}, Done(c),
           UNCHANGED <<users, members, invites, acctPast>>,
           api_tokens' \subseteq Token, ssh_keys' \subseteq Key,
           shown' \subseteq [id : Accounts, acct : Accounts],
           \A k, l \in ssh_keys' : k.key = l.key => k = l,
           NumbersOK',
           \A x \in api_tokens' \cup ssh_keys' :
              \/ x \in api_tokens \cup ssh_keys
              \/ \E u \in users : u.id = x.uid /\ (u.acct = x.acct \/ x.acct \in acctPast.crossed)
    PROVE  AccountInv'
<1>1. AccountShape /\ request' = [request EXCEPT ![c] = Idle] /\ Calm
  BY DEF AccountInv, Done, Calm
<1>2. Turns(c, Idle)
  BY <1>1, IdleFields, TurnTurns DEF AccountShape
<1>3. \A i \in 1 .. MaxRequests : InviteOK(i)'
  BY <1>2, IdleFields, InvitesStay
<1> QED  BY <1>1, <1>3, IdleFields, ReadNobody, CalmInv DEF AccountShape

LEMMA DoneNumbers ==
    ASSUME AccountInv, NEW c \in Clients, request[c].pc # "idle", Done(c),
           UNCHANGED <<invites, acctPast>>, api_tokens' \subseteq api_tokens
    PROVE  NumbersOK'
<1>1. AccountShape /\ request' = [request EXCEPT ![c] = Idle]
  BY DEF AccountInv, Done
<1>2. Turns(c, Idle)
  BY <1>1, IdleFields, TurnTurns DEF AccountShape
<1> QED  BY <1>1, <1>2, IdleFields, NumbersStay DEF Known, AccountShape

LEMMA ListUsersInv == ASSUME AccountInv, NEW c \in Clients, ListUsers(c)  PROVE AccountInv'
<1>1. AccountShape /\ request[c].pc = "asked" /\ Done(c)
  BY DEF AccountInv, ListUsers, AdminAsked, Asked
<1>2. {[id |-> u.id, acct |-> u.acct] : u \in users} \subseteq [id : Accounts, acct : Accounts]
  BY <1>1 DEF AccountShape, UsersShape, User
<1>3. NumbersOK'
  BY <1>1, DoneNumbers DEF ListUsers
<1> QED  BY <1>1, <1>2, <1>3, DoneInv DEF ListUsers, AccountShape

LEMMA RevokesInv ==
    ASSUME AccountInv, NEW c \in Clients, RevokeToken(c) \/ DeleteSSHKey(c)  PROVE AccountInv'
<1>1. AccountShape /\ request[c].pc = "asked" /\ Done(c)
  BY DEF AccountInv, RevokeToken, DeleteSSHKey, Asked
<1>2. /\ api_tokens' \subseteq api_tokens /\ ssh_keys' \subseteq ssh_keys
      /\ UNCHANGED <<users, members, invites, shown, acctPast>>
  BY DEF RevokeToken, DeleteSSHKey
<1>3. NumbersOK'
  BY <1>1, <1>2, DoneNumbers
<1> QED  BY <1>1, <1>2, <1>3, DoneInv DEF AccountShape

\* What a request is given for its account.
LEMMA GivenOwned ==
    ASSUME AccountInv, NEW c \in Clients, request[c].me.acct # 0, NEW x,
           x.uid = request[c].me.id, x.acct = request[c].me.acct, WithId(request[c].me.id) # {}
    PROVE  /\ \E u \in users : u.id = x.uid /\ (u.acct = x.acct \/ x.acct \in acctPast.crossed)
           /\ request[c].me.id \in Accounts /\ request[c].me.acct \in Accounts
<1>1. request[c].me \in SeenUser /\ Read(request[c].me)
  BY RequestFields DEF AccountInv, AccountShape
<1>2. PICK u \in users : u.id = request[c].me.id
  BY DEF WithId
<1>3. u \in User
  BY DEF AccountInv, AccountShape, UsersShape
<1> QED  BY <1>1, <1>2, <1>3, ReadOwns, AccountBounds DEF SeenUser, User

LEMMA AddSSHKeyInv == ASSUME AccountInv, NEW c \in Clients, AddSSHKey(c)  PROVE AccountInv'
<1>1. AccountShape /\ request[c].pc = "asked" /\ Done(c) /\ request[c].me.acct # 0
  BY DEF AccountInv, AddSSHKey, Asked, GateOK
<1>2. NumbersOK'
  BY <1>1, DoneNumbers DEF AddSSHKey
<1>3. PICK k \in People :
           /\ \A other \in ssh_keys : other.key # k
           /\ ssh_keys' = IF WithId(request[c].me.id) = {} THEN ssh_keys
                          ELSE ssh_keys \cup {[key |-> k, uid |-> request[c].me.id,
                                               acct |-> request[c].me.acct]}
  BY DEF AddSSHKey
<1>4. PICK x : x = [key |-> k, uid |-> request[c].me.id, acct |-> request[c].me.acct]
  OBVIOUS
<1>5. CASE ssh_keys' = ssh_keys
  BY <1>1, <1>2, <1>5, DoneInv DEF AddSSHKey, AccountShape
<1>6. CASE WithId(request[c].me.id) # {} /\ ssh_keys' = ssh_keys \cup {x}
  <2>1. x.key = k /\ x.uid = request[c].me.id /\ x.acct = request[c].me.acct
    BY <1>4
  <2>2. /\ \E u \in users : u.id = x.uid /\ (u.acct = x.acct \/ x.acct \in acctPast.crossed)
        /\ request[c].me.id \in Accounts /\ request[c].me.acct \in Accounts
    BY <1>1, <1>6, <2>1, GivenOwned
  <2>3. x \in Key
    BY <1>4, <2>2 DEF Key
  <2>4. \A a, b \in ssh_keys' : a.key = b.key => a = b
    BY <1>1, <1>3, <1>6, <2>1 DEF AccountShape
  <2> QED  BY <1>1, <1>2, <1>6, <2>2, <2>3, <2>4, DoneInv DEF AddSSHKey, AccountShape
<1> QED  BY <1>3, <1>4, <1>5, <1>6

LEMMA CreateTokenInv == ASSUME AccountInv, NEW c \in Clients, CreateToken(c)  PROVE AccountInv'
<1>1. AccountShape /\ request[c].pc = "mint" /\ Done(c) /\ request[c].me.acct # 0
  BY DEF AccountInv, CreateToken, ProvedOK
<1>2. PICK n : n = Max({t.n : t \in api_tokens} \cup {0}) + 1
  OBVIOUS
<1>3. PICK x : x = [n |-> n, uid |-> request[c].me.id, acct |-> request[c].me.acct]
  OBVIOUS
<1>4. CASE api_tokens' = api_tokens
  <2>1. NumbersOK'
    BY <1>1, <1>4, DoneNumbers DEF CreateToken
  <2> QED  BY <1>1, <1>4, <2>1, DoneInv DEF CreateToken, AccountShape
<1>5. CASE WithId(request[c].me.id) # {} /\ api_tokens' = api_tokens \cup {x}
  <2>1. x.n = n /\ x.uid = request[c].me.id /\ x.acct = request[c].me.acct
    BY <1>3
  <2>2. /\ \E u \in users : u.id = x.uid /\ (u.acct = x.acct \/ x.acct \in acctPast.crossed)
        /\ request[c].me.id \in Accounts /\ request[c].me.acct \in Accounts
    BY <1>1, <1>5, <2>1, GivenOwned
  <2>3. Turns(c, Idle)
    BY <1>1, IdleFields, TurnTurns DEF AccountShape, Done
  <2>4. /\ Cardinality(Active)' \in Nat /\ Cardinality(Active) \in Nat
        /\ Cardinality(Active)' + 1 = Cardinality(Active)
    BY <1>1, <2>3, IdleFields, ActiveTurns, ActiveFinite
  <2>5. acctPast.requests \in 0 .. MaxRequests /\ acctPast' = acctPast /\ MaxRequests \in Nat
    BY <1>1, AccountBounds DEF AccountShape, PastType, CreateToken
  <2>6. \A t \in api_tokens : t.n \in Nat /\ t.n + Cardinality(Active) <= acctPast.requests + 2
    BY <1>1, AccountBounds DEF AccountInv, NumbersOK, AccountShape, Token
  <2>7. n \in 1 .. MaxRequests + 2 /\ n + Cardinality(Active)' <= acctPast.requests + 2
    <3>1. PICK S : S = {t.n : t \in api_tokens} \cup {0}
      OBVIOUS
    <3>2. S \in SUBSET Nat /\ S # {} /\ \A m \in S : m = 0 \/ m + Cardinality(Active) <= acctPast.requests + 2
      BY <2>6, <3>1
    <3>3. \A m \in S : m <= acctPast.requests + 2
      BY <2>4, <2>5, <3>2
    <3>5. acctPast.requests + 2 \in Nat /\ acctPast.requests <= MaxRequests
      BY <2>5
    <3>4. Max(S) \in S
      BY <3>2, <3>3, <3>5, MaxPicks
    <3>6. Max(S) \in Nat /\ n = Max(S) + 1
      BY <1>2, <3>1, <3>2, <3>4
    <3>7. CASE Max(S) = 0
      <4>1. Cardinality(Active) <= acctPast.requests + 2
        <5>1. Cardinality(Active) <= acctPast.requests
          BY DEF AccountInv, NumbersOK
        <5> QED  BY <5>1, <2>4, <2>5
      <4> QED  BY <2>4, <2>5, <3>6, <3>7, <4>1
    <3>8. CASE Max(S) + Cardinality(Active) <= acctPast.requests + 2
      BY <2>4, <2>5, <3>6, <3>8
    <3> QED  BY <3>2, <3>4, <3>7, <3>8
  <2>8. x \in Token
    BY <1>3, <2>2, <2>7 DEF Token
  <2>9. NumbersOK'
    <3>1. Known' = Known
      BY DEF Known, CreateToken
    <3>2. \A k \in Known : k \in Nat /\ k + Cardinality(Active) <= acctPast.requests
      BY <1>1, AccountBounds DEF AccountInv, NumbersOK, AccountShape, Known, Invite
    <3>3. \A k \in Known' : k + Cardinality(Active)' <= acctPast'.requests
      BY <2>4, <2>5, <3>1, <3>2
    <3>4. \A t \in api_tokens' : t.n + Cardinality(Active)' <= acctPast'.requests + 2
      BY <1>5, <2>1, <2>4, <2>5, <2>6, <2>7
    <3>5. Cardinality(Active)' <= acctPast'.requests
      BY <2>4, <2>5 DEF AccountInv, NumbersOK
    <3>6. \A d \in Clients : request'[d].pc = "register" =>
              request'[d].invite + Cardinality(Active)' <= acctPast'.requests
      BY <2>3, <2>4, <2>5, RegistersNumbers
    <3> QED  BY <3>3, <3>4, <3>5, <3>6 DEF NumbersOK
  <2> QED  BY <1>1, <1>5, <2>2, <2>8, <2>9, DoneInv DEF CreateToken, AccountShape
<1> QED  BY <1>2, <1>3, <1>4, <1>5 DEF CreateToken

\* The number after the greatest of some.
LEMMA NextNumber ==
    ASSUME NEW S \in SUBSET Nat, NEW a \in Nat, NEW k \in Nat, a <= k, \A m \in S : m + a <= k
    PROVE  /\ Max(S \cup {0}) \in Nat /\ Max(S \cup {0}) + a <= k
           /\ \A m \in S : m <= Max(S \cup {0})
<1>1. PICK T : T = S \cup {0}
  OBVIOUS
<1>2. T \in SUBSET Nat /\ T # {} /\ \A m \in T : m + a <= k /\ m <= k
  BY <1>1
<1>3. Max(T) \in T /\ \A m \in T : m <= Max(T)
  BY <1>2, MaxPicks
<1> QED  BY <1>1, <1>2, <1>3

LEMMA KnownNumbers ==
    ASSUME AccountInv
    PROVE  /\ Known \in SUBSET Nat /\ Cardinality(Active) \in Nat
           /\ acctPast.requests \in Nat /\ acctPast.requests <= MaxRequests
           /\ Cardinality(Active) <= acctPast.requests
           /\ \A n \in Known : n + Cardinality(Active) <= acctPast.requests
           /\ \A i \in 1 .. MaxRequests : acctPast.guests[i] \in Nat
           /\ \A i \in 1 .. MaxRequests : i \notin Known => acctPast.guests[i] = 0
<1>1. AccountShape /\ NumbersOK /\ MaxRequests \in Nat
  BY AccountBounds DEF AccountInv
<1>2. acctPast.guests \in [1 .. MaxRequests -> Nat] /\ acctPast.requests \in 0 .. MaxRequests
  BY <1>1 DEF AccountShape, PastType
<1>3. Known \in SUBSET Nat
  BY <1>1 DEF AccountShape, Known, Invite
<1>4. \A i \in 1 .. MaxRequests : i \notin Known => acctPast.guests[i] = 0
  <2>1. ASSUME NEW i \in 1 .. MaxRequests, i \notin Known  PROVE acctPast.guests[i] = 0
    <3>1. acctPast.guests[i] \in Nat
      BY <1>2
    <3>2. ~ (acctPast.guests[i] > 0)
      BY <2>1 DEF Known
    <3> QED  BY <3>1, <3>2
  <2> QED  BY <2>1
<1> QED  BY <1>1, <1>2, <1>3, <1>4, ActiveFinite DEF NumbersOK

LEMMA CreateInviteInv == ASSUME AccountInv, NEW c \in Clients, CreateInvite(c)  PROVE AccountInv'
<1>1. AccountShape /\ request[c].pc = "asked" /\ Done(c) /\ acctPast \in PastType
  BY DEF AccountInv, AccountShape, CreateInvite, AdminAsked, Asked
<1>2. PICK n : n = Max(Known \cup {0}) + 1
  OBVIOUS
<1>3. PICK role \in Roles : invites' = invites \cup {[n |-> n, role |-> role, used |-> FALSE]}
  BY <1>2 DEF CreateInvite, Known
<1>4. PICK i : i = [n |-> n, role |-> role, used |-> FALSE]
  OBVIOUS
<1>5. /\ n \in Nat /\ n + Cardinality(Active) <= acctPast.requests + 1 /\ \A m \in Known : m < n
  <2>1. Max(Known \cup {0}) \in Nat /\ Max(Known \cup {0}) + Cardinality(Active) <= acctPast.requests
    BY KnownNumbers, NextNumber
  <2>2. \A m \in Known : m \in Nat /\ m <= Max(Known \cup {0})
    BY KnownNumbers, NextNumber
  <2> QED  BY <1>2, <2>1, <2>2, KnownNumbers
<1>6. Turns(c, Idle)
  BY <1>1, IdleFields, TurnTurns DEF AccountShape, Done
<1>7. Cardinality(Active)' \in Nat /\ Cardinality(Active)' + 1 = Cardinality(Active)
  BY <1>1, <1>6, IdleFields, ActiveTurns
<1>8. n \in 1 .. MaxRequests /\ n + Cardinality(Active)' <= acctPast.requests
  <2>1. n >= 1
    <3>1. Max(Known \cup {0}) \in Nat
      BY KnownNumbers, NextNumber
    <3> QED  BY <1>2, <3>1
  <2> QED  BY <1>5, <1>7, <2>1, KnownNumbers, AccountBounds
<1>9. i \in Invite /\ i.n = n /\ invites' = invites \cup {i} /\ n \notin Known
  <2>1. n \notin Known
    BY <1>5, KnownNumbers
  <2> QED  BY <1>3, <1>4, <1>8, <2>1 DEF Invite
<1>10. acctPast' = acctPast /\ acctPast.guests[n] = 0
  BY <1>8, <1>9, KnownNumbers DEF CreateInvite
<1>11. NumbersOK'
  <2>1. \A m \in Known' : m \in Known \/ m = n
    BY <1>9, <1>10 DEF Known
  <2>2. \A m \in Known : m \in Nat /\ m + Cardinality(Active) <= acctPast.requests
    BY KnownNumbers
  <2>3. \A m \in Known' : m + Cardinality(Active)' <= acctPast'.requests
    BY <1>7, <1>8, <1>10, <2>1, <2>2, KnownNumbers
  <2>4. \A t \in api_tokens : t.n \in Nat /\ t.n + Cardinality(Active) <= acctPast.requests + 2
    BY <1>1, AccountBounds DEF AccountInv, NumbersOK, AccountShape, Token
  <2>5. api_tokens' = api_tokens
    BY DEF CreateInvite
  <2>6. \A t \in api_tokens' : t.n + Cardinality(Active)' <= acctPast'.requests + 2
    BY <1>7, <1>10, <2>4, <2>5, KnownNumbers
  <2>7. Cardinality(Active)' <= acctPast'.requests
    BY <1>7, <1>10, KnownNumbers
  <2>8. \A d \in Clients : request'[d].pc = "register" =>
            request'[d].invite + Cardinality(Active)' <= acctPast'.requests
    BY <1>6, <1>7, <1>10, RegistersNumbers
  <2> QED  BY <2>3, <2>6, <2>7, <2>8 DEF NumbersOK
<1>12. \A k \in 1 .. MaxRequests : InviteOK(k)'
  <2>1. \A j \in invites' : j \in invites \/ acctPast.guests[j.n] = 0
    BY <1>9, <1>10
  <2> QED  BY <1>1, <1>6, <1>10, <2>1, IdleFields, InvitesStay
<1>13. invites' \subseteq Invite /\ \A j, k \in invites' : j.n = k.n => j = k
  <2>1. \A j \in invites : j.n # n
    BY <1>9 DEF Known
  <2> QED  BY <1>1, <1>9, <2>1 DEF AccountShape
<1>14. Calm /\ UNCHANGED <<members, api_tokens, ssh_keys, shown>> /\ request' = [request EXCEPT ![c] = Idle]
  BY <1>1 DEF CreateInvite, Calm, Done
<1> QED  BY <1>1, <1>10, <1>11, <1>12, <1>13, <1>14, IdleFields, ReadNobody, CalmInv DEF AccountShape

LEMMA RevokeInviteInv == ASSUME AccountInv, NEW c \in Clients, RevokeInvite(c)  PROVE AccountInv'
<1>1. AccountShape /\ request[c].pc = "asked" /\ Done(c) /\ acctPast \in PastType
  BY DEF AccountInv, AccountShape, RevokeInvite, AdminAsked, Asked
<1>2. PICK i \in invites :
           /\ invites' = invites \ {i}
           /\ acctPast' = [acctPast EXCEPT
                  !.guests[i.n] = Max({@, 1}),
                  !.met = IF \E d \in Clients : request[d].invite = i.n
                          THEN @ \cup {i.n} ELSE @]
  BY DEF RevokeInvite
<1>3. PICK m : m = IF \E d \in Clients : request[d].invite = i.n
                   THEN acctPast.met \cup {i.n} ELSE acctPast.met
  OBVIOUS
<1>4. PICK g : g = [acctPast.guests EXCEPT ![i.n] = Max({@, 1})]
  OBVIOUS
<1>5. i.n \in 1 .. MaxRequests /\ acctPast.guests \in [1 .. MaxRequests -> Nat]
  BY <1>1 DEF AccountShape, Invite, PastType
<1>6. /\ Max({acctPast.guests[i.n], 1}) \in Nat
      /\ acctPast.guests[i.n] <= 1 => Max({acctPast.guests[i.n], 1}) = 1
  <2>1. PICK b : b = acctPast.guests[i.n]
    OBVIOUS
  <2>5. b \in Nat
    BY <1>5, <2>1
  <2>2. b \in Nat /\ {b, 1} \in SUBSET Nat /\ {b, 1} # {}
    BY <2>5
  <2>3. b + 1 \in Nat /\ \A a \in {b, 1} : a <= b + 1
    BY <2>2
  <2>4. Max({b, 1}) \in {b, 1} /\ \A a \in {b, 1} : a <= Max({b, 1})
    BY <2>2, <2>3, MaxPicks
  <2> QED  BY <2>1, <2>2, <2>4
<1>7. /\ g \in [1 .. MaxRequests -> Nat] /\ m \in SUBSET (1 .. MaxRequests)
      /\ acctPast' = [acctPast EXCEPT !.guests = g, !.met = m]
  BY <1>1, <1>2, <1>3, <1>4, <1>5, <1>6 DEF PastType
<1>8. /\ acctPast' \in PastType /\ acctPast'.guests = g /\ acctPast'.met = m
      /\ acctPast'.faults = acctPast.faults /\ acctPast'.requests = acctPast.requests
  BY <1>1, <1>7 DEF PastType
<1>9. Calm /\ UNCHANGED <<members, api_tokens, ssh_keys, shown>> /\ request' = [request EXCEPT ![c] = Idle]
  BY <1>1, <1>7 DEF RevokeInvite, Calm, Done, PastType
<1>10. Turns(c, Idle)
  BY <1>1, <1>9, IdleFields, TurnTurns DEF AccountShape
<1>11. NumbersOK'
  <2>1. \A k \in 1 .. MaxRequests : k # i.n => g[k] = acctPast.guests[k]
    BY <1>4, <1>5
  <2>2. Known' \subseteq Known
    BY <1>2, <1>5, <1>8, <2>1 DEF Known
  <2> QED  BY <1>1, <1>8, <1>9, <1>10, <2>2, IdleFields, NumbersStay
<1>12. ASSUME NEW k \in 1 .. MaxRequests  PROVE InviteOK(k)'
  <2>1. /\ InviteOK(k) /\ k # 0 /\ acctPast.met \subseteq m
    BY <1>3, AccountBounds DEF AccountInv
  <2>2. \A d \in Clients : request'[d].invite = k => request[d].invite = k /\ d # c
    BY <2>1, <1>10, IdleFields DEF Turns
  <2>3. \A d \in Clients : request[d].pc = "burn" => request'[d].pc = "burn" /\ request'[d].invite = request[d].invite
    BY <1>1, <1>10 DEF Turns
  <2>4. \A d \in Clients : request'[d].pc = "register" => request[d].pc = "register"
    BY <1>10, IdleFields DEF Turns
  <2>5. CASE k # i.n
    <3>1. g[k] = acctPast.guests[k]
      BY <1>4, <1>5, <2>5
    <3> QED  BY <1>2, <1>8, <2>1, <2>2, <2>3, <2>4, <3>1 DEF InviteOK
  <2>6. CASE k = i.n /\ k \notin m /\ acctPast.faults = {}
    <3>1. \A d \in Clients : request[d].invite # k
      BY <1>3, <2>6
    <3>2. \A j \in invites' : j.n # k
      BY <1>1, <1>2, <2>6 DEF AccountShape
    <3>3. g[k] <= 1
      BY <1>4, <1>5, <1>6, <2>1, <2>6 DEF InviteOK
    <3> QED  BY <1>8, <2>2, <3>1, <3>2, <3>3 DEF InviteOK
  <2>7. CASE k \in m \/ acctPast.faults # {}
    BY <1>8, <2>7 DEF InviteOK
  <2> QED  BY <2>5, <2>6, <2>7
<1>13. invites' \subseteq Invite /\ \A j, k \in invites' : j.n = k.n => j = k
  BY <1>1, <1>2 DEF AccountShape
<1> QED  BY <1>1, <1>8, <1>9, <1>11, <1>12, <1>13, IdleFields, ReadNobody, CalmInv DEF AccountShape

LEMMA GetValidInviteInv == ASSUME AccountInv, NEW c \in Clients, GetValidInvite(c)  PROVE AccountInv'
<1>1. AccountShape /\ request[c].pc = "idle" /\ acctPast \in PastType /\ acctPast.requests < MaxRequests
  BY DEF AccountInv, AccountShape, GetValidInvite
<1>2. PICK i \in invites :
           /\ ~ i.used
           /\ request' = [request EXCEPT ![c] = [Idle EXCEPT !.pc = "register", !.invite = i.n,
                                                   !.me.role = i.role]]
           /\ acctPast' = [acctPast EXCEPT
                  !.requests = @ + 1,
                  !.met = IF \E d \in Clients : request[d].invite = i.n
                          THEN @ \cup {i.n} ELSE @]
  BY DEF GetValidInvite
<1>3. PICK m : m = IF \E d \in Clients : request[d].invite = i.n
                   THEN acctPast.met \cup {i.n} ELSE acctPast.met
  OBVIOUS
<1>4. PICK n : n = acctPast.requests + 1
  OBVIOUS
<1>5. i.n \in 1 .. MaxRequests /\ i.n \in 0 .. MaxRequests /\ i.n # 0 /\ i.role \in Roles
  BY <1>1, AccountBounds DEF AccountShape, Invite
<1>6. n \in 0 .. MaxRequests /\ m \in SUBSET (1 .. MaxRequests)
  BY <1>1, <1>3, <1>4, <1>5, AccountBounds DEF PastType
<1>7. acctPast' = [acctPast EXCEPT !.requests = n, !.met = m]
  BY <1>1, <1>2, <1>3, <1>4
<1>8. /\ acctPast' \in PastType /\ acctPast'.guests = acctPast.guests /\ acctPast'.met = m
      /\ acctPast'.faults = acctPast.faults /\ acctPast'.requests = acctPast.requests + 1
      /\ Calm /\ UNCHANGED <<members, api_tokens, ssh_keys, shown, invites>>
  BY <1>1, <1>4, <1>6, <1>7 DEF PastType, Calm, GetValidInvite
<1>9. PICK me : me = [NoUser EXCEPT !.role = i.role]
  OBVIOUS
<1>10. me \in SeenUser /\ me.acct = 0 /\ me.role = i.role
  BY <1>5, <1>9, NoUserFields DEF SeenUser
<1>11. PICK e : e = [Idle EXCEPT !.pc = "register", !.invite = i.n, !.me = me]
  OBVIOUS
<1>12. /\ e \in RequestType /\ e.pc = "register" /\ e.invite = i.n /\ e.me = me
       /\ e.target = NoUser
  BY <1>5, <1>10, <1>11, IdleFields DEF RequestType, RequestPCs
<1>13. request' = [request EXCEPT ![c] = e]
  BY <1>2, <1>9, <1>11, IdleFields DEF RequestType
<1>14. Turns(c, e) /\ \A d \in Clients \ {c} : request'[d] = request[d]
  BY <1>1, <1>12, <1>13, TurnTurns DEF AccountShape
<1>15. NumbersOK'
  BY <1>8, <1>12, <1>14, NumbersStay DEF Known
<1>16. ASSUME NEW k \in 1 .. MaxRequests  PROVE InviteOK(k)'
  <2>1. /\ InviteOK(k) /\ acctPast.met \subseteq m /\ acctPast.guests[k] \in Nat
    BY <1>1, <1>3 DEF AccountInv, PastType
  <2>2. CASE k # i.n
    <3>1. \A d \in Clients : request'[d].invite = k => request'[d] = request[d]
      BY <1>12, <1>14, <2>2 DEF Turns
    <3>2. \A d \in Clients : request[d].pc = "burn" => request'[d] = request[d]
      BY <1>1, <1>14
    <3> QED  BY <1>8, <2>1, <3>1, <3>2 DEF InviteOK
  <2>3. CASE k = i.n /\ k \notin m /\ acctPast.faults = {}
    <3>1. \A d \in Clients : request[d].invite # k
      BY <1>3, <2>3
    <3>2. ~ (acctPast.guests[k] > 0)
      BY <1>2, <2>1, <2>3, <3>1 DEF InviteOK
    <3>3. \A d \in Clients : request'[d].invite = k => d = c
      BY <1>14, <3>1
    <3> QED  BY <1>8, <2>1, <3>2, <3>3 DEF InviteOK
  <2>4. CASE k \in m \/ acctPast.faults # {}
    BY <1>8, <2>4 DEF InviteOK
  <2> QED  BY <2>2, <2>3, <2>4
<1>17. Read(e.me) /\ Read(e.target) /\ GateOK(e) /\ ProvedOK(e)
  BY <1>5, <1>10, <1>12, ReadNobody DEF Read, GateOK, ProvedOK
<1> QED  BY <1>1, <1>5, <1>8, <1>12, <1>13, <1>15, <1>16, <1>17, CalmInv DEF AccountShape

LEMMA MarkInviteUsedInv == ASSUME AccountInv, NEW c \in Clients, MarkInviteUsed(c)  PROVE AccountInv'
<1>1. /\ AccountShape /\ request[c].pc = "burn" /\ acctPast \in PastType /\ Goes(c, "mint")
      /\ request[c] \in RequestType /\ Read(request[c].me) /\ Read(request[c].target)
      /\ request[c].me.acct # 0 /\ request[c].invite # 0
      /\ UNCHANGED <<users, api_tokens, ssh_keys, members, shown>>
  BY DEF AccountInv, AccountShape, MarkInviteUsed, ProvedOK
<1>2. PICK e : e = [request[c] EXCEPT !.pc = "mint"]
  OBVIOUS
<1>3. /\ e \in RequestType /\ e.pc = "mint" /\ e.invite = request[c].invite
      /\ e.me = request[c].me /\ e.target = request[c].target
      /\ request' = [request EXCEPT ![c] = e]
  BY <1>1, <1>2 DEF RequestType, RequestPCs, Goes
<1>4. Turns(c, e)
  BY <1>1, <1>3, TurnTurns DEF AccountShape
<1>5. Read(e.me) /\ Read(e.target) /\ GateOK(e) /\ ProvedOK(e)
  BY <1>1, <1>3 DEF GateOK, ProvedOK
<1>6. CASE UNCHANGED invites /\ acctPast' = [acctPast EXCEPT !.faults = {"mark"}]
  <2>1. /\ acctPast' \in PastType /\ acctPast'.faults = {"mark"} /\ Calm
        /\ acctPast'.guests = acctPast.guests /\ acctPast'.requests = acctPast.requests
    BY <1>1, <1>6 DEF PastType, Calm
  <2>2. NumbersOK'
    BY <1>1, <1>4, <1>6, <2>1, NumbersStay, <1>3 DEF Known
  <2>3. \A k \in 1 .. MaxRequests : InviteOK(k)'
    BY <2>1 DEF InviteOK
  <2> QED  BY <1>1, <1>3, <1>5, <1>6, <2>1, <2>2, <2>3, CalmInv DEF AccountShape
<1>7. CASE UNCHANGED acctPast
           /\ invites' = {IF i.n = request[c].invite THEN Burnt(i) ELSE i : i \in invites}
  <2>1. \A i \in invites : /\ Burnt(i) \in Invite /\ Burnt(i).n = i.n /\ Burnt(i).used
                           /\ i \in Invite
    BY <1>1 DEF AccountShape, Invite, Burnt
  <2>2. \A j \in invites' : /\ j \in Invite /\ (j.n = request[c].invite => j.used)
                            /\ j.n # request[c].invite => j \in invites
                            /\ \E i \in invites : i.n = j.n /\ j = IF i.n = request[c].invite THEN Burnt(i) ELSE i
    BY <1>7, <2>1
  <2>3. \A j, k \in invites' : j.n = k.n => j = k
    BY <1>1, <2>2 DEF AccountShape
  <2>4. Known' \subseteq Known
    BY <1>7, <2>2 DEF Known
  <2>5. NumbersOK'
    BY <1>1, <1>3, <1>4, <1>7, <2>4, NumbersStay
  <2>6. ASSUME NEW k \in 1 .. MaxRequests  PROVE InviteOK(k)'
    <3>1. InviteOK(k)
      BY DEF AccountInv
    <3>2. \A d \in Clients : request'[d].invite = request[d].invite
      BY <1>3, <1>4 DEF Turns
    <3>3. \A d \in Clients : request'[d].pc = "register" => request[d].pc = "register"
      BY <1>3, <1>4 DEF Turns
    <3>4. \A d \in Clients : d # c => request'[d].pc = request[d].pc
      BY <1>4 DEF Turns
    <3> QED  BY <1>7, <2>2, <3>1, <3>2, <3>3, <3>4 DEF InviteOK
  <2>7. Calm
    BY <1>1, <1>7 DEF Calm
  <2> QED  BY <1>1, <1>3, <1>5, <1>7, <2>2, <2>3, <2>5, <2>6, <2>7, CalmInv DEF AccountShape
<1> QED  BY <1>6, <1>7 DEF MarkInviteUsed

\* What nobody but c is concerned with: only memberships, and what others may do with them.
LEMMA MembersInv ==
    ASSUME AccountInv, NEW c \in Clients, request[c].pc \in {"join", "leave"}, Turns(c, Idle),
           UNCHANGED <<users, api_tokens, ssh_keys, invites, shown, acctPast>>,
           members' \subseteq Member, \A m, n \in members' : m.uid = n.uid => m = n,
           \A m \in members' :
              \/ m \in members
              \/ \E u \in users : u.id = m.uid /\ (u.acct = m.acct \/ m.acct \in acctPast.crossed),
           \A d \in Clients \ {c} : GateOK(request[d])'
    PROVE  AccountInv'
<1>1. AccountShape /\ Calm /\ request \in [Clients -> RequestType]
  BY DEF AccountInv, AccountShape, Calm
<1>2. Others(c) /\ UsersShape'
  BY <1>1, CalmOthers
<1>3. NumbersOK'
  BY <1>1, IdleFields, NumbersStay DEF Known, AccountShape
<1>4. \A i \in 1 .. MaxRequests : InviteOK(i)'
  BY IdleFields, InvitesStay
<1>5. OwnersMatch'
  BY OwnedStay DEF AccountInv
<1>6. AdminRemains' /\ ChangesProved'
  BY DEF AccountInv, AdminRemains, ChangesProved
<1>7. Read(Idle.me)' /\ Read(Idle.target)' /\ GateOK(Idle)' /\ ProvedOK(Idle)'
  BY IdleFields DEF Read, GateOK, ProvedOK
<1>8. /\ api_tokens' \subseteq Token /\ ssh_keys' \subseteq Key /\ invites' \subseteq Invite
      /\ shown' \subseteq [id : Accounts, acct : Accounts]
      /\ \A k, l \in ssh_keys' : k.key = l.key => k = l
      /\ \A i, j \in invites' : i.n = j.n => i = j
      /\ acctPast' \in PastType
  BY <1>1 DEF AccountShape
<1> QED  BY <1>1, <1>2, <1>3, <1>4, <1>5, <1>6, <1>7, <1>8, IdleFields, AccountInvFrom

LEMMA AddMemberInv == ASSUME AccountInv, NEW c \in Clients, AddMember(c)  PROVE AccountInv'
<1>1. /\ AccountShape /\ request[c].pc = "join" /\ request \in [Clients -> RequestType]
      /\ Read(request[c].target) /\ request[c].target.acct # 0 /\ request[c].target \in SeenUser
      /\ UNCHANGED <<users, api_tokens, ssh_keys, invites, shown, acctPast>>
  BY RequestFields DEF AccountInv, AccountShape, AddMember, ProvedOK
<1>2. CASE Done(c) /\ UNCHANGED members
  BY <1>1, <1>2, NothingDoneInv
<1>3. ASSUME NEW uid, uid = request[c].target.id, WithId(uid) # {}, NEW r \in MemberRoles,
             members' = {m \in members : m.uid # uid} \cup
                     {[uid |-> uid, role |-> r, acct |-> request[c].target.acct]},
             request' = [d \in Clients |->
                     IF d = c THEN Idle
                     ELSE IF request[d].me.id = uid
                     THEN [request[d] EXCEPT !.could = @ \/ r = "member"] ELSE request[d]]
      PROVE  AccountInv'
  <2>1. PICK x : x = [uid |-> uid, role |-> r, acct |-> request[c].target.acct]
    OBVIOUS
  <2>2. PICK u \in users : u.id = uid
    BY <1>3 DEF WithId
  <2>3. /\ x.uid = uid /\ x.role = r /\ x.acct = request[c].target.acct
        /\ members' = {m \in members : m.uid # uid} \cup {x}
    BY <1>3, <2>1
  <2>4. u.acct = x.acct \/ x.acct \in acctPast.crossed
    BY <1>1, <1>3, <2>2, <2>3, ReadOwns
  <2>5. x \in Member
    <3>1. uid \in Accounts
      BY <1>1, <2>2 DEF AccountShape, UsersShape, User
    <3>2. x.acct \in Accounts
      BY <1>1, <2>3, AccountBounds DEF SeenUser
    <3> QED  BY <2>1, <2>3, <3>1, <3>2 DEF Member
  <2>6. \A d \in Clients \ {c} :
           \E b \in BOOLEAN : /\ request'[d] = [request[d] EXCEPT !.could = b]
                              /\ request[d].could => b
                              /\ request[d].me.id = uid /\ r = "member" => b
                              /\ b = request[d].could \/ request[d].me.id = uid
    <3>1. TAKE d \in Clients \ {c}
    <3>2. request[d] \in RequestType
      BY <1>1
    <3>3. CASE request[d].me.id = uid
      <4>1. PICK b \in BOOLEAN : b = (request[d].could \/ r = "member")
        OBVIOUS
      <4>2. request'[d] = [request[d] EXCEPT !.could = b]
        BY <1>3, <3>3, <4>1
      <4> QED  BY <3>3, <4>1, <4>2
    <3>4. CASE request[d].me.id # uid
      <4>1. request'[d] = request[d] /\ request[d].could \in BOOLEAN
        BY <1>3, <3>2, <3>4 DEF RequestType
      <4>2. request[d] = [request[d] EXCEPT !.could = request[d].could]
        BY <3>2 DEF RequestType
      <4> QED  BY <3>4, <4>1, <4>2
    <3> QED  BY <3>3, <3>4
  <2>7. Turns(c, Idle)
    <3>1. request'[c] = Idle /\ Idle \in RequestType /\ DOMAIN request' = Clients
      BY <1>3, IdleFields
    <3>2. \A d \in Clients \ {c} :
             /\ request'[d] \in RequestType
             /\ request'[d].pc = request[d].pc /\ request'[d].me = request[d].me
             /\ request'[d].target = request[d].target /\ request'[d].proved = request[d].proved
             /\ request'[d].invite = request[d].invite
      BY <1>1, <2>6 DEF RequestType
    <3>3. request' = [d \in Clients |-> request'[d]]
      BY <1>3
    <3> QED  BY <3>1, <3>2, <3>3 DEF Turns
  <2>8. ASSUME NEW d \in Clients \ {c}  PROVE GateOK(request[d])'
    <3>1. PICK b \in BOOLEAN : /\ request'[d] = [request[d] EXCEPT !.could = b]
                               /\ request[d].could => b
                               /\ request[d].me.id = uid /\ r = "member" => b
                               /\ b = request[d].could \/ request[d].me.id = uid
      BY <2>6
    <3>2. /\ request'[d].pc = request[d].pc /\ request'[d].me = request[d].me
          /\ request'[d].could = b /\ request'[d].out = request[d].out
      <4>1. PICK o \in RequestType : o = request[d]
        BY <1>1
      <4>2. request'[d] = [o EXCEPT !.could = b]
        BY <3>1, <4>1
      <4> QED  BY <4>1, <4>2 DEF RequestType
    <3>8. GateOK(request[d])
      BY DEF AccountInv
    <3>3. \A id : id # uid => (RoleOf(id))' = RoleOf(id)
      BY <2>3 DEF RoleOf
    <3>4. (RoleOf(uid))' = {r}
      BY <2>3 DEF RoleOf
    <3>5. r = "member" \/ r = "viewer"
      BY <1>3 DEF MemberRoles
    <3>9. acctPast' = acctPast
      BY <1>1
    <3>6. CASE request[d].me.id # uid
      <4>1. RoleOf(request[d].me.id)' = RoleOf(request[d].me.id)
        BY <3>2, <3>6, <2>3 DEF RoleOf
      <4> QED  BY <3>1, <3>2, <3>6, <3>8, <3>9, <4>1 DEF GateOK
    <3>7. CASE request[d].me.id = uid
      <4>1. RoleOf(request[d].me.id)' = {r}
        BY <3>2, <3>7, <2>3 DEF RoleOf
      <4> QED  BY <3>1, <3>2, <3>5, <3>7, <3>8, <3>9, <4>1 DEF GateOK
    <3> QED  BY <3>6, <3>7
  <2>9. members' \subseteq Member /\ \A m, n \in members' : m.uid = n.uid => m = n
    BY <1>1, <2>3, <2>5 DEF AccountShape
  <2> QED  BY <1>1, <2>2, <2>3, <2>4, <2>7, <2>8, <2>9, MembersInv
<1>4. \/ Done(c) /\ UNCHANGED members
      \/ \E uid : \E r \in MemberRoles :
             /\ uid = request[c].target.id /\ WithId(uid) # {}
             /\ members' = {m \in members : m.uid # uid} \cup
                     {[uid |-> uid, role |-> r, acct |-> request[c].target.acct]}
             /\ request' = [d \in Clients |->
                     IF d = c THEN Idle
                     ELSE IF request[d].me.id = uid
                     THEN [request[d] EXCEPT !.could = @ \/ r = "member"] ELSE request[d]]
  BY DEF AddMember
<1> QED  BY <1>2, <1>3, <1>4

LEMMA RemoveMemberInv == ASSUME AccountInv, NEW c \in Clients, RemoveMember(c)  PROVE AccountInv'
<1>1. /\ AccountShape /\ request[c].pc = "leave" /\ request \in [Clients -> RequestType]
      /\ UNCHANGED <<users, api_tokens, ssh_keys, invites, shown, acctPast>>
  BY DEF AccountInv, AccountShape, RemoveMember
<1>2. PICK uid : /\ members' = {m \in members : m.uid # uid}
                 /\ request' = [d \in Clients |->
                        IF d = c THEN Idle
                        ELSE IF request[d].me.id = uid THEN [request[d] EXCEPT !.out = TRUE]
                        ELSE request[d]]
  BY DEF RemoveMember
<1>3. ASSUME NEW d \in Clients \ {c}
      PROVE  /\ request'[d] \in RequestType
             /\ request'[d].pc = request[d].pc /\ request'[d].me = request[d].me
             /\ request'[d].target = request[d].target /\ request'[d].proved = request[d].proved
             /\ request'[d].invite = request[d].invite /\ request'[d].could = request[d].could
             /\ request'[d].out \/ ~ request[d].out
             /\ request'[d].out \/ request[d].me.id # uid
  <2>1. PICK o \in RequestType : o = request[d]
    BY <1>1
  <2>2. request'[d] = IF o.me.id = uid THEN [o EXCEPT !.out = TRUE] ELSE o
    BY <1>2, <2>1
  <2> QED  BY <2>1, <2>2 DEF RequestType
<1>4. Turns(c, Idle)
  <2>1. request'[c] = Idle /\ Idle \in RequestType
    BY <1>2, IdleFields
  <2>2. request' = [d \in Clients |-> request'[d]]
    BY <1>2
  <2> QED  BY <1>3, <2>1, <2>2 DEF Turns
<1>5. ASSUME NEW d \in Clients \ {c}  PROVE GateOK(request[d])'
  <2>1. GateOK(request[d]) /\ acctPast' = acctPast
    BY <1>1 DEF AccountInv
  <2>2. RoleOf(request[d].me.id)' = IF request[d].me.id = uid THEN {} ELSE RoleOf(request[d].me.id)
    BY <1>2, <1>3 DEF RoleOf
  <2> QED  BY <1>3, <2>1, <2>2 DEF GateOK
<1>6. /\ members' \subseteq Member /\ members' \subseteq members
      /\ \A m, n \in members' : m.uid = n.uid => m = n
  BY <1>1, <1>2 DEF AccountShape
<1> QED  BY <1>1, <1>4, <1>5, <1>6, MembersInv

\* One row of an account is changed, but not whose it is.
Rewrites(u, v) ==
    /\ u \in users /\ v \in User /\ v.id = u.id /\ v.acct = u.acct /\ v.role = u.role
    /\ WithEmail(v.email) \subseteq {u}
    /\ Update(u.id, v)

LEMMA RewrittenUsers ==
    ASSUME AccountInv, NEW u, NEW v, Rewrites(u, v), acctPast'.accounts = acctPast.accounts
    PROVE  /\ UsersShape'
           /\ users' = (users \ {u}) \cup {v}
           /\ \A w \in users' : w = v \/ w \in users
           /\ \A w \in users : w = u \/ w \in users'
<1>1. /\ users \subseteq User /\ v \in User /\ u \in users
      /\ \A w \in users : w.id <= acctPast.accounts /\ w.acct <= acctPast.accounts
      /\ \A w, x \in users : w.id = x.id \/ w.email = x.email \/ w.acct = x.acct => w = x
  BY DEF AccountInv, AccountShape, UsersShape, Rewrites
<1>2. WithId(u.id) = {u}
  BY <1>1 DEF WithId
<1>3. users' = (users \ {u}) \cup {v}
  BY <1>2 DEF Rewrites, Update
<1>4. \A w \in users \ {u} : w.id # v.id /\ w.acct # v.acct /\ w.email # v.email
  BY <1>1 DEF Rewrites, WithEmail
<1>5. UsersShape'
  BY <1>1, <1>3, <1>4 DEF UsersShape, Rewrites
<1> QED  BY <1>3, <1>5

\* A request that ends having changed one account.
LEMMA RewritesInv ==
    ASSUME AccountInv, NEW c \in Clients, request[c].pc \notin {"idle", "burn"}, Done(c),
           NEW u, NEW v, Rewrites(u, v),
           UNCHANGED <<api_tokens, ssh_keys, members, invites, shown>>,
           NEW slips \in SUBSET Accounts, NEW moved \in SUBSET Accounts,
           acctPast' = [acctPast EXCEPT !.slips = slips, !.moved = moved],
           acctPast.moved \subseteq moved, slips \subseteq acctPast.crossed \cup moved,
           v.email = u.email \/ u.acct \in moved \/ ~ Held(u.acct, c)
    PROVE  AccountInv'
<1>1. /\ AccountShape /\ acctPast \in PastType /\ request' = [request EXCEPT ![c] = Idle]
      /\ request \in [Clients -> RequestType]
  BY DEF AccountInv, AccountShape, Done
<1>2. /\ acctPast' \in PastType /\ acctPast'.slips = slips /\ acctPast'.moved = moved
      /\ acctPast'.accounts = acctPast.accounts /\ acctPast'.crossed = acctPast.crossed
      /\ acctPast'.alone = acctPast.alone /\ acctPast'.guests = acctPast.guests
      /\ acctPast'.met = acctPast.met /\ acctPast'.faults = acctPast.faults
      /\ acctPast'.requests = acctPast.requests
  BY <1>1 DEF PastType
<1>3. Turns(c, Idle) /\ \A d \in Clients \ {c} : request'[d] = request[d]
  BY <1>1, IdleFields, TurnTurns
<1>4. /\ UsersShape' /\ (\A w \in users' : w = v \/ w \in users)
      /\ (\A w \in users : w = u \/ w \in users') /\ v \in users'
  BY <1>2, RewrittenUsers
<1>5. u \in users /\ v.id = u.id /\ v.acct = u.acct /\ v.role = u.role
  BY DEF Rewrites
<1>6. Others(c)
  <2>1. acctPast.accounts \in Nat
    BY <1>1, AccountBounds DEF PastType
  <2> QED  BY <1>2, <1>4, <1>5, <2>1 DEF Others
<1>7. NumbersOK'
  BY <1>2, <1>3, IdleFields, NumbersStay DEF Known
<1>8. \A i \in 1 .. MaxRequests : InviteOK(i)'
  BY <1>2, <1>3, IdleFields, InvitesStay
<1>9. OwnersMatch'
  <2>1. \A x \in users : \E y \in users' : y.id = x.id /\ y.acct = x.acct
    BY <1>4, <1>5
  <2> QED  BY <1>2, <2>1, OwnedStay DEF AccountInv
<1>10. AdminRemains' /\ ChangesProved'
  BY <1>2, <1>4, <1>5 DEF AccountInv, AdminRemains, ChangesProved
<1>11. Read(Idle.me)' /\ Read(Idle.target)' /\ GateOK(Idle)' /\ ProvedOK(Idle)'
  BY IdleFields DEF Read, GateOK, ProvedOK
<1>12. \A d \in Clients \ {c} : GateOK(request[d])'
  <2>1. \A d \in Clients : GateOK(request[d])
    BY DEF AccountInv
  <2> QED  BY <1>2, <1>3, <2>1 DEF GateOK, RoleOf
<1>13. /\ api_tokens' \subseteq Token /\ ssh_keys' \subseteq Key /\ invites' \subseteq Invite
       /\ members' \subseteq Member /\ \A m, n \in members' : m.uid = n.uid => m = n
       /\ shown' \subseteq [id : Accounts, acct : Accounts]
       /\ \A k, l \in ssh_keys' : k.key = l.key => k = l
       /\ \A i, j \in invites' : i.n = j.n => i = j
  BY <1>1 DEF AccountShape
<1> QED  BY <1>1, <1>2, <1>3, <1>4, <1>6, <1>7, <1>8, <1>9, <1>10, <1>11, <1>12, <1>13,
            IdleFields, AccountInvFrom

LEMMA SetsPasswordInv == ASSUME AccountInv, NEW c \in Clients, SetsPassword(c)  PROVE AccountInv'
<1>1. PICK u \in users, p \in People : Update(u.id, [u EXCEPT !.secret = p])
  BY DEF SetsPassword
<1>2. PICK v : v = [u EXCEPT !.secret = p]
  OBVIOUS
<1>3. /\ AccountShape /\ acctPast \in PastType /\ u \in User /\ request[c].pc = "asked" /\ Done(c)
      /\ acctPast' = acctPast /\ ChangesProved
      /\ UNCHANGED <<api_tokens, ssh_keys, members, invites, shown>>
  BY DEF AccountInv, AccountShape, UsersShape, SetsPassword, AdminAsked, Asked
<1>4. v \in User /\ v.id = u.id /\ v.acct = u.acct /\ v.role = u.role /\ v.email = u.email
  BY <1>2, <1>3 DEF User
<1>5. WithEmail(v.email) \subseteq {u}
  BY <1>3, <1>4 DEF AccountShape, UsersShape, WithEmail
<1>6. Rewrites(u, v)
  BY <1>1, <1>2, <1>3, <1>4, <1>5 DEF Rewrites
<1>7. PICK slips \in SUBSET Accounts, moved \in SUBSET Accounts :
          slips = acctPast.slips /\ moved = acctPast.moved
  BY <1>3 DEF PastType
<1>8. acctPast' = [acctPast EXCEPT !.slips = slips, !.moved = moved]
  BY <1>3, <1>7 DEF PastType
<1>9. acctPast.moved \subseteq moved /\ slips \subseteq acctPast.crossed \cup moved
  BY <1>3, <1>7 DEF ChangesProved
<1>10. /\ request[c].pc \notin {"idle", "burn"} /\ Done(c) /\ v.email = u.email
       /\ UNCHANGED <<api_tokens, ssh_keys, members, invites, shown>>
  BY <1>3, <1>4
<1> QED  BY <1>6, <1>8, <1>9, <1>10, RewritesInv

\* A change that was not proved by the own password is in the history.
LEMMA SlipsProved ==
    ASSUME AccountInv, NEW c \in Clients, request[c].pc \in {"password", "email"},
           NEW u \in WithId(request[c].me.id)
    PROVE  /\ Slips(c, u) \in SUBSET Accounts
           /\ Slips(c, u) \subseteq acctPast.crossed \cup acctPast.moved
<1>1. /\ Read(request[c].me) /\ request[c].me \in SeenUser /\ request[c].me.acct # 0
      /\ acctPast \in PastType /\ ChangesProved /\ u \in users /\ u.id = request[c].me.id
      /\ \/ request[c].proved = request[c].me.acct
         \/ request[c].me.acct \in acctPast.crossed \cup acctPast.moved
  BY RequestFields DEF AccountInv, AccountShape, ProvedOK, WithId
<1>2. u.acct = request[c].me.acct \/ request[c].me.acct \in acctPast.crossed
  BY <1>1, ReadOwns
<1>3. request[c].me.acct \in Accounts
  BY <1>1, AccountBounds DEF SeenUser
<1> QED  BY <1>1, <1>2, <1>3 DEF Slips, ChangesProved, PastType

LEMMA ChangePasswordInv == ASSUME AccountInv, NEW c \in Clients, ChangePassword(c)  PROVE AccountInv'
<1>1. /\ AccountShape /\ acctPast \in PastType /\ request[c].pc = "password" /\ Done(c)
      /\ UNCHANGED <<api_tokens, ssh_keys, members, invites, shown>>
  BY DEF AccountInv, AccountShape, ChangePassword
<1>2. CASE UNCHANGED <<users, acctPast>>
  BY <1>1, <1>2, NothingDoneInv
<1>3. ASSUME NEW u \in WithId(request[c].me.id), NEW p \in People,
             Update(u.id, [u EXCEPT !.secret = p]),
             acctPast' = [acctPast EXCEPT !.slips = Slips(c, u)]
      PROVE  AccountInv'
  <2>1. PICK v : v = [u EXCEPT !.secret = p]
    OBVIOUS
  <2>2. u \in users /\ u \in User
    BY <1>1 DEF WithId, AccountShape, UsersShape
  <2>3. v \in User /\ v.id = u.id /\ v.acct = u.acct /\ v.role = u.role /\ v.email = u.email
    BY <2>1, <2>2 DEF User
  <2>4. WithEmail(v.email) \subseteq {u}
    BY <1>1, <2>2, <2>3 DEF AccountShape, UsersShape, WithEmail
  <2>5. Rewrites(u, v)
    BY <1>3, <2>1, <2>2, <2>3, <2>4 DEF Rewrites
  <2>6. PICK slips \in SUBSET Accounts : slips = Slips(c, u)
    BY <1>1, SlipsProved
  <2>7. slips \subseteq acctPast.crossed \cup acctPast.moved
    BY <1>1, <2>6, SlipsProved
  <2>8. PICK moved \in SUBSET Accounts : moved = acctPast.moved
    BY <1>1 DEF PastType
  <2>9. acctPast' = [acctPast EXCEPT !.slips = slips, !.moved = moved]
    BY <1>1, <1>3, <2>6, <2>8 DEF PastType
  <2> QED  BY <1>1, <2>3, <2>5, <2>7, <2>8, <2>9, RewritesInv
<1> QED  BY <1>2, <1>3 DEF ChangePassword

LEMMA ChangeEmailInv == ASSUME AccountInv, NEW c \in Clients, ChangeEmail(c)  PROVE AccountInv'
<1>1. /\ AccountShape /\ acctPast \in PastType /\ request[c].pc = "email" /\ Done(c)
      /\ UNCHANGED <<api_tokens, ssh_keys, members, invites, shown>>
  BY DEF AccountInv, AccountShape, ChangeEmail
<1>2. CASE UNCHANGED <<users, acctPast>>
  BY <1>1, <1>2, NothingDoneInv
<1>3. ASSUME NEW u \in WithId(request[c].me.id), NEW a \in People, WithEmail(a) \subseteq {u},
             Update(u.id, [u EXCEPT !.email = a]),
             acctPast' = [acctPast EXCEPT !.slips = Slips(c, u),
                          !.moved = IF Held(u.acct, c) THEN @ \cup {u.acct} ELSE @]
      PROVE  AccountInv'
  <2>1. PICK v : v = [u EXCEPT !.email = a]
    OBVIOUS
  <2>2. u \in users /\ u \in User
    BY <1>1 DEF WithId, AccountShape, UsersShape
  <2>3. v \in User /\ v.id = u.id /\ v.acct = u.acct /\ v.role = u.role /\ v.email = a
    BY <2>1, <2>2 DEF User
  <2>4. Rewrites(u, v)
    BY <1>3, <2>1, <2>2, <2>3 DEF Rewrites
  <2>5. PICK slips \in SUBSET Accounts : slips = Slips(c, u)
    BY <1>1, SlipsProved
  <2>6. slips \subseteq acctPast.crossed \cup acctPast.moved
    BY <1>1, <2>5, SlipsProved
  <2>7. PICK moved \in SUBSET Accounts :
            moved = IF Held(u.acct, c) THEN acctPast.moved \cup {u.acct} ELSE acctPast.moved
    BY <1>1, <2>2 DEF PastType, User
  <2>8. acctPast' = [acctPast EXCEPT !.slips = slips, !.moved = moved]
    BY <1>1, <1>3, <2>5, <2>7 DEF PastType
  <2>9. /\ acctPast.moved \subseteq moved /\ slips \subseteq acctPast.crossed \cup moved
        /\ u.acct \in moved \/ ~ Held(u.acct, c)
    BY <2>6, <2>7
  <2>10. request[c].pc \notin {"idle", "burn"}
    BY <1>1
  <2> QED  BY <1>1, <2>4, <2>8, <2>9, <2>10, RewritesInv
<1> QED  BY <1>2, <1>3 DEF ChangeEmail

\* The next id and the next account are nobody's.
LEMMA NewUserFresh ==
    ASSUME AccountInv, NEW a \in People, NEW role \in Roles, MayCreate(a),
           users' = users \cup {NewUser(a, role)},
           acctPast'.accounts = acctPast.accounts + 1
    PROVE  /\ NewUser(a, role) \in User /\ NewUser(a, role).acct = acctPast.accounts + 1
           /\ UsersShape' /\ acctPast.accounts + 1 \in 1 .. MaxAccounts
<1>1. PICK ids \in SUBSET Nat : ids = {u.id : u \in users}
  <2>1. \A u \in users : u.id \in Nat
    BY AccountBounds DEF AccountInv, AccountShape, UsersShape, User
  <2> QED  BY <2>1
<1>2. PICK k : k = acctPast.accounts
  OBVIOUS
<1>3. k \in Nat /\ k < MaxAccounts /\ MaxAccounts \in Nat /\ acctPast'.accounts = k + 1
  BY <1>2, AccountBounds DEF AccountInv, AccountShape, PastType, MayCreate
<1>4. /\ users \subseteq User
      /\ \A u \in users : u.id <= k /\ u.acct <= k /\ u.id \in Nat /\ u.acct \in Nat
      /\ \A u, v \in users : u.id = v.id \/ u.email = v.email \/ u.acct = v.acct => u = v
  BY <1>2, AccountBounds DEF AccountInv, AccountShape, UsersShape, User
<1>5. 0 \in Nat /\ 0 <= k /\ \A m \in ids : m + 0 <= k
  BY <1>1, <1>3, <1>4
<1>6. /\ Max(ids \cup {0}) \in Nat /\ Max(ids \cup {0}) + 0 <= k
      /\ \A m \in ids : m <= Max(ids \cup {0})
  BY <1>3, <1>5, NextNumber
<1>7. PICK n : n = Max(ids \cup {0}) + 1
  OBVIOUS
<1>8. n \in 1 .. MaxAccounts /\ n <= k + 1 /\ \A u \in users : u.id < n
  <2>1. PICK m \in Nat : m = Max(ids \cup {0})
    BY <1>6
  <2>2. m <= k /\ n = m + 1 /\ \A u \in users : u.id <= m
    <3>1. m + 0 <= k /\ n = m + 1 /\ \A i \in ids : i <= m
      BY <1>6, <1>7, <2>1
    <3>2. \A u \in users : u.id \in ids
      BY <1>1
    <3>3. m <= k
      BY <1>3, <3>1
    <3> QED  BY <3>1, <3>2, <3>3
  <2> QED  BY <1>3, <1>4, <2>2
<1>9. PICK w : w = NewUser(a, role)
  OBVIOUS
<1>10. w = [id |-> n, email |-> a, role |-> role, secret |-> a, acct |-> k + 1]
  BY <1>1, <1>2, <1>7, <1>9 DEF NewUser
<1>11. w \in User /\ w.id = n /\ w.email = a /\ w.acct = k + 1 /\ users' = users \cup {w}
  BY <1>3, <1>8, <1>9, <1>10 DEF User, Accounts
<1>12. \A u \in users : u.email # a
  BY DEF MayCreate, WithEmail
<1>13. /\ users' \subseteq User
       /\ \A u \in users' : u.id <= acctPast'.accounts /\ u.acct <= acctPast'.accounts
  BY <1>3, <1>4, <1>8, <1>11
<1>14. \A u \in users : u.id # n /\ u.acct # k + 1
  BY <1>3, <1>4, <1>8
<1>15. \A u, v \in users' : u.id = v.id \/ u.email = v.email \/ u.acct = v.acct => u = v
  BY <1>4, <1>11, <1>12, <1>14
<1>16. UsersShape'
  BY <1>13, <1>15 DEF UsersShape
<1> QED  BY <1>2, <1>3, <1>9, <1>11, <1>16

\* A request that makes an account, and ends or goes on to use its invite up.
Adds(c, u, e, g) ==
    /\ \E a \in People, role \in Roles : MayCreate(a) /\ u = NewUser(a, role)
    /\ users' = users \cup {u}
    /\ request[c].pc \notin {"idle", "burn"} /\ request' = [request EXCEPT ![c] = e]
    /\ acctPast' = [acctPast EXCEPT !.accounts = @ + 1, !.guests = g]
    /\ UNCHANGED <<api_tokens, ssh_keys, members, invites, shown>>

LEMMA AddsInv ==
    ASSUME AccountInv, NEW c \in Clients, NEW u, NEW e \in RequestType,
           NEW g \in [1 .. MaxRequests -> Nat], Adds(c, u, e, g),
           \A i \in 1 .. MaxRequests : g[i] > 0 =>
              acctPast.guests[i] > 0 \/ (request[c].pc = "register" /\ i = request[c].invite),
           e.pc # "register", e.pc = "burn" => e.invite # 0,
           \A i \in 1 .. MaxRequests : InviteOK(i)',
           e.me = u \/ e.me.acct = 0, e.target.acct = 0 \/ e.target = request[c].target,
           GateOK(e)', ProvedOK(e)'
    PROVE  AccountInv'
<1>1. /\ AccountShape /\ acctPast \in PastType /\ request \in [Clients -> RequestType]
      /\ users' = users \cup {u}
      /\ request[c].pc \notin {"idle", "burn"} /\ request' = [request EXCEPT ![c] = e]
      /\ acctPast' = [acctPast EXCEPT !.accounts = @ + 1, !.guests = g]
      /\ UNCHANGED <<api_tokens, ssh_keys, members, invites, shown>>
  BY DEF AccountInv, AccountShape, Adds
<1>2. PICK n : n = acctPast.accounts + 1
  OBVIOUS
<1>3. acctPast' = [acctPast EXCEPT !.accounts = n, !.guests = g]
  BY <1>1, <1>2
<1>4. acctPast'.accounts = n
  BY <1>1, <1>3 DEF PastType
<1>5. UsersShape' /\ u \in User /\ u.acct = n /\ n \in 1 .. MaxAccounts
  <2>1. PICK a \in People, role \in Roles : MayCreate(a) /\ u = NewUser(a, role)
    BY DEF Adds
  <2> QED  BY <1>1, <1>2, <1>4, <2>1, NewUserFresh
<1>6. /\ acctPast' \in PastType /\ acctPast'.guests = g
      /\ acctPast'.accounts = n /\ acctPast'.crossed = acctPast.crossed
      /\ acctPast'.alone = acctPast.alone /\ acctPast'.moved = acctPast.moved
      /\ acctPast'.slips = acctPast.slips /\ acctPast'.requests = acctPast.requests
  BY <1>1, <1>3, <1>5 DEF PastType
<1>7. Turns(c, e) /\ \A d \in Clients \ {c} : request'[d] = request[d]
  BY <1>1, TurnTurns
<1>8. acctPast.accounts \in Nat /\ acctPast.accounts < n
  BY <1>1, <1>2, AccountBounds DEF PastType
<1>9. Others(c)
  <2>1. \A v \in users' : v.acct <= acctPast.accounts => v \in users
    BY <1>1, <1>5, <1>8
  <2> QED  BY <1>1, <1>6, <1>8, <2>1 DEF Others
<1>10. NumbersOK'
  <2>1. \A i \in Known' : i \in Known \/ (request[c].pc = "register" /\ i = request[c].invite)
    BY <1>1, <1>6 DEF Known
  <2> QED  BY <1>1, <1>6, <1>7, <2>1, NumbersStay
<1>11. OwnersMatch'
  BY <1>1, <1>6, OwnedStay DEF AccountInv
<1>12. AdminRemains' /\ ChangesProved'
  BY <1>1, <1>6 DEF AccountInv, AdminRemains, ChangesProved
<1>13. Read(e.me)' /\ Read(e.target)'
  <2>1. ASSUME NEW v, v = u  PROVE Read(v)'
    <3>1. \A w \in users' : w.acct = u.acct => w = u
      BY <1>1, <1>5 DEF UsersShape
    <3> QED  BY <1>1, <1>4, <1>5, <2>1, <3>1, AccountBounds DEF Read
  <2>2. ASSUME NEW v, v.acct = 0  PROVE Read(v)'
    BY <2>2 DEF Read
  <2>3. Read(request[c].target)
    BY DEF AccountInv
  <2>4. ASSUME NEW v \in SeenUser, Read(v)  PROVE Read(v)'
    <3>1. v.acct \in Nat
      BY AccountBounds DEF SeenUser
    <3>2. \A w \in users' : w.acct = v.acct /\ v.acct <= acctPast.accounts => w \in users
      BY <1>1, <1>5, <1>8
    <3> QED  BY <1>1, <1>6, <1>8, <2>4, <3>1, <3>2 DEF Read
  <2>5. Read(e.target)'
    BY <1>1, <2>2, <2>3, <2>4, RequestFields
  <2> QED  BY <2>1, <2>2, <2>5
<1>14. \A d \in Clients \ {c} : GateOK(request[d])'
  <2>1. \A d \in Clients : GateOK(request[d])
    BY DEF AccountInv
  <2> QED  BY <1>1, <1>6, <1>7, <2>1 DEF GateOK, RoleOf
<1>15. /\ api_tokens' \subseteq Token /\ ssh_keys' \subseteq Key /\ invites' \subseteq Invite
       /\ members' \subseteq Member /\ \A m, k \in members' : m.uid = k.uid => m = k
       /\ shown' \subseteq [id : Accounts, acct : Accounts]
       /\ \A k, l \in ssh_keys' : k.key = l.key => k = l
       /\ \A i, j \in invites' : i.n = j.n => i = j
  BY <1>1 DEF AccountShape
<1>16. e.pc \in {"register", "burn"} => e.invite # 0
  OBVIOUS
<1> QED  BY <1>5, <1>6, <1>7, <1>9, <1>10, <1>11, <1>12, <1>13, <1>14, <1>15, <1>16, AccountInvFrom

LEMMA CreateUserInv == ASSUME AccountInv, NEW c \in Clients, CreateUser(c)  PROVE AccountInv'
<1>1. /\ AccountShape /\ acctPast \in PastType /\ request[c].pc = "asked"
      /\ request' = [request EXCEPT ![c] = Idle] /\ request \in [Clients -> RequestType]
      /\ UNCHANGED <<api_tokens, ssh_keys, members, invites, shown>>
  BY DEF AccountInv, AccountShape, CreateUser, AdminAsked, Asked, Done
<1>2. PICK a \in People, r \in Roles :
          /\ MayCreate(a) /\ users' = users \cup {NewUser(a, r)}
          /\ acctPast' = [acctPast EXCEPT !.accounts = @ + 1]
  BY DEF CreateUser
<1>3. PICK u : u = NewUser(a, r)
  OBVIOUS
<1>4. PICK g \in [1 .. MaxRequests -> Nat] : g = acctPast.guests
  BY <1>1 DEF PastType
<1>5. PICK n : n = acctPast.accounts + 1
  OBVIOUS
<1>6. acctPast' = [acctPast EXCEPT !.accounts = n, !.guests = g]
  BY <1>1, <1>2, <1>4, <1>5 DEF PastType
<1>7. acctPast' = [acctPast EXCEPT !.accounts = @ + 1, !.guests = g]
  BY <1>5, <1>6
<1>8. \A i \in 1 .. MaxRequests : InviteOK(i)'
  <2>1. Turns(c, Idle)
    BY <1>1, IdleFields, TurnTurns
  <2>2. /\ acctPast'.guests = acctPast.guests /\ acctPast'.met = acctPast.met
        /\ acctPast'.faults = acctPast.faults
    BY <1>1, <1>4, <1>6 DEF PastType
  <2> QED  BY <1>1, <2>1, <2>2, IdleFields, InvitesStay
<1>9. GateOK(Idle)' /\ ProvedOK(Idle)'
  BY IdleFields DEF GateOK, ProvedOK
<1>10. users' = users \cup {u}
  BY <1>2, <1>3
<1>11. /\ Idle \in RequestType /\ Idle.pc # "register" /\ Idle.pc # "burn"
       /\ Idle.me.acct = 0 /\ Idle.target.acct = 0
  BY <1>1, <1>2, IdleFields
<1>12. \A i \in 1 .. MaxRequests : g[i] > 0 => acctPast.guests[i] > 0
  BY <1>4
<1>13. Adds(c, u, Idle, g)
  BY <1>1, <1>2, <1>3, <1>7, <1>10 DEF Adds
<1> QED  BY <1>8, <1>9, <1>11, <1>12, <1>13, AddsInv

LEMMA RegistersInv == ASSUME AccountInv, NEW c \in Clients, Registers(c)  PROVE AccountInv'
<1>1. /\ AccountShape /\ acctPast \in PastType /\ request[c].pc = "register"
      /\ request[c] \in RequestType /\ request \in [Clients -> RequestType]
      /\ request[c].me.role \in Roles /\ request[c].invite \in 1 .. MaxRequests
      /\ UNCHANGED <<api_tokens, ssh_keys, members, invites, shown>>
  <2>1. /\ AccountShape /\ request[c].pc = "register" /\ ProvedOK(request[c])
        /\ UNCHANGED <<api_tokens, ssh_keys, members, invites, shown>>
    BY DEF AccountInv, Registers
  <2>2. request[c].invite \in 0 .. MaxRequests /\ request[c].invite # 0
    BY <2>1, RequestFields DEF AccountShape
  <2> QED  BY <2>1, <2>2, AccountBounds DEF AccountShape, ProvedOK
<1>2. CASE Done(c) /\ UNCHANGED <<users, acctPast>>
  BY <1>1, <1>2, NothingDoneInv
<1>3. ASSUME NEW a \in People, NEW u, u = NewUser(a, request[c].me.role), MayCreate(a),
             users' = users \cup {u}, request' = [request EXCEPT ![c].pc = "burn", ![c].me = u],
             acctPast' = [acctPast EXCEPT !.accounts = @ + 1,
                                                !.guests[request[c].invite] = @ + 1]
      PROVE  AccountInv'
  <2>1. PICK i \in 1 .. MaxRequests : i = request[c].invite
    BY <1>1
  <2>2. PICK role \in Roles : role = request[c].me.role
    BY <1>1
  <2>3. PICK g : g = [acctPast.guests EXCEPT ![i] = @ + 1]
    OBVIOUS
  <2>4. /\ g \in [1 .. MaxRequests -> Nat] /\ g[i] = acctPast.guests[i] + 1
        /\ acctPast.guests[i] \in Nat
        /\ \A k \in 1 .. MaxRequests : k # i => g[k] = acctPast.guests[k]
    <3>1. acctPast.guests \in [1 .. MaxRequests -> Nat]
      BY <1>1 DEF PastType
    <3>2. acctPast.guests[i] \in Nat
      BY <3>1
    <3>3. PICK b \in Nat : b = acctPast.guests[i] + 1
      <4>1. ASSUME NEW h \in Nat  PROVE h + 1 \in Nat
        OBVIOUS
      <4> QED  BY <3>2, <4>1
    <3>4. g = [acctPast.guests EXCEPT ![i] = b]
      BY <2>3, <3>3
    <3> QED  BY <3>1, <3>2, <3>3, <3>4
  <2>5. acctPast' = [acctPast EXCEPT !.accounts = @ + 1, !.guests = g]
    BY <1>3, <2>1, <2>3
  <2>6. PICK n : n = acctPast.accounts + 1
    OBVIOUS
  <2>7. acctPast' = [acctPast EXCEPT !.accounts = n, !.guests = g]
    BY <2>5, <2>6
  <2>8. acctPast'.accounts = acctPast.accounts + 1
    BY <1>1, <2>6, <2>7 DEF PastType
  <2>9. u \in User /\ u.acct = acctPast.accounts + 1 /\ acctPast.accounts + 1 \in 1 .. MaxAccounts
    BY <1>3, <2>2, <2>8, NewUserFresh
  <2>10. PICK e : e = [request[c] EXCEPT !.pc = "burn", !.me = u]
    OBVIOUS
  <2>11. /\ e \in RequestType /\ e.pc = "burn" /\ e.me = u /\ e.invite = i
         /\ e.target = request[c].target /\ request' = [request EXCEPT ![c] = e]
    BY <1>1, <1>3, <2>1, <2>9, <2>10, UserSeen DEF RequestType, RequestPCs
  <2>12. Turns(c, e) /\ \A d \in Clients \ {c} : request'[d] = request[d]
    BY <1>1, <2>11, TurnTurns
  <2>13. /\ acctPast'.guests = g /\ acctPast'.met = acctPast.met
         /\ acctPast'.faults = acctPast.faults
    BY <1>1, <2>7 DEF PastType
  <2>14. ASSUME NEW k \in 1 .. MaxRequests, k \notin acctPast.met, acctPast.faults = {}
         PROVE  InviteOK(k)'
    <3>1. /\ InviteOK(k) /\ k # 0
      BY AccountBounds DEF AccountInv
    <3>2. \A d \in Clients : request'[d].invite = request[d].invite
      BY <2>1, <2>11, <2>12 DEF Turns
    <3>3. \A d \in Clients \ {c} : request'[d].pc = request[d].pc
      BY <2>12 DEF Turns
    <3>4. request'[c].pc = "burn"
      BY <2>11, <2>12 DEF Turns
    <3>5. CASE k = i
      <4>1. acctPast.guests[k] = 0
        BY <1>1, <2>1, <2>14, <3>1, <3>5 DEF InviteOK
      <4>2. acctPast'.guests[k] <= 1
        BY <2>4, <2>13, <3>5, <4>1
      <4>3. \A d \in Clients : request'[d].invite = k => d = c
        BY <2>1, <2>14, <3>1, <3>2, <3>5 DEF InviteOK
      <4> QED  BY <2>1, <2>14, <3>2, <3>4, <3>5, <4>2, <4>3 DEF InviteOK
    <3>6. CASE k # i
      <4>1. acctPast'.guests[k] = acctPast.guests[k]
        BY <2>4, <2>13, <3>6
      <4>2. \A d \in Clients : request'[d].invite = k => request'[d].pc = request[d].pc
        BY <2>1, <3>2, <3>3, <3>6
      <4>3. \A d \in Clients : request[d].invite = k => request'[d].pc = request[d].pc
        BY <2>1, <3>3, <3>6
      <4>4. invites' = invites
        BY <1>1
      <4> QED  BY <2>14, <3>1, <3>2, <4>1, <4>2, <4>3, <4>4 DEF InviteOK
    <3> QED  BY <3>5, <3>6
  <2>15. \A k \in 1 .. MaxRequests : InviteOK(k)'
    <3>1. ASSUME NEW k \in 1 .. MaxRequests, k \in acctPast.met \/ acctPast.faults # {}
          PROVE  InviteOK(k)'
      BY <2>13, <3>1 DEF InviteOK
    <3> QED  BY <2>14, <3>1
  <2>16. GateOK(e)' /\ ProvedOK(e)'
    BY <2>9, <2>11, AccountBounds DEF GateOK, ProvedOK
  <2>17. \A k \in 1 .. MaxRequests : g[k] > 0 =>
            acctPast.guests[k] > 0 \/ (request[c].pc = "register" /\ k = request[c].invite)
    BY <1>1, <2>1, <2>4
  <2>18. Adds(c, u, e, g)
    BY <1>1, <1>3, <2>2, <2>5, <2>11 DEF Adds
  <2>19. /\ g \in [1 .. MaxRequests -> Nat] /\ e \in RequestType /\ e.me = u
         /\ e.target = request[c].target /\ e.pc # "register" /\ e.invite # 0
    BY <2>1, <2>4, <2>11, AccountBounds
  <2> QED  BY <2>15, <2>16, <2>17, <2>18, <2>19, AddsInv
<1> QED  BY <1>2, <1>3 DEF Registers

\* An account goes with what refers to it.
LEMMA DeletesUserInv == ASSUME AccountInv, NEW c \in Clients, DeletesUser(c)  PROVE AccountInv'
<1>1. /\ AccountShape /\ acctPast \in PastType /\ request[c].pc = "asked"
      /\ request[c].me.role = "admin" /\ request[c].me.acct # 0 /\ Read(request[c].me)
      /\ request' = [request EXCEPT ![c] = Idle] /\ request \in [Clients -> RequestType]
      /\ UNCHANGED <<invites, shown>>
  BY DEF AccountInv, AccountShape, DeletesUser, AdminAsked, Asked, Done, GateOK
<1>2. PICK u \in users :
           /\ MayDelete(c, u.id) /\ DeleteUser(u.id)
           /\ acctPast' = [acctPast EXCEPT
                  !.crossed = IF Held(u.acct, c) THEN @ \cup {u.acct} ELSE @,
                  !.alone = @ \/ request[c].me.acct \notin {v.acct : v \in users}]
  BY DEF DeletesUser
<1>3. /\ users \subseteq User /\ u \in User
      /\ \A v, w \in users : v.id = w.id \/ v.email = w.email \/ v.acct = w.acct => v = w
  BY <1>1 DEF AccountShape, UsersShape
<1>4. users' = users \ {u}
  <2>1. WithId(u.id) = {u}
    BY <1>3 DEF WithId
  <2> QED  BY <1>2, <2>1 DEF DeleteUser
<1>5. /\ api_tokens' = {t \in api_tokens : t.uid # u.id}
      /\ ssh_keys' = {k \in ssh_keys : k.uid # u.id}
      /\ members' = {m \in members : m.uid # u.id}
  BY <1>2 DEF DeleteUser
<1>6. PICK gone \in SUBSET Accounts :
          gone = IF Held(u.acct, c) THEN acctPast.crossed \cup {u.acct} ELSE acctPast.crossed
  BY <1>1, <1>3 DEF PastType, User
<1>7. PICK one \in BOOLEAN :
          one = (acctPast.alone \/ request[c].me.acct \notin {v.acct : v \in users})
  OBVIOUS
<1>8. acctPast' = [acctPast EXCEPT !.crossed = gone, !.alone = one]
  BY <1>2, <1>6, <1>7
<1>9. /\ acctPast' \in PastType /\ acctPast'.crossed = gone /\ acctPast'.alone = one
      /\ acctPast'.accounts = acctPast.accounts /\ acctPast'.moved = acctPast.moved
      /\ acctPast'.slips = acctPast.slips /\ acctPast'.guests = acctPast.guests
      /\ acctPast'.met = acctPast.met /\ acctPast'.faults = acctPast.faults
      /\ acctPast'.requests = acctPast.requests
  BY <1>1, <1>8 DEF PastType
<1>10. Turns(c, Idle) /\ \A d \in Clients \ {c} : request'[d] = request[d]
  BY <1>1, IdleFields, TurnTurns
<1>11. acctPast.crossed \subseteq gone /\ (Held(u.acct, c) => u.acct \in gone)
  BY <1>6
<1>12. Others(c)
  <2>1. acctPast.accounts \in Nat
    BY <1>1, AccountBounds DEF PastType
  <2> QED  BY <1>4, <1>9, <1>11, <2>1 DEF Others
<1>13. UsersShape'
  BY <1>1, <1>4, <1>9 DEF AccountShape, UsersShape
<1>14. NumbersOK'
  <2>1. \A t \in api_tokens' : \E v \in api_tokens : v.n = t.n
    BY <1>5
  <2>2. Known' = Known
    BY <1>1, <1>9 DEF Known
  <2> QED  BY <1>1, <1>9, <1>10, <2>1, <2>2, IdleFields, NumbersStay
<1>15. \A i \in 1 .. MaxRequests : InviteOK(i)'
  BY <1>1, <1>9, <1>10, IdleFields, InvitesStay
<1>16. OwnersMatch'
  <2>1. \A x \in api_tokens' \cup ssh_keys' \cup members' :
            x \in api_tokens \cup ssh_keys \cup members /\ x.uid # u.id
    BY <1>5
  <2> QED  BY <1>4, <1>9, <1>11, <2>1 DEF AccountInv, OwnersMatch
<1>17. AdminRemains'
  <2>1. CASE \E v \in users : v.acct = request[c].me.acct
    <3>1. PICK v \in users : v.acct = request[c].me.acct
      BY <2>1
    <3>2. v.id = request[c].me.id /\ v.role = "admin"
      BY <1>1, <3>1 DEF Read
    <3>3. v \in users'
      BY <1>2, <1>4, <3>2 DEF MayDelete
    <3> QED  BY <3>2, <3>3 DEF AdminRemains
  <2>2. CASE ~ \E v \in users : v.acct = request[c].me.acct
    <3>1. one
      BY <1>7, <2>2
    <3> QED  BY <1>9, <3>1 DEF AdminRemains
  <2> QED  BY <2>1, <2>2
<1>18. ChangesProved'
  BY <1>9, <1>11 DEF AccountInv, ChangesProved
<1>19. ASSUME NEW d \in Clients \ {c}  PROVE GateOK(request[d])'
  <2>1. GateOK(request[d]) /\ request'[d] = request[d]
    BY <1>10 DEF AccountInv
  <2>2. PICK r : r = request[d]
    OBVIOUS
  <2>3. RoleOf(r.me.id)' = IF r.me.id = u.id THEN {} ELSE RoleOf(r.me.id)
    BY <1>5 DEF RoleOf
  <2>4. r.pc = "gate" /\ r.me.id = u.id => r.me.acct \in gone
    <3>1. SUFFICES ASSUME r.pc = "gate", r.me.id = u.id  PROVE r.me.acct \in gone
      OBVIOUS
    <3>2. Read(r.me) /\ r.me \in SeenUser /\ r.me.acct # 0
      BY <1>1, <2>1, <2>2, <3>1, RequestFields DEF AccountInv, GateOK
    <3>3. u.acct = r.me.acct \/ r.me.acct \in acctPast.crossed
      BY <3>1, <3>2, ReadOwns
    <3>4. Held(r.me.acct, c)
      BY <2>2 DEF Held
    <3> QED  BY <1>11, <3>3, <3>4
  <2> QED  BY <1>9, <1>11, <2>1, <2>2, <2>3, <2>4 DEF GateOK
<1>20. /\ api_tokens' \subseteq Token /\ ssh_keys' \subseteq Key /\ invites' \subseteq Invite
       /\ members' \subseteq Member /\ \A m, k \in members' : m.uid = k.uid => m = k
       /\ shown' \subseteq [id : Accounts, acct : Accounts]
       /\ \A k, l \in ssh_keys' : k.key = l.key => k = l
       /\ \A i, j \in invites' : i.n = j.n => i = j
  BY <1>1, <1>5 DEF AccountShape
<1>21. Read(Idle.me)' /\ Read(Idle.target)' /\ GateOK(Idle)' /\ ProvedOK(Idle)'
  BY IdleFields DEF Read, GateOK, ProvedOK
<1> QED  BY <1>9, <1>10, <1>12, <1>13, <1>14, <1>15, <1>16, <1>17, <1>18, <1>19, <1>20, <1>21,
            IdleFields, AccountInvFrom

LEMMA NobodyActive ==
    ASSUME \A c \in Clients : request[c].pc = "idle"  PROVE Cardinality(Active) = 0
<1>1. Active = {}
  BY DEF Active
<1> QED  BY <1>1, FS_EmptySet

LEMMA ServeAgainInv == ASSUME AccountInv, ServeAgain  PROVE AccountInv'
<1>1. /\ AccountShape /\ acctPast \in PastType /\ request' = [c \in Clients |-> Idle]
      /\ UNCHANGED <<api_tokens, ssh_keys, members, invites, shown>>
  BY DEF AccountInv, AccountShape, ServeAgain
<1>2. PICK founds \in BOOLEAN : founds = (users = {} /\ acctPast.accounts < MaxAccounts)
  OBVIOUS
<1>3. PICK k : k = IF founds THEN acctPast.accounts + 1 ELSE acctPast.accounts
  OBVIOUS
<1>4. PICK one \in BOOLEAN : one = (acctPast.alone /\ ~ founds)
  OBVIOUS
<1>5. /\ users' = IF founds THEN {Root(k)} ELSE users
      /\ acctPast' = [acctPast EXCEPT !.faults = {"crash"}, !.accounts = k, !.alone = one]
  BY <1>2, <1>3, <1>4 DEF ServeAgain
<1>6. acctPast.accounts \in 1 .. MaxAccounts /\ MaxAccounts \in Nat
  BY <1>1, AccountBounds DEF PastType
<1>7. k \in 1 .. MaxAccounts /\ acctPast.accounts <= k
  <2>1. PICK h \in 1 .. MaxAccounts : h = acctPast.accounts
    BY <1>6
  <2>2. CASE founds
    <3>1. acctPast.accounts < MaxAccounts
      BY <1>2, <2>2
    <3>2. k = h + 1 /\ h < MaxAccounts
      BY <1>3, <2>1, <2>2, <3>1
    <3> QED  BY <1>6, <2>1, <3>2
  <2>3. CASE ~ founds
    BY <1>3, <1>6, <2>1, <2>3
  <2> QED  BY <2>2, <2>3
<1>8. /\ acctPast' \in PastType /\ acctPast'.faults = {"crash"} /\ acctPast'.accounts = k
      /\ acctPast'.alone = one /\ acctPast'.crossed = acctPast.crossed
      /\ acctPast'.moved = acctPast.moved /\ acctPast'.slips = acctPast.slips
      /\ acctPast'.guests = acctPast.guests /\ acctPast'.requests = acctPast.requests
  BY <1>1, <1>5, <1>7 DEF PastType
<1>9. Founder \in People
  BY AccountAssumption DEF Founder
<1>10. PICK root : root = Root(k)
  OBVIOUS
<1>11. /\ root \in User /\ root.id = 1 /\ root.acct = k /\ root.role = "admin"
  BY <1>7, <1>9, <1>10, AccountBounds DEF Root, User, Roles
<1>12. UsersShape' /\ AdminRemains' /\ OwnersMatch'
  <2>1. CASE founds
    <3>1. users' = {root} /\ users = {}
      BY <1>2, <1>5, <1>10, <2>1
    <3>2. UsersShape'
      BY <1>7, <1>8, <1>11, <3>1 DEF UsersShape
    <3>3. AdminRemains'
      BY <1>11, <3>1 DEF AdminRemains
    <3>4. OwnersMatch'
      BY <1>1, <3>1 DEF AccountInv, OwnersMatch
    <3> QED  BY <3>2, <3>3, <3>4
  <2>2. CASE ~ founds
    <3>1. users' = users /\ k = acctPast.accounts /\ one = acctPast.alone
      BY <1>1, <1>3, <1>4, <1>5, <2>2 DEF PastType
    <3>2. UsersShape'
      BY <1>1, <1>8, <3>1 DEF AccountShape, UsersShape
    <3>3. AdminRemains'
      BY <1>8, <3>1 DEF AccountInv, AdminRemains
    <3>4. OwnersMatch'
      BY <1>1, <1>8, <3>1 DEF AccountInv, OwnersMatch
    <3> QED  BY <3>2, <3>3, <3>4
  <2> QED  BY <2>1, <2>2
<1>13. AccountShape'
  <2>1. request' \in [Clients -> RequestType] /\ \A c \in Clients : request'[c].pc = "idle"
    BY <1>1, IdleFields
  <2> QED  BY <1>1, <1>8, <1>12, <2>1 DEF AccountShape
<1>14. NumbersOK'
  <2>1. \A c \in Clients : request'[c].pc = "idle"
    BY <1>1, IdleFields
  <2>2. Cardinality(Active)' = 0
    <3>1. Active' = {}
      BY <2>1 DEF Active
    <3> QED  BY <3>1, FS_EmptySet
  <2>3. Known' = Known
    BY <1>1, <1>8 DEF Known
  <2>4. \A n \in Known : n + 0 <= acctPast.requests
    <3>1. SUFFICES ASSUME NEW n \in Known  PROVE n + 0 <= acctPast.requests
      OBVIOUS
    <3>2. n \in Nat /\ n + Cardinality(Active) <= acctPast.requests
      BY KnownNumbers
    <3> QED  BY <3>2, KnownNumbers
  <2>5. \A t \in api_tokens : t.n + 0 <= acctPast.requests + 2
    <3>1. SUFFICES ASSUME NEW t \in api_tokens  PROVE t.n + 0 <= acctPast.requests + 2
      OBVIOUS
    <3>2. t.n \in Nat /\ t.n + Cardinality(Active) <= acctPast.requests + 2
      BY <1>1, AccountBounds DEF AccountInv, NumbersOK, AccountShape, Token
    <3> QED  BY <3>2, KnownNumbers
  <2>6. 0 <= acctPast'.requests
    BY <1>8, KnownNumbers
  <2>7. api_tokens' = api_tokens /\ acctPast'.requests = acctPast.requests
    BY <1>1, <1>8
  <2> QED  BY <2>1, <2>2, <2>3, <2>4, <2>5, <2>6, <2>7 DEF NumbersOK
<1>15. \A c \in Clients : /\ Read(request[c].me)' /\ Read(request[c].target)'
                          /\ GateOK(request[c])' /\ ProvedOK(request[c])'
  <2>1. \A c \in Clients : request'[c] = Idle
    BY <1>1
  <2> QED  BY <2>1, IdleFields DEF Read, GateOK, ProvedOK
<1>16. \A i \in 1 .. MaxRequests : InviteOK(i)'
  BY <1>8 DEF InviteOK
<1>17. ChangesProved'
  BY <1>8 DEF AccountInv, ChangesProved
<1> QED  BY <1>12, <1>13, <1>14, <1>15, <1>16, <1>17 DEF AccountInv

LEMMA NoHistoryFields ==
    /\ NoHistory \in PastType /\ NoHistory.accounts = 1 /\ NoHistory.requests = 0
    /\ NoHistory.crossed = {} /\ NoHistory.moved = {} /\ NoHistory.slips = {}
    /\ \A i \in 1 .. MaxRequests : NoHistory.guests[i] = 0
    /\ [NoHistory EXCEPT !.accounts = 2] \in PastType
<1>1. 1 \in 1 .. MaxAccounts /\ 2 \in 1 .. MaxAccounts /\ 0 \in 0 .. MaxRequests
  BY AccountAssumption
<1>2. NoHistory \in PastType
  BY <1>1 DEF NoHistory, PastType
<1>3. [NoHistory EXCEPT !.accounts = 2] \in PastType
  BY <1>1, <1>2 DEF PastType
<1> QED  BY <1>2, <1>3 DEF NoHistory

LEMMA AccountInitTables ==
    ASSUME AccountInit
    PROVE  /\ UsersShape /\ acctPast \in PastType /\ api_tokens \subseteq Token
           /\ members \subseteq Member /\ OwnersMatch /\ AdminRemains
           /\ shown \subseteq [id : Accounts, acct : Accounts]
           /\ \A m, n \in members : m.uid = n.uid => m = n
           /\ \A t \in api_tokens : t.n <= 2 /\ t.n \in Nat
           /\ acctPast.requests = 0 /\ acctPast.slips = {}
           /\ \A i \in 1 .. MaxRequests : acctPast.guests[i] = 0
<1>1. Founder \in People
  BY AccountAssumption DEF Founder
<1>2. /\ 1 \in Accounts /\ 2 \in Accounts /\ 1 \in 1 .. MaxRequests + 2 /\ 2 \in 1 .. MaxRequests + 2
  BY AccountAssumption DEF Accounts
<1>3. PICK root : root = Root(1)
  OBVIOUS
<1>4. root \in User /\ root.id = 1 /\ root.acct = 1 /\ root.role = "admin" /\ root.email = Founder
  BY <1>1, <1>2, <1>3 DEF Root, User, Roles
<1>5. shown = {[id |-> u.id, acct |-> u.acct] : u \in users} /\ ssh_keys = {}
  BY DEF AccountInit
<1>6. CASE users = {Root(1)} /\ acctPast = NoHistory /\ api_tokens = {[n |-> 1, uid |-> 1, acct |-> 1]}
  <2>1. users = {root}
    BY <1>3, <1>6
  <2>2. members = {}
    BY <1>4, <2>1 DEF AccountInit
  <2>3. UsersShape
    BY <1>4, <1>6, <2>1, NoHistoryFields DEF UsersShape
  <2>4. OwnersMatch /\ AdminRemains
    BY <1>4, <1>5, <1>6, <2>1, <2>2 DEF OwnersMatch, AdminRemains
  <2>5. api_tokens \subseteq Token /\ \A t \in api_tokens : t.n <= 2 /\ t.n \in Nat
    BY <1>2, <1>6 DEF Token
  <2>6. shown \subseteq [id : Accounts, acct : Accounts]
    BY <1>2, <1>4, <1>5, <2>1
  <2> QED  BY <1>6, <2>2, <2>3, <2>4, <2>5, <2>6, NoHistoryFields
<1>7. ASSUME NEW p \in People \ {Founder}, NEW r \in Roles,
             users = {Root(1), [id |-> 2, email |-> p, role |-> r, secret |-> p, acct |-> 2]},
             acctPast = [NoHistory EXCEPT !.accounts = 2],
             api_tokens = {[n |-> i, uid |-> i, acct |-> i] : i \in 1 .. 2}
      PROVE  /\ UsersShape /\ acctPast \in PastType /\ api_tokens \subseteq Token
             /\ members \subseteq Member /\ OwnersMatch /\ AdminRemains
             /\ shown \subseteq [id : Accounts, acct : Accounts]
             /\ \A m, n \in members : m.uid = n.uid => m = n
             /\ \A t \in api_tokens : t.n <= 2 /\ t.n \in Nat
             /\ acctPast.requests = 0 /\ acctPast.slips = {}
             /\ \A i \in 1 .. MaxRequests : acctPast.guests[i] = 0
  <2>1. PICK u : u = [id |-> 2, email |-> p, role |-> r, secret |-> p, acct |-> 2]
    OBVIOUS
  <2>2. u \in User /\ u.id = 2 /\ u.acct = 2 /\ u.email = p /\ users = {root, u}
    BY <1>2, <1>3, <1>7, <2>1 DEF User
  <2>3. /\ acctPast \in PastType /\ acctPast.accounts = 2 /\ acctPast.requests = 0
        /\ acctPast.slips = {} /\ acctPast.guests = NoHistory.guests
    BY <1>7, NoHistoryFields DEF PastType
  <2>4. UsersShape
    BY <1>4, <2>2, <2>3 DEF UsersShape
  <2>5. /\ api_tokens \subseteq Token
        /\ \A t \in api_tokens : t.n \in 1 .. 2 /\ t.uid = t.n /\ t.acct = t.n
    <3>1. \A i \in 1 .. 2 : [n |-> i, uid |-> i, acct |-> i] \in Token
      BY AccountAssumption DEF Token, Accounts
    <3> QED  BY <1>7, <3>1
  <2>6. /\ \A m \in members : m.uid = 2 /\ m.acct = 2 /\ m \in Member
        /\ \A m, n \in members : m = n
    <3>1. PICK rs \in SUBSET MemberRoles :
             members \in {{}} \cup {{[uid |-> 2, role |-> q, acct |-> 2]} : q \in rs}
      BY DEF AccountInit
    <3>2. \A q \in MemberRoles : [uid |-> 2, role |-> q, acct |-> 2] \in Member
      BY <1>2 DEF Member
    <3> QED  BY <3>1, <3>2
  <2>7. OwnersMatch
    <3>1. \A t \in api_tokens : \E v \in users : v.id = t.uid /\ v.acct = t.acct
      <4>1. SUFFICES ASSUME NEW t \in api_tokens
                     PROVE  \E v \in users : v.id = t.uid /\ v.acct = t.acct
        OBVIOUS
      <4>2. t.n = 1 \/ t.n = 2
        BY <2>5
      <4> QED  BY <1>4, <2>2, <2>5, <4>2
    <3> QED  BY <1>5, <2>2, <2>6, <3>1 DEF OwnersMatch
  <2>8. AdminRemains
    BY <1>4, <2>2 DEF AdminRemains
  <2>9. shown \subseteq [id : Accounts, acct : Accounts]
    BY <1>2, <1>4, <1>5, <2>2
  <2>10. \A t \in api_tokens : t.n <= 2 /\ t.n \in Nat
    BY <2>5
  <2>11. \A i \in 1 .. MaxRequests : acctPast.guests[i] = 0
    BY <2>3, NoHistoryFields
  <2> QED  BY <2>3, <2>4, <2>5, <2>6, <2>7, <2>8, <2>9, <2>10, <2>11
<1> QED  BY <1>6, <1>7 DEF AccountInit

LEMMA AccountInvInit == AccountInit => AccountInv
<1> SUFFICES ASSUME AccountInit  PROVE AccountInv
  OBVIOUS
<1>1. request = [c \in Clients |-> Idle] /\ ssh_keys = {} /\ invites = {}
  BY DEF AccountInit
<1>2. request \in [Clients -> RequestType] /\ \A c \in Clients : request[c] = Idle
  BY <1>1, IdleFields
<1>3. AccountShape
  BY <1>1, <1>2, AccountInitTables, IdleFields DEF AccountShape
<1>4. NumbersOK
  <2>1. Cardinality(Active) = 0
    BY <1>2, IdleFields, NobodyActive
  <2>2. Known = {}
    <3>1. \A i \in 1 .. MaxRequests : acctPast.guests[i] = 0
      BY AccountInitTables
    <3> QED  BY <1>1, <3>1 DEF Known
  <2>3. \A t \in api_tokens : t.n <= 2 /\ t.n \in Nat
    BY AccountInitTables
  <2>4. acctPast.requests = 0
    BY AccountInitTables
  <2>5. \A c \in Clients : request[c].pc # "register"
    BY <1>2, IdleFields
  <2>6. \A t \in api_tokens : t.n + 0 <= 0 + 2
    BY <2>3
  <2> QED  BY <2>1, <2>2, <2>4, <2>5, <2>6 DEF NumbersOK
<1>5. \A c \in Clients : Read(request[c].me) /\ Read(request[c].target)
                         /\ GateOK(request[c]) /\ ProvedOK(request[c])
  BY <1>2, ReadNobody
<1>6. \A i \in 1 .. MaxRequests : InviteOK(i)
  <2>1. \A i \in 1 .. MaxRequests : acctPast.guests[i] = 0 /\ i # 0
    BY AccountInitTables, AccountBounds
  <2> QED  BY <1>1, <1>2, <2>1, IdleFields DEF InviteOK
<1>7. ChangesProved
  BY AccountInitTables DEF ChangesProved
<1> QED  BY <1>3, <1>4, <1>5, <1>6, <1>7, AccountInitTables DEF AccountInv

LEMMA AccountInvStep == AccountInv /\ [AccountNext]_accountVars => AccountInv'
<1> SUFFICES ASSUME AccountInv, [AccountNext]_accountVars  PROVE AccountInv'
  OBVIOUS
<1>1. CASE UNCHANGED accountVars
  BY <1>1 DEF AccountInv, AccountShape, UsersShape, NumbersOK, Active, Known, Read, GateOK, RoleOf,
              ProvedOK, InviteOK, AdminRemains, OwnersMatch, ChangesProved, accountVars
<1>2. ASSUME NEW c \in Clients, ClientStep(c)  PROVE AccountInv'
  BY <1>2, LoginInv, CreateTokenInv, AuthedInv, ListUsersInv, CreateUserInv, DeletesUserInv,
     SetsPasswordInv, CreateInviteInv, RevokeInviteInv, FindsMemberInv, AddMemberInv,
     RemoveMemberInv, AuthenticateInv, ChangePasswordInv, ChangeEmailInv, RevokesInv,
     AddSSHKeyInv, RequireInv, GetValidInviteInv, RegistersInv, MarkInviteUsedInv DEF ClientStep
<1> QED  BY <1>1, <1>2, ServeAgainInv DEF AccountNext

\* Whatever the people, the requests under way and the bounds are.
THEOREM AccountsTyped == AccountSpec => []AccountTypeOK
<1>1. AccountInv => AccountTypeOK
  BY DEF AccountInv, AccountShape, UsersShape, AccountTypeOK, RequestType
<1> QED  BY <1>1, AccountInvInit, AccountInvStep, PTL DEF AccountSpec

\* An admin remains, what belongs to an account stays the account's although ids are given
\* again, an invite makes one account, who writes could, and own changes need the own
\* password, but for the races that the history names.
THEOREM AccountsKept == AccountSpec => []AccountsWhole
<1>1. AccountInv => InvitesOnce
  <2> SUFFICES ASSUME AccountInv, NEW i \in 1 .. MaxRequests, acctPast.guests[i] > 1
               PROVE  i \in acctPast.met \/ acctPast.faults # {}
    BY DEF InvitesOnce
  <2>1. InviteOK(i) /\ acctPast.guests[i] \in Nat
    BY KnownNumbers DEF AccountInv
  <2> QED  BY <2>1 DEF InviteOK
<1>2. AccountInv => WritersCould
  BY DEF AccountInv, GateOK, WritersCould
<1>3. AccountInv => AccountsWhole
  BY <1>1, <1>2 DEF AccountInv, AccountsWhole
<1> QED  BY <1>3, AccountInvInit, AccountInvStep, PTL DEF AccountSpec

================================
