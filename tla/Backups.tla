--------------------------------- MODULE Backups --------------------------------
(***************************************************************************)
(* Backups (internal/server/backup.go, store/backups.go, cli/restore.go):  *)
(* archives on the data disk, their rows in the database they contain, the *)
(* objects they are uploaded to, and the restore that brings an old        *)
(* database back, rows of backups and all.                                 *)
(*                                                                         *)
(* An archive's name is the second it was begun in; a second name is       *)
(* derived if there is a file of that name.  The model's clock jumps from a*)
(* second to one of the next day.  What an archive holds besides the       *)
(* database only ever adds warnings.                                       *)
(***************************************************************************)
EXTENDS Naturals, FiniteSetsExt

CONSTANTS
    Admins,       \* clients, one request at a time each
    Keep,         \* the setting backup_keep
    MaxTime,      \* bound: days
    MaxMade,      \* bound: backups begun
    MaxAdminCalls,\* bound: requests
    BackupFaults  \* what may go wrong, one thing once: a subset of BackupFaultKinds

BackupFaultKinds == {"write", "put", "remove", "crash", "disk", "restore"}

ASSUME BackupAssumption ==
    /\ IsFiniteSet(Admins) /\ Keep \in Nat \ {0}
    /\ MaxTime \in Nat /\ MaxMade \in Nat /\ MaxAdminCalls \in Nat
    /\ BackupFaults \subseteq BackupFaultKinds

VARIABLES
    today,      \* the clock
    archive,    \* files of the backup directory, by path
    snapshotTmp,\* paths whose .snapshot file is there
    remote,     \* objects of the bucket, by path
    backups,    \* rows
    held,       \* the rows each backup's database holds
    taker,      \* the goroutines of requests and of StartBackups
    backupPast  \* history, see NoPast

backupVars == <<today, archive, snapshotTmp, remote, backups, held, taker, backupPast>>

Keeper == "keeper"
Takers == Admins \cup {Keeper}
Made   == 1 .. MaxMade
Path   == [day : 0 .. MaxTime, n : 1 .. MaxMade]
NoPath == [day |-> 0, n |-> 0]
NoFile == [of |-> 0, state |-> "none"]

\* made: the backup whose archive it is.  back: history: a restore brought the row back.
Backup == [id : Made, path : Path, uploaded : BOOLEAN, at : 0 .. MaxTime, made : Made,
           back : BOOLEAN]

\* todo: the rows a prune has still to delete.
TakerPCs == {"idle", "open", "snapshot", "write", "upload", "row", "list", "unlink", "unrow"}
Idle     == [pc |-> "idle", path |-> NoPath, made |-> 0, upload |-> FALSE, up |-> FALSE, todo |-> {}]

\* chosen, contested: paths that were chosen, and chosen again.  ticked: the loop has
\* looked today.
NoPast == [chosen |-> {}, contested |-> {}, made |-> 0, calls |-> 0, faults |-> {}, ticked |-> FALSE]

BackupInit ==
    /\ today = 0 /\ archive = [p \in Path |-> NoFile] /\ snapshotTmp = {}
    /\ remote = [p \in Path |-> NoFile] /\ backups = {} /\ held = [m \in Made |-> {}]
    /\ taker = [t \in Takers |-> Idle] /\ backupPast = NoPast

Mars(k) == /\ k \in BackupFaults /\ backupPast.faults = {}
           /\ backupPast' = [backupPast EXCEPT !.faults = {k}]

\* The scheduled backup is followed by a prune, whatever became of it.
Then(t)       == IF t = Keeper THEN [Idle EXCEPT !.pc = "list"] ELSE Idle
TakerAt(t, pc) == taker' = [taker EXCEPT ![t].pc = pc]

--------------------------------
(***************************************************************************)
(* createBackup.                                                           *)
(***************************************************************************)

\* The first name of this second that no file has.
FreePath ==
    [day |-> today,
     n |-> Min({n \in Made : archive[[day |-> today, n |-> n]].state = "none"})]

Begins(t, upload) ==
    /\ backupPast.made < MaxMade
    /\ backupPast' = [backupPast EXCEPT
           !.made = @ + 1, !.calls = IF t = Keeper THEN @ ELSE @ + 1,
           !.ticked = @ \/ t = Keeper,
           !.chosen = @ \cup {FreePath},
           !.contested = @ \cup (backupPast.chosen \cap {FreePath})]
    /\ taker' = [taker EXCEPT ![t] = [Idle EXCEPT !.pc = "open", !.path = FreePath,
                                        !.made = backupPast.made + 1, !.upload = upload]]
    /\ UNCHANGED <<today, archive, snapshotTmp, remote, backups, held>>

\* handleCreateBackup.
CreateAsked(t) ==
    /\ t # Keeper /\ taker[t].pc = "idle" /\ backupPast.calls < MaxAdminCalls
    /\ \E upload \in BOOLEAN : Begins(t, upload)

\* runBackupSchedule: is the newest backup older than a day?
ScheduleTicks ==
    /\ taker[Keeper].pc = "idle" /\ ~ backupPast.ticked
    /\ IF \E b \in backups : b.id = Max({c.id : c \in backups}) /\ b.at = today
       THEN /\ backupPast' = [backupPast EXCEPT !.ticked = TRUE]
            /\ UNCHANGED <<today, archive, snapshotTmp, remote, backups, held, taker>>
       ELSE Begins(Keeper, TRUE)

\* The file is created, or emptied if another has created it since: two that write to it
\* write over each other.
FileMade(t) ==
    /\ taker[t].pc = "open"
    /\ archive' = [archive EXCEPT ![taker[t].path] =
           [of |-> taker[t].made, state |-> IF @.state = "part" THEN "torn" ELSE "part"]]
    /\ TakerAt(t, "snapshot")
    /\ UNCHANGED <<today, snapshotTmp, remote, backups, held, backupPast>>

\* fail removes the file of that name.
Discards(t) ==
    /\ archive' = [archive EXCEPT ![taker[t].path] = NoFile]
    /\ taker' = [taker EXCEPT ![t] = Then(t)]

\* VACUUM INTO refuses to write over a snapshot that is there.
Snapshots(t) ==
    /\ taker[t].pc = "snapshot"
    /\ IF taker[t].path \in snapshotTmp
       THEN Discards(t) /\ UNCHANGED <<snapshotTmp, held>>
       ELSE /\ snapshotTmp' = snapshotTmp \cup {taker[t].path}
            /\ held' = [held EXCEPT ![taker[t].made] = backups]
            /\ TakerAt(t, "write") /\ UNCHANGED archive
    /\ UNCHANGED <<today, remote, backups, backupPast>>

\* The members are written, and the file is looked for.
Writes(t) ==
    /\ taker[t].pc = "write"
    /\ LET p == taker[t].path IN
       IF archive[p].state = "none"
       THEN /\ taker' = [taker EXCEPT ![t] = Then(t)]
            /\ snapshotTmp' = snapshotTmp \ {p} /\ UNCHANGED archive
       ELSE /\ archive' = IF archive[p] = [of |-> taker[t].made, state |-> "part"]
                          THEN [archive EXCEPT ![p].state = "whole"] ELSE archive
            /\ TakerAt(t, "upload") /\ UNCHANGED snapshotTmp
    /\ UNCHANGED <<today, remote, backups, held, backupPast>>

WriteFails(t) ==
    /\ taker[t].pc \in {"snapshot", "write"} /\ Mars("write")
    /\ Discards(t)
    /\ snapshotTmp' = IF taker[t].pc = "write" THEN snapshotTmp \ {taker[t].path}
                      ELSE snapshotTmp
    /\ UNCHANGED <<today, remote, backups, held>>

\* uploadBackup: a failure is a warning.
Uploads(t) ==
    /\ taker[t].pc = "upload"
    /\ LET p   == taker[t].path
           put == taker[t].upload /\ archive[p].state # "none"
       IN  \/ /\ remote' = IF put THEN [remote EXCEPT ![p] = archive[p]] ELSE remote
              /\ taker' = [taker EXCEPT ![t].pc = "row", ![t].up = put]
              /\ UNCHANGED backupPast
           \/ /\ put /\ Mars("put") /\ TakerAt(t, "row") /\ UNCHANGED remote
    /\ UNCHANGED <<today, archive, snapshotTmp, backups, held>>

\* store.CreateBackup: SQLite's next id.
Records(t) ==
    /\ taker[t].pc = "row"
    /\ backups' = backups \cup
           {[id |-> Max({b.id : b \in backups} \cup {0}) + 1, path |-> taker[t].path,
             uploaded |-> taker[t].up, at |-> today, made |-> taker[t].made, back |-> FALSE]}
    /\ snapshotTmp' = snapshotTmp \ {taker[t].path}
    /\ taker' = [taker EXCEPT ![t] = Then(t)]
    /\ UNCHANGED <<today, archive, remote, held, backupPast>>

--------------------------------
(***************************************************************************)
(* pruneBackups.                                                           *)
(***************************************************************************)

\* Mutant: the oldest are kept.
VictimsNewest == {b \in backups : Cardinality({c \in backups : c.id < b.id}) >= Keep}

\* ListBackups is newest first.
Victims == {b \in backups : Cardinality({c \in backups : c.id > b.id}) >= Keep}

PruneAsked(t) ==
    /\ t # Keeper /\ taker[t].pc = "idle" /\ backupPast.calls < MaxAdminCalls
    /\ backupPast' = [backupPast EXCEPT !.calls = @ + 1]
    /\ TakerAt(t, "list")
    /\ UNCHANGED <<today, archive, snapshotTmp, remote, backups, held>>

ListsVictims(t) ==
    /\ taker[t].pc = "list"
    /\ taker' = [taker EXCEPT ![t] = IF Victims = {} THEN Idle
                                     ELSE [Idle EXCEPT !.pc = "unlink", !.todo = Victims]]
    /\ UNCHANGED <<today, archive, snapshotTmp, remote, backups, held, backupPast>>

\* The newest of them is next.
NextVictim(t) ==
    CHOOSE b \in taker[t].todo : \A c \in taker[t].todo : c.id <= b.id

\* Neither a file nor an object that cannot be removed keeps the row.
Unlinks(t) ==
    /\ taker[t].pc = "unlink"
    /\ LET b == NextVictim(t) IN
       \E files \in SUBSET {"file", "object"} :
           /\ IF files = {"file", "object"} THEN UNCHANGED backupPast ELSE Mars("remove")
           /\ archive' = IF "file" \in files THEN [archive EXCEPT ![b.path] = NoFile] ELSE archive
           /\ remote' = IF b.uploaded /\ "object" \in files
                        THEN [remote EXCEPT ![b.path] = NoFile] ELSE remote
    /\ TakerAt(t, "unrow")
    /\ UNCHANGED <<today, snapshotTmp, backups, held>>

\* A row that another prune has deleted ends this one.
Unrows(t) ==
    /\ taker[t].pc = "unrow"
    /\ LET b    == NextVictim(t)
           rest == taker[t].todo \ {b}
           gone == \A c \in backups : c.id # b.id
       IN  /\ backups' = {c \in backups : c.id # b.id}
           /\ taker' = [taker EXCEPT ![t] = IF gone \/ rest = {} THEN Idle
                                            ELSE [Idle EXCEPT !.pc = "unlink", !.todo = rest]]
    /\ UNCHANGED <<today, archive, snapshotTmp, remote, held, backupPast>>

--------------------------------
(***************************************************************************)
(* Time, and disasters.                                                    *)
(***************************************************************************)

\* An idle loop has looked before the day is over.
DayTurns ==
    /\ today < MaxTime /\ today' = today + 1
    /\ backupPast.ticked \/ taker[Keeper].pc # "idle"
    /\ backupPast' = [backupPast EXCEPT !.ticked = FALSE]
    /\ UNCHANGED <<archive, snapshotTmp, remote, backups, held, taker>>

BackupCrash ==
    /\ Mars("crash") /\ taker' = [t \in Takers |-> Idle]
    /\ UNCHANGED <<today, archive, snapshotTmp, remote, backups, held>>

\* The data disk is lost, and the server starts with an empty one.
DiskLost ==
    /\ Mars("disk") /\ taker' = [t \in Takers |-> Idle]
    /\ archive' = [p \in Path |-> NoFile] /\ snapshotTmp' = {} /\ backups' = {}
    /\ UNCHANGED <<today, remote, held>>

\* restoreArchive, with the server down: an archive that is whole replaces the database.
Restores ==
    /\ \/ Mars("restore")
       \/ /\ "restore" \in BackupFaults /\ backupPast.faults = {"disk"}
          /\ backupPast' = [backupPast EXCEPT !.faults = {"disk", "restore"}]
    /\ taker' = [t \in Takers |-> Idle]
    /\ \E p \in Path : \E f \in {archive[p], remote[p]} :
           /\ f.state = "whole"
           /\ backups' = {[b EXCEPT !.back = TRUE] : b \in held[f.of]}
    /\ UNCHANGED <<today, archive, snapshotTmp, remote, held>>

TakerStep(t) ==
    \/ CreateAsked(t) \/ FileMade(t) \/ Snapshots(t) \/ Writes(t) \/ WriteFails(t) \/ Uploads(t)
    \/ Records(t) \/ PruneAsked(t) \/ ListsVictims(t) \/ Unlinks(t) \/ Unrows(t)

BackupNext ==
    \/ \E t \in Takers : TakerStep(t)
    \/ ScheduleTicks \/ DayTurns \/ BackupCrash \/ DiskLost \/ Restores

BackupSpec == BackupInit /\ [][BackupNext]_backupVars

--------------------------------
(***************************************************************************)
(* Properties.                                                             *)
(***************************************************************************)

\* Every variable has the shape its comment gives (backup.go, store/backups.go).
BackupTypeOK ==
    /\ today \in 0 .. MaxTime /\ backups \subseteq Backup /\ snapshotTmp \subseteq Path
    /\ \A b, c \in backups : b.id = c.id => b = c
    /\ \A p \in Path : {archive[p], remote[p]} \subseteq
           [of : 0 .. MaxMade, state : {"none", "part", "torn", "whole"}]
    /\ \A t \in Takers : taker[t].pc \in TakerPCs /\ taker[t].todo \subseteq Backup
    /\ backupPast.made \in 0 .. MaxMade /\ backupPast.faults \subseteq BackupFaults

Struck(kinds) == backupPast.faults \cap kinds # {}
Undisturbed   == Path \ backupPast.contested

\* A row's archive is there and whole, and so is its object, but for a name that two
\* backups chose in the same second, a row a restore brought back, and one a prune is at.
RowsHaveArchives ==
    \A b \in backups :
        (/\ b.path \in Undisturbed /\ ~ b.back
         /\ \A t \in Takers : b \notin taker[t].todo
         /\ ~ (b \in Victims /\ Struck({"crash"}))) =>
            LET whole == [of |-> b.made, state |-> "whole"] IN
            archive[b.path] = whole /\ (b.uploaded => remote[b.path] = whole)

\* An archive or an object without a row is one that is about to get it, or that a fault,
\* a restore or a contested name has left behind.
ArchivesHaveRows ==
    ~ Struck({"remove", "crash", "restore", "disk"}) =>
        \A p \in Undisturbed :
            "whole" \in {archive[p].state, remote[p].state} =>
                \/ \E b \in backups : b.path = p
                \/ \E t \in Takers : taker[t].path = p

\* However prunes overlap with each other and with backups, the newest stay.
NewestStay ==
    \A t \in Takers : \A v \in taker[t].todo :
        Cardinality({b \in backups : b.id > v.id}) >= Keep

\* Once the loop has looked, the day has its backup.
DayHasBackup ==
    (/\ backupPast.ticked /\ taker[Keeper].pc = "idle"
     /\ backupPast.faults = {} /\ backupPast.contested = {}) =>
        \E b \in backups : b.at = today

\* What the table of backups says can be restored is there, what is there is in the table,
\* and both keep the newest (createBackup, pruneBackups, restoreArchive).
BackupsWhole == RowsHaveArchives /\ ArchivesHaveRows /\ NewestStay /\ DayHasBackup

================================
