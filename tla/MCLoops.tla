--------------------------------- MODULE MCLoops --------------------------------
(* The server's own goroutines, over the machines it rents, the apps it    *)
(* probes, the certificates it issues, the backups it takes and the runs   *)
(* it watches.  They share no state here: a behaviour is one of one of     *)
(* them, and the others stand still.                                       *)
EXTENDS Rentals, Uptime, Certs, Backups, RunProperties

Loops == {"rentals", "uptime", "certs", "backups", "runs"}

NoReports == {}

VARIABLE loopOf \* whose behaviour it is

loopVars == <<loopOf, rentalVars, uptimeVars, certVars, backupVars, runVars>>

LoopsInit ==
    /\ loopOf \in Loops /\ RentalInit /\ UptimeInit /\ CertInit /\ BackupInit /\ RunInit
    /\ loopOf # "certs" => release.status = "none"

Of(l) == loopOf = l /\ UNCHANGED loopOf

LoopsNext ==
    \/ /\ Of("rentals") /\ RentalNext
       /\ UNCHANGED <<uptimeVars, certVars, backupVars, runVars>>
    \/ /\ Of("uptime") /\ UptimeNext
       /\ UNCHANGED <<rentalVars, certVars, backupVars, runVars>>
    \/ /\ Of("certs") /\ CertNext
       /\ UNCHANGED <<rentalVars, uptimeVars, backupVars, runVars>>
    \/ /\ Of("backups") /\ BackupNext
       /\ UNCHANGED <<rentalVars, uptimeVars, certVars, runVars>>
    \/ /\ Of("runs") /\ (RunNext \/ Crash)
       /\ UNCHANGED <<rentalVars, uptimeVars, certVars, backupVars>>

\* RentalFairness and CertFairness.  Without runs, nothing that
\* RunFairness is about can happen.
LoopsFairness ==
    /\ WF_rentalVars(loopOf = "rentals" /\ LoopStep)
    /\ WF_certVars(loopOf = "certs" /\ IssuerStep)
    /\ RunFairness(1 .. MaxUserRuns)

LoopsSpec == LoopsInit /\ [][LoopsNext]_loopVars /\ LoopsFairness

\* Every variable of every loop has the shape its comment gives (gpucloud.go, uptime.go,
\* certs.go, backup.go, runs.go).
LoopsTypeOK == RentalTypeOK /\ UptimeTypeOK /\ CertTypeOK /\ BackupTypeOK /\ RunTypeOK

================================
