---------------------------------- MODULE Uptime ---------------------------------
(***************************************************************************)
(* Uptime checks and incidents (internal/server/uptime.go, store/uptime.go)*)
(* the prober probes every app whose check is on once a minute, opens an   *)
(* incident after DownAfter failures in a row and resolves it after        *)
(* RecoverAfter passes in a row.                                           *)
(*                                                                         *)
(* A round reads the checks of all its targets, probes them side by side   *)
(* and waits for all; people change checks and incidents meanwhile.  An    *)
(* incident is opened, the alert sent and the state of the check stored in *)
(* that order and each on its own.                                         *)
(***************************************************************************)
EXTENDS Naturals, FiniteSets, Sequences

CONSTANTS
    Watched,       \* web apps
    DownAfter,     \* uptimeDownAfter, 3 in the code
    RecoverAfter,  \* uptimeRecoverAfter, 2 in the code
    MaxIncidents,  \* bound: incidents
    MaxEdits,      \* bound: changes by people, and of what the probes find
    ProbeFaults    \* what may go wrong, each once: a subset of ProbeFaultKinds

\* sample, open, resolve, state: statements on the database.
ProbeFaultKinds == {"sample", "open", "resolve", "state", "crash"}

ASSUME UptimeAssumption ==
    /\ IsFiniteSet(Watched) /\ DownAfter \in Nat \ {0} /\ RecoverAfter \in Nat \ {0}
    /\ MaxIncidents \in Nat /\ MaxEdits \in Nat /\ ProbeFaults \subseteq ProbeFaultKinds

VARIABLES
    check,      \* uptime_checks: the row of each app
    incidents,  \* incidents, oldest first
    probe,      \* the goroutine of each target of the round
    serves,     \* whether the app answers
    deployed,   \* whether its newest deploy is live or deploying
    alert,      \* the last alert sent of each app
    upset,      \* history: apps hit by a fault, or whose incident a person resolved
    failures,   \* the faults that have happened
    edits       \* how much of MaxEdits is spent

uptimeVars == <<check, incidents, probe, serves, deployed, alert, upset, failures, edits>>

\* Streaks are only compared with the thresholds: they are counted up to those.
CheckRow == [enabled : BOOLEAN, state : {"unknown", "up", "down"},
             fails : 0 .. DownAfter, oks : 0 .. RecoverAfter]
Incident == [app : Watched, auto : BOOLEAN, open : BOOLEAN]

\* check: the row as the round read it, with this probe's outcome.
\* incident: what OpenAutoIncident found.
ProbePCs == {"idle", "probe", "sample", "judge", "open", "find", "resolve", "tell", "store"}
NewCheck == [enabled |-> TRUE, state |-> "unknown", fails |-> 0, oks |-> 0]
NoProbe  == [pc |-> "idle", ok |-> TRUE, check |-> NewCheck, incident |-> 0]

UptimeInit ==
    /\ check = [a \in Watched |-> NewCheck]
    /\ incidents = <<>>
    /\ probe = [a \in Watched |-> NoProbe]
    /\ serves = [a \in Watched |-> TRUE] /\ deployed = [a \in Watched |-> TRUE]
    /\ alert = [a \in Watched |-> "none"]
    /\ upset = {} /\ failures = {} /\ edits = 0

ProbeAt(a, pc) == probe' = [probe EXCEPT ![a].pc = pc]

Breaks(k, a) == /\ k \in ProbeFaults \ failures /\ failures' = failures \cup {k}
                /\ upset' = upset \cup {a}

Open(a) == {i \in DOMAIN incidents :
                incidents[i].app = a /\ incidents[i].auto /\ incidents[i].open}

--------------------------------
(***************************************************************************)
(* uptimeRound, recordUptime.                                              *)
(***************************************************************************)

\* uptimeTargets: internal apps and the defaults are left out.
Target(a) == check[a].enabled /\ deployed[a]

RoundStarts ==
    /\ \A a \in Watched : probe[a].pc = "idle"
    /\ \E a \in Watched : Target(a)
    /\ probe' = [a \in Watched |-> IF Target(a) THEN [NoProbe EXCEPT !.pc = "probe", !.check = check[a]]
                                   ELSE NoProbe]
    /\ UNCHANGED <<check, incidents, serves, deployed, alert, upset, failures, edits>>

Probes(a) ==
    /\ probe[a].pc = "probe"
    /\ probe' = [probe EXCEPT ![a].pc = "sample", ![a].ok = serves[a]]
    /\ UNCHANGED <<check, incidents, serves, deployed, alert, upset, failures, edits>>

\* AddUptimeSample: without it the probe does not count.
Samples(a) ==
    /\ probe[a].pc = "sample"
    /\ \/ ProbeAt(a, "judge") /\ UNCHANGED <<upset, failures>>
       \/ Breaks("sample", a) /\ probe' = [probe EXCEPT ![a] = NoProbe]
    /\ UNCHANGED <<check, incidents, serves, deployed, alert, edits>>

AtMost(n, max) == IF n > max THEN max ELSE n

\* What a probe makes of a check.
Judged(c, ok) ==
    LET fails == IF ok THEN 0 ELSE AtMost(c.fails + 1, DownAfter)
        oks   == IF ok THEN AtMost(c.oks + 1, RecoverAfter) ELSE 0
        state == IF ok
                 THEN IF c.state # "down" \/ oks = RecoverAfter THEN "up" ELSE "down"
                 ELSE IF fails = DownAfter THEN "down" ELSE c.state
    IN  [c EXCEPT !.fails = fails, !.oks = oks, !.state = state]

\* Mutant: a check that is down goes down again.
JudgesAgain(a) ==
    /\ probe[a].pc = "judge"
    /\ LET was == probe[a].check
           now == Judged(was, probe[a].ok)
       IN  probe' = [probe EXCEPT ![a].check = now,
                ![a].pc = CASE now.state = "down" /\ ~probe[a].ok         -> "open"
                            [] was.state = "down" /\ now.state = "up"   -> "find"
                            [] OTHER                                    -> "store"]
    /\ UNCHANGED <<check, incidents, serves, deployed, alert, upset, failures, edits>>

Judges(a) ==
    /\ probe[a].pc = "judge"
    /\ LET was == probe[a].check
           now == Judged(was, probe[a].ok)
       IN  probe' = [probe EXCEPT ![a].check = now,
                ![a].pc = CASE was.state # "down" /\ now.state = "down" -> "open"
                            [] was.state = "down" /\ now.state = "up"   -> "find"
                            [] OTHER                                    -> "store"]
    /\ UNCHANGED <<check, incidents, serves, deployed, alert, upset, failures, edits>>

\* uptimeDown: OpenIncident; the alert goes out without it too.
Opens(a) ==
    /\ probe[a].pc = "open" /\ Len(incidents) < MaxIncidents
    /\ ProbeAt(a, "tell")
    /\ \/ /\ incidents' = Append(incidents, [app |-> a, auto |-> TRUE, open |-> TRUE])
          /\ UNCHANGED <<upset, failures>>
       \/ Breaks("open", a) /\ UNCHANGED incidents
    /\ UNCHANGED <<check, serves, deployed, alert, edits>>

\* uptimeRecovered: OpenAutoIncident is the newest.
Finds(a) ==
    /\ probe[a].pc = "find"
    /\ IF Open(a) = {}
       THEN ProbeAt(a, "tell")
       ELSE probe' = [probe EXCEPT ![a].pc = "resolve",
                          ![a].incident = CHOOSE i \in Open(a) : \A j \in Open(a) : j <= i]
    /\ UNCHANGED <<check, incidents, serves, deployed, alert, upset, failures, edits>>

\* AddIncidentUpdate, ResolveIncident; a person may have been there first.
Resolves(a) ==
    /\ probe[a].pc = "resolve"
    /\ ProbeAt(a, "tell")
    /\ \/ /\ incidents' = [incidents EXCEPT ![probe[a].incident].open = FALSE]
          /\ UNCHANGED <<upset, failures>>
       \/ Breaks("resolve", a) /\ UNCHANGED incidents
    /\ UNCHANGED <<check, serves, deployed, alert, edits>>

\* notify: app_down, app_recovered.
Tells(a) ==
    /\ probe[a].pc = "tell"
    /\ alert' = [alert EXCEPT ![a] = probe[a].check.state]
    /\ ProbeAt(a, "store")
    /\ UNCHANGED <<check, incidents, serves, deployed, upset, failures, edits>>

\* SetUptimeState leaves what people set alone.
Stores(a) ==
    /\ probe[a].pc = "store"
    /\ probe' = [probe EXCEPT ![a] = NoProbe]
    /\ \/ /\ check' = [check EXCEPT ![a] = [probe[a].check EXCEPT !.enabled = check[a].enabled]]
          /\ UNCHANGED <<upset, failures>>
       \/ Breaks("state", a) /\ UNCHANGED check
    /\ UNCHANGED <<incidents, serves, deployed, alert, edits>>

ProberStep ==
    \/ RoundStarts
    \/ \E a \in Watched : \/ Probes(a) \/ Samples(a) \/ Judges(a) \/ Opens(a) \/ Finds(a)
                          \/ Resolves(a) \/ Tells(a) \/ Stores(a)

UptimeCrash ==
    /\ "crash" \in ProbeFaults \ failures /\ failures' = failures \cup {"crash"}
    /\ upset' = upset \cup {a \in Watched : probe[a].pc # "idle"}
    /\ probe' = [a \in Watched |-> NoProbe]
    /\ UNCHANGED <<check, incidents, serves, deployed, alert, edits>>

--------------------------------
(***************************************************************************)
(* People: setUptime, openIncident, handleResolveIncident.                 *)
(***************************************************************************)

Edit == edits < MaxEdits /\ edits' = edits + 1

SetEnabled(a) ==
    /\ Edit
    /\ check' = [check EXCEPT ![a].enabled = ~@]
    /\ UNCHANGED <<incidents, probe, serves, deployed, alert, upset, failures>>

OpenByHand(a) ==
    /\ Edit /\ Len(incidents) < MaxIncidents
    /\ incidents' = Append(incidents, [app |-> a, auto |-> FALSE, open |-> TRUE])
    /\ UNCHANGED <<check, probe, serves, deployed, alert, upset, failures>>

ResolveByHand(i) ==
    /\ Edit /\ incidents[i].open
    /\ incidents' = [incidents EXCEPT ![i].open = FALSE]
    /\ upset' = IF incidents[i].auto THEN upset \cup {incidents[i].app} ELSE upset
    /\ UNCHANGED <<check, probe, serves, deployed, alert, failures>>

\* The app stops answering or answers again; its newest deploy fails or is live.
Turns(a) ==
    /\ Edit
    /\ \/ serves' = [serves EXCEPT ![a] = ~@] /\ UNCHANGED deployed
       \/ deployed' = [deployed EXCEPT ![a] = ~@] /\ UNCHANGED serves
    /\ UNCHANGED <<check, incidents, probe, alert, upset, failures>>

UptimeNext ==
    \/ ProberStep \/ UptimeCrash
    \/ \E a \in Watched : SetEnabled(a) \/ OpenByHand(a) \/ Turns(a)
    \/ \E i \in DOMAIN incidents : ResolveByHand(i)

UptimeSpec == UptimeInit /\ [][UptimeNext]_uptimeVars

--------------------------------
(***************************************************************************)
(* Properties. What makes the uptime checks right: an outage has one       *)
(* incident and one alert.                                                 *)
(***************************************************************************)

\* Every variable has the shape its comment gives (uptime.go).
UptimeTypeOK ==
    /\ check \in [Watched -> CheckRow]
    /\ \A i \in DOMAIN incidents : incidents[i] \in Incident
    /\ \A a \in Watched :
        /\ probe[a].pc \in ProbePCs /\ probe[a].check \in CheckRow
        /\ probe[a].incident \in 0 .. Len(incidents)
    /\ alert \in [Watched -> {"none", "up", "down"}]
    /\ upset \subseteq Watched /\ failures \subseteq ProbeFaults /\ edits \in 0 .. MaxEdits

\* Between probes, what the three records of an outage say is the same: a check is
\* down, and the last alert said so, exactly when one incident of the prober is
\* open, however rounds, changes of the check and incidents of people fall, unless a
\* fault or a person's hand came between them (recordUptime).
OutageOnRecord ==
    \A a \in Watched \ upset : probe[a].pc = "idle" =>
        /\ Cardinality(Open(a)) = IF check[a].state = "down" THEN 1 ELSE 0
        /\ alert[a] = "down" <=> check[a].state = "down"

================================
