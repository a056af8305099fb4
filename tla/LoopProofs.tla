------------------------------- MODULE LoopProofs -------------------------------
(***************************************************************************)
(* Proofs about five of the server's loops, the uptime prober, the one     *)
(* that destroys idle machines, the one that takes backups, the one that   *)
(* starts scheduled pipelines and the one that reaps idle previews: for    *)
(* any number of apps, machines, pods, pipelines, branches, environments,  *)
(* requests and administrators, and any faults.                            *)
(***************************************************************************)
EXTENDS Uptime, Rentals, Backups, Schedules, Environments, TableLemmas, FiniteSetTheorems

--------------------------------
\* Uptime: what the records of an outage say while a probe is under way.

ProbeType == [pc : ProbePCs, ok : BOOLEAN, check : CheckRow, incident : Nat]

UptimeShape ==
    /\ check \in [Watched -> CheckRow] /\ probe \in [Watched -> ProbeType]
    /\ incidents \in Seq(Incident)
    /\ serves \in [Watched -> BOOLEAN] /\ deployed \in [Watched -> BOOLEAN]
    /\ alert \in [Watched -> {"none", "unknown", "up", "down"}]
    /\ upset \subseteq Watched
    /\ \A a \in Watched : LET i == probe[a].incident IN
           probe[a].pc = "resolve" => i \in DOMAIN incidents /\ incidents[i].app = a

\* The incidents, or the last alert, of an app are those of a check in state s.
OnRecord(a, s) == IF s = "down" THEN \E i \in Open(a) : Open(a) = {i} ELSE Open(a) = {}
Told(a, s)     == alert[a] = "down" <=> s = "down"

\* From reading its check to opening or resolving an incident a probe has changed nothing;
\* then the incidents, the alert and the check follow, in this order.
ProbeOK(a) ==
    LET p   == probe[a]
        was == check[a].state
        now == p.check.state
    IN  /\ p.pc \notin {"tell", "store"} => OnRecord(a, was) /\ Told(a, was)
        /\ p.pc \in {"probe", "sample", "judge"} => now = was
        /\ p.pc = "open" => was # "down" /\ now = "down"
        /\ p.pc \in {"find", "resolve"} => was = "down" /\ now = "up"
        /\ p.pc = "resolve" => Open(a) = {p.incident}
        /\ p.pc \in {"tell", "store"} => OnRecord(a, now)
        /\ p.pc = "store" => Told(a, now)

UptimeInv == UptimeShape /\ \A a \in Watched \ upset : ProbeOK(a)

LEMMA Thresholds == DownAfter \in Nat /\ DownAfter # 0 /\ RecoverAfter \in Nat
BY UptimeAssumption

\* A probe makes a check of a check: one that is down stays down or is up.
LEMMA JudgedIsCheck ==
    ASSUME NEW c \in CheckRow, NEW ok \in BOOLEAN
    PROVE  /\ Judged(c, ok) \in CheckRow
           /\ c.state = "down" => Judged(c, ok).state \in {"down", "up"}
<1> DEFINE fails == IF ok THEN 0 ELSE AtMost(c.fails + 1, DownAfter)
           oks   == IF ok THEN AtMost(c.oks + 1, RecoverAfter) ELSE 0
           state == IF ok
                    THEN IF c.state # "down" \/ oks = RecoverAfter THEN "up" ELSE "down"
                    ELSE IF fails = DownAfter THEN "down" ELSE c.state
<1>1. fails \in 0 .. DownAfter /\ oks \in 0 .. RecoverAfter
  BY Thresholds DEF CheckRow, AtMost
<1>2. /\ state \in {"unknown", "up", "down"}
      /\ c.state = "down" => state \in {"down", "up"}
  BY DEF CheckRow
<1>3. Judged(c, ok) = [c EXCEPT !.fails = fails, !.oks = oks, !.state = state]
  BY DEF Judged
<1> HIDE DEF fails, oks, state
<1> QED
  BY <1>1, <1>2, <1>3 DEF CheckRow

\* What the records say of an app changes only with them.
LEMMA ProbeStays ==
    ASSUME NEW b, ProbeOK(b), check'[b].state = check[b].state, probe'[b] = probe[b],
           Open(b)' = Open(b), alert'[b] = alert[b]
    PROVE  ProbeOK(b)'
BY DEF ProbeOK, OnRecord, Told

\* An incident is opened.
LEMMA IncidentAdded ==
    ASSUME UptimeShape, NEW r \in Incident, incidents' = Append(incidents, r)
    PROVE  /\ incidents' \in Seq(Incident) /\ DOMAIN incidents \subseteq DOMAIN incidents'
           /\ \A i \in DOMAIN incidents : incidents'[i] = incidents[i]
           /\ \A b : Open(b)' = IF r.app = b /\ r.auto /\ r.open
                                THEN Open(b) \cup {Len(incidents) + 1} ELSE Open(b)
<1>1. incidents \in Seq(Incident)
  BY DEF UptimeShape
<1>2. /\ incidents' \in Seq(Incident) /\ Len(incidents') = Len(incidents) + 1
      /\ DOMAIN incidents' = DOMAIN incidents \cup {Len(incidents) + 1}
      /\ incidents'[Len(incidents) + 1] = r
      /\ \A i \in DOMAIN incidents : incidents'[i] = incidents[i]
  BY <1>1, AddRow
<1>3. Len(incidents) + 1 \notin DOMAIN incidents
  BY <1>1, LenProperties
<1>4. PICK n : n = Len(incidents) + 1
  OBVIOUS
<1>5. ASSUME NEW b
      PROVE  Open(b)' = IF r.app = b /\ r.auto /\ r.open THEN Open(b) \cup {n} ELSE Open(b)
  <2>1. \A x : x \in Open(b)' <=>
            x \in DOMAIN incidents' /\ incidents'[x].app = b
                /\ incidents'[x].auto /\ incidents'[x].open
    BY DEF Open
  <2>2. \A x : x \in Open(b) <=>
            x \in DOMAIN incidents /\ incidents[x].app = b
                /\ incidents[x].auto /\ incidents[x].open
    BY DEF Open
  <2>3. \A x : x \in Open(b)' <=> x \in Open(b) \/ (x = n /\ r.app = b /\ r.auto /\ r.open)
    BY <1>2, <1>3, <1>4, <2>1, <2>2
  <2> QED
    BY <2>3
<1> QED
  BY <1>2, <1>4, <1>5

\* An incident is resolved.
LEMMA IncidentClosed ==
    ASSUME UptimeShape, NEW i \in DOMAIN incidents,
           incidents' = [incidents EXCEPT ![i].open = FALSE]
    PROVE  /\ incidents' \in Seq(Incident) /\ DOMAIN incidents = DOMAIN incidents'
           /\ \A j \in DOMAIN incidents : incidents'[j].app = incidents[j].app
           /\ \A b : Open(b)' = Open(b) \ {i}
<1>1. incidents \in Seq(Incident) /\ incidents[i] \in Incident
  BY DEF UptimeShape
<1>2. PICK r \in Incident : r = [incidents[i] EXCEPT !.open = FALSE]
  BY <1>1 DEF Incident
<1>3. incidents' = [incidents EXCEPT ![i] = r] /\ ~ r.open /\ r.app = incidents[i].app
  BY <1>1, <1>2 DEF Incident
<1>4. LET s == [incidents EXCEPT ![i] = r] IN
      /\ s \in Seq(Incident) /\ DOMAIN s = DOMAIN incidents /\ s[i] = r
      /\ \A j \in DOMAIN incidents : j # i => s[j] = incidents[j]
  BY <1>1, PutRow
<1>5. /\ incidents' \in Seq(Incident) /\ DOMAIN incidents' = DOMAIN incidents
      /\ incidents'[i] = r
      /\ \A j \in DOMAIN incidents : j # i => incidents'[j] = incidents[j]
  BY <1>3, <1>4
<1> QED
  BY <1>3, <1>5 DEF Open

LEMMA UptimeInitially == UptimeInit => UptimeInv
<1> SUFFICES ASSUME UptimeInit  PROVE UptimeInv
  OBVIOUS
<1>1. NewCheck \in CheckRow /\ NoProbe \in ProbeType
  BY Thresholds DEF NewCheck, NoProbe, CheckRow, ProbeType, ProbePCs
<1>2. UptimeShape
  BY <1>1 DEF UptimeInit, UptimeShape, NoProbe
<1>3. \A a \in Watched : ProbeOK(a)
  BY DEF UptimeInit, ProbeOK, OnRecord, Told, Open, NoProbe, NewCheck
<1> QED
  BY <1>2, <1>3 DEF UptimeInv

\* A probe moves: what holds of the others holds still.
LEMMA ProbeMoves ==
    ASSUME UptimeInv, NEW a \in Watched, NEW p \in ProbeType, probe' = [probe EXCEPT ![a] = p],
           check' \in [Watched -> CheckRow], incidents' \in Seq(Incident),
           alert' \in [Watched -> {"none", "unknown", "up", "down"}],
           UNCHANGED <<serves, deployed>>, upset \subseteq upset', upset' \subseteq Watched,
           \A b \in Watched : b # a =>
               /\ check'[b].state = check[b].state /\ alert'[b] = alert[b]
               /\ Open(b)' = Open(b),
           \A i \in DOMAIN incidents :
               i \in DOMAIN incidents' /\ incidents'[i].app = incidents[i].app,
           p.pc = "resolve" => p.incident \in DOMAIN incidents /\ incidents[p.incident].app = a,
           a \notin upset' => ProbeOK(a)'
    PROVE  UptimeInv'
<1>1. /\ probe' \in [Watched -> ProbeType] /\ probe'[a] = p
      /\ \A b \in Watched : b # a => probe'[b] = probe[b]
  BY DEF UptimeInv, UptimeShape
<1>2. \A b \in Watched : probe'[b].pc = "resolve" =>
          probe'[b].incident \in DOMAIN incidents' /\ incidents'[probe'[b].incident].app = b
  BY <1>1 DEF UptimeInv, UptimeShape
<1>3. UptimeShape'
  BY <1>1, <1>2 DEF UptimeInv, UptimeShape
<1>4. ASSUME NEW b \in Watched \ upset', b # a  PROVE ProbeOK(b)'
  BY <1>1, <1>4, ProbeStays DEF UptimeInv
<1> QED
  BY <1>3, <1>4 DEF UptimeInv

\* A person acts: no probe moves.
LEMMA ProbesStand ==
    ASSUME UptimeInv, UNCHANGED <<probe, alert>>,
           check' \in [Watched -> CheckRow], incidents' \in Seq(Incident),
           serves' \in [Watched -> BOOLEAN], deployed' \in [Watched -> BOOLEAN],
           upset \subseteq upset', upset' \subseteq Watched,
           \A b \in Watched : check'[b].state = check[b].state,
           \A b \in Watched : b \notin upset' => Open(b)' = Open(b),
           \A i \in DOMAIN incidents :
               i \in DOMAIN incidents' /\ incidents'[i].app = incidents[i].app
    PROVE  UptimeInv'
<1>1. \A b \in Watched : probe'[b].pc = "resolve" =>
          probe'[b].incident \in DOMAIN incidents' /\ incidents'[probe'[b].incident].app = b
  BY DEF UptimeInv, UptimeShape
<1>2. UptimeShape'
  BY <1>1 DEF UptimeInv, UptimeShape
<1>3. ASSUME NEW b \in Watched \ upset'  PROVE ProbeOK(b)'
  BY <1>3, ProbeStays DEF UptimeInv
<1> QED
  BY <1>2, <1>3 DEF UptimeInv

\* What the lemmas ask of the records a probe's step leaves alone.
LEMMA RecordsStay ==
    ASSUME UptimeInv, UNCHANGED <<check, incidents, alert>>
    PROVE  /\ check' \in [Watched -> CheckRow] /\ incidents' \in Seq(Incident)
           /\ alert' \in [Watched -> {"none", "unknown", "up", "down"}]
           /\ \A b : /\ check'[b].state = check[b].state /\ alert'[b] = alert[b]
                     /\ Open(b)' = Open(b)
           /\ \A i \in DOMAIN incidents :
                  i \in DOMAIN incidents' /\ incidents'[i].app = incidents[i].app
<1>1. \A b : Open(b)' = Open(b)
  BY DEF Open
<1> QED
  BY <1>1 DEF UptimeInv, UptimeShape

--------------------------------
\* Each step of the prober and of people keeps the invariant.

LEMMA NoProbeTyped == NoProbe \in ProbeType /\ NoProbe.pc = "idle"
BY Thresholds DEF NewCheck, NoProbe, CheckRow, ProbeType, ProbePCs

LEMMA NewProbeTyped ==
    ASSUME NEW c \in CheckRow
    PROVE  [NoProbe EXCEPT !.pc = "probe", !.check = c] \in ProbeType
BY DEF NoProbe, ProbeType, ProbePCs

\* The field of a probe that a step sets.
LEMMA ProbePut ==
    ASSUME NEW q \in ProbeType, NEW pc \in ProbePCs, NEW ok \in BOOLEAN, NEW n \in Nat,
           NEW c \in CheckRow
    PROVE  /\ [q EXCEPT !.pc = pc] \in ProbeType
           /\ [q EXCEPT !.pc = pc, !.ok = ok] \in ProbeType
           /\ [q EXCEPT !.pc = pc, !.incident = n] \in ProbeType
           /\ [q EXCEPT !.check = c, !.pc = pc] \in ProbeType
BY DEF ProbeType

\* ProbeAt, as the lemmas take it.
LEMMA ProbeGoes ==
    ASSUME UptimeInv, NEW a \in Watched, NEW pc \in ProbePCs, ProbeAt(a, pc)
    PROVE  \E p \in ProbeType :
               /\ probe' = [probe EXCEPT ![a] = p] /\ probe'[a] = p
               /\ p.pc = pc /\ p.check = probe[a].check /\ p.incident = probe[a].incident
<1>1. probe[a] \in ProbeType /\ probe \in [Watched -> ProbeType]
  BY DEF UptimeInv, UptimeShape
<1>2. PICK p : p = [probe[a] EXCEPT !.pc = pc]
  OBVIOUS
<1>3. /\ p \in ProbeType /\ p.pc = pc
      /\ p.check = probe[a].check /\ p.incident = probe[a].incident
  BY <1>1, <1>2 DEF ProbeType
<1>4. probe' = [probe EXCEPT ![a] = p] /\ probe'[a] = p
  BY <1>1, <1>2 DEF ProbeAt
<1> QED
  BY <1>3, <1>4

LEMMA RoundStartsKeeps == ASSUME UptimeInv, RoundStarts  PROVE UptimeInv'
<1>1. ASSUME NEW a \in Watched
      PROVE  /\ probe'[a] \in ProbeType /\ probe'[a].pc \in {"idle", "probe"}
             /\ probe'[a].pc = "probe" => probe'[a].check = check[a]
  <2>1. check[a] \in CheckRow
    BY DEF UptimeInv, UptimeShape
  <2>2. PICK q : q = [NoProbe EXCEPT !.pc = "probe", !.check = check[a]]
    OBVIOUS
  <2>3. q \in ProbeType /\ q.pc = "probe" /\ q.check = check[a]
    BY <2>1, <2>2, NewProbeTyped DEF NoProbe
  <2>4. probe'[a] = q \/ probe'[a] = NoProbe
    BY <2>2 DEF RoundStarts
  <2> QED
    BY <2>3, <2>4, NoProbeTyped
<1>2. probe' \in [Watched -> ProbeType]
  BY <1>1 DEF RoundStarts
<1>3. UptimeShape'
  BY <1>1, <1>2 DEF RoundStarts, UptimeInv, UptimeShape
<1>4. ASSUME NEW a \in Watched \ upset  PROVE ProbeOK(a)'
  <2>1. Open(a)' = Open(a)
    BY DEF RoundStarts, Open
  <2>2. /\ OnRecord(a, check[a].state) /\ Told(a, check[a].state)
        /\ check' = check /\ alert' = alert
    BY DEF RoundStarts, UptimeInv, ProbeOK
  <2> QED
    BY <1>1, <2>1, <2>2 DEF ProbeOK, OnRecord, Told
<1> QED
  BY <1>3, <1>4 DEF UptimeInv, RoundStarts

LEMMA ProbesKeeps == ASSUME UptimeInv, NEW a \in Watched, Probes(a)  PROVE UptimeInv'
<1>1. PICK p : p = [probe[a] EXCEPT !.pc = "sample", !.ok = serves[a]]
  OBVIOUS
<1>2. probe[a] \in ProbeType /\ serves[a] \in BOOLEAN /\ probe \in [Watched -> ProbeType]
  BY DEF UptimeInv, UptimeShape
<1>3. p \in ProbeType /\ p.pc = "sample" /\ p.check = probe[a].check
  BY <1>1, <1>2 DEF ProbeType, ProbePCs
<1>4. probe' = [probe EXCEPT ![a] = p] /\ probe'[a] = p
  BY <1>1, <1>2 DEF Probes
<1>5. UNCHANGED <<check, incidents, serves, deployed, alert, upset>> /\ probe[a].pc = "probe"
  BY DEF Probes
<1>6. a \notin upset' => ProbeOK(a)'
  BY <1>3, <1>4, <1>5, RecordsStay DEF UptimeInv, ProbeOK, OnRecord, Told
<1>7. upset \subseteq upset' /\ upset' \subseteq Watched
  BY <1>5 DEF UptimeInv, UptimeShape
<1> QED
  BY <1>3, <1>4, <1>5, <1>6, <1>7, RecordsStay, ProbeMoves

LEMMA SamplesKeeps == ASSUME UptimeInv, NEW a \in Watched, Samples(a)  PROVE UptimeInv'
<1>1. UNCHANGED <<check, incidents, serves, deployed, alert>> /\ probe[a].pc = "sample"
  BY DEF Samples
<1>2. CASE ProbeAt(a, "judge") /\ UNCHANGED upset
  <2>1. PICK p \in ProbeType : /\ probe' = [probe EXCEPT ![a] = p] /\ probe'[a] = p
                               /\ p.pc = "judge" /\ p.check = probe[a].check
    BY <1>2, ProbeGoes DEF ProbePCs
  <2>2. a \notin upset' => ProbeOK(a)'
    BY <1>1, <1>2, <2>1, RecordsStay DEF UptimeInv, ProbeOK, OnRecord, Told
  <2>3. upset \subseteq upset' /\ upset' \subseteq Watched
    BY <1>2 DEF UptimeInv, UptimeShape
  <2> QED
    BY <1>1, <2>1, <2>2, <2>3, RecordsStay, ProbeMoves
<1>3. CASE Breaks("sample", a) /\ probe' = [probe EXCEPT ![a] = NoProbe]
  <2>1. upset \subseteq upset' /\ upset' \subseteq Watched /\ a \in upset'
    BY <1>3 DEF Breaks, UptimeInv, UptimeShape
  <2> QED
    BY <1>1, <1>3, <2>1, NoProbeTyped, RecordsStay, ProbeMoves
<1> QED
  BY <1>2, <1>3 DEF Samples

LEMMA JudgesKeeps == ASSUME UptimeInv, NEW a \in Watched, Judges(a)  PROVE UptimeInv'
<1> DEFINE was == probe[a].check
           now == Judged(was, probe[a].ok)
<1>1. probe[a] \in ProbeType /\ probe \in [Watched -> ProbeType]
  BY DEF UptimeInv, UptimeShape
<1>2. PICK c : c = now
  OBVIOUS
<1>3. /\ c \in CheckRow /\ was \in CheckRow
      /\ was.state = "down" => c.state \in {"down", "up"}
  BY <1>1, <1>2, JudgedIsCheck DEF ProbeType
<1>4. PICK pc \in {"open", "find", "store"} :
          /\ pc = "open" <=> was.state # "down" /\ c.state = "down"
          /\ pc = "find" <=> was.state = "down" /\ c.state = "up"
          /\ probe' = [probe EXCEPT ![a].check = c, ![a].pc = pc]
  <2>1. CASE was.state # "down" /\ c.state = "down"
    BY <1>2, <2>1 DEF Judges
  <2>2. CASE was.state = "down" /\ c.state = "up"
    BY <1>2, <2>2 DEF Judges
  <2>3. CASE ~ (was.state # "down" /\ c.state = "down") /\ ~ (was.state = "down" /\ c.state = "up")
    BY <1>2, <2>3 DEF Judges
  <2> QED
    BY <2>1, <2>2, <2>3
<1>5. PICK p : p = [probe[a] EXCEPT !.check = c, !.pc = pc]
  OBVIOUS
<1>6. p \in ProbeType /\ p.pc = pc /\ p.check = c
  BY <1>1, <1>3, <1>5 DEF ProbeType, ProbePCs
<1>7. probe' = [probe EXCEPT ![a] = p] /\ probe'[a] = p
  BY <1>1, <1>4, <1>5
<1>8. /\ UNCHANGED <<check, incidents, serves, deployed, alert, upset>>
      /\ probe[a].pc = "judge"
  BY DEF Judges
<1>9. a \notin upset' => ProbeOK(a)'
  <2>1. SUFFICES ASSUME a \notin upset  PROVE ProbeOK(a)'
    BY <1>8
  <2>2. /\ OnRecord(a, check[a].state) /\ Told(a, check[a].state)
        /\ check[a].state = was.state
    BY <1>8, <2>1 DEF UptimeInv, ProbeOK
  <2>3. Open(a)' = Open(a) /\ alert' = alert /\ check' = check
    BY <1>8, RecordsStay
  <2> HIDE DEF was, now
  <2>4. pc = "store" => (c.state = "down" <=> was.state = "down")
    BY <1>3, <1>4
  <2>5. pc = "store" => OnRecord(a, c.state) /\ Told(a, c.state)
    BY <2>2, <2>4 DEF OnRecord, Told
  <2>6. probe'[a].pc = pc /\ probe'[a].check = c /\ check'[a].state = was.state
    BY <1>6, <1>7, <2>2, <2>3
  <2>7. \A s : (OnRecord(a, s)' <=> OnRecord(a, s)) /\ (Told(a, s)' <=> Told(a, s))
    BY <2>3 DEF OnRecord, Told
  <2> QED
    BY <1>4, <2>2, <2>5, <2>6, <2>7 DEF ProbeOK
<1>10. upset \subseteq upset' /\ upset' \subseteq Watched
  BY <1>8 DEF UptimeInv, UptimeShape
<1>11. p.pc # "resolve"
  BY <1>4, <1>6
<1> HIDE DEF was, now
<1> QED
  BY <1>6, <1>7, <1>8, <1>9, <1>10, <1>11, RecordsStay, ProbeMoves

LEMMA OpensKeeps == ASSUME UptimeInv, NEW a \in Watched, Opens(a)  PROVE UptimeInv'
<1>1. UNCHANGED <<check, serves, deployed, alert>> /\ probe[a].pc = "open" /\ ProbeAt(a, "tell")
  BY DEF Opens
<1>2. PICK p \in ProbeType : /\ probe' = [probe EXCEPT ![a] = p] /\ probe'[a] = p
                             /\ p.pc = "tell" /\ p.check = probe[a].check
  BY <1>1, ProbeGoes DEF ProbePCs
<1>3. upset \subseteq upset' /\ upset' \subseteq Watched
  BY DEF Opens, Breaks, UptimeInv, UptimeShape
<1>4. CASE incidents' = Append(incidents, [app |-> a, auto |-> TRUE, open |-> TRUE])
           /\ UNCHANGED upset
  <2>1. PICK r \in Incident : /\ r = [app |-> a, auto |-> TRUE, open |-> TRUE]
                              /\ r.app = a /\ r.auto /\ r.open
    <3>1. PICK q : q = [app |-> a, auto |-> TRUE, open |-> TRUE]
      OBVIOUS
    <3>2. q \in Incident /\ q.app = a
      BY <3>1 DEF Incident
    <3>3. q.auto /\ q.open
      BY <3>1
    <3> QED
      BY <3>1, <3>2, <3>3
  <2>2. PICK n : n = Len(incidents) + 1
    OBVIOUS
  <2>3. /\ incidents' \in Seq(Incident) /\ DOMAIN incidents \subseteq DOMAIN incidents'
        /\ \A i \in DOMAIN incidents : incidents'[i] = incidents[i]
        /\ Open(a)' = Open(a) \cup {n}
        /\ \A b \in Watched : b # a => Open(b)' = Open(b)
    <3>1. incidents' = Append(incidents, r)
      BY <1>4, <2>1
    <3> QED
      BY <2>1, <2>2, <3>1, IncidentAdded DEF UptimeInv
  <2>4. a \notin upset' => ProbeOK(a)'
    <3>1. SUFFICES ASSUME a \notin upset  PROVE ProbeOK(a)'
      BY <1>4
    <3>2. Open(a) = {} /\ p.check.state = "down"
      BY <1>1, <1>2, <3>1 DEF UptimeInv, ProbeOK, OnRecord
    <3>3. n \in Open(a)' /\ Open(a)' = {n}
      BY <2>3, <3>2
    <3> QED
      BY <1>2, <3>2, <3>3 DEF ProbeOK, OnRecord
  <2> QED
    BY <1>1, <1>2, <1>3, <2>3, <2>4, ProbeMoves DEF UptimeInv, UptimeShape
<1>5. CASE Breaks("open", a) /\ UNCHANGED incidents
  <2>1. a \in upset'
    BY <1>5 DEF Breaks
  <2> QED
    BY <1>1, <1>2, <1>3, <1>5, <2>1, RecordsStay, ProbeMoves
<1> QED
  BY <1>4, <1>5 DEF Opens

LEMMA FindsKeeps == ASSUME UptimeInv, NEW a \in Watched, Finds(a)  PROVE UptimeInv'
<1>1. UNCHANGED <<check, incidents, serves, deployed, alert, upset>> /\ probe[a].pc = "find"
  BY DEF Finds
<1>2. upset \subseteq upset' /\ upset' \subseteq Watched
  BY <1>1 DEF UptimeInv, UptimeShape
<1>3. a \notin upset => \E i \in Open(a) : Open(a) = {i}
  BY <1>1 DEF UptimeInv, ProbeOK, OnRecord
<1>4. CASE Open(a) = {}
  <2>1. a \in upset /\ ProbeAt(a, "tell")
    BY <1>3, <1>4 DEF Finds
  <2>2. PICK p \in ProbeType : probe' = [probe EXCEPT ![a] = p] /\ p.pc = "tell"
    BY <2>1, ProbeGoes DEF ProbePCs
  <2> QED
    BY <1>1, <1>2, <2>1, <2>2, RecordsStay, ProbeMoves
<1>5. CASE Open(a) # {}
  <2>1. PICK i : i = CHOOSE j \in Open(a) : \A k \in Open(a) : k <= j
    OBVIOUS
  <2>2. incidents \in Seq(Incident) /\ Len(incidents) \in Nat
        /\ DOMAIN incidents = 1 .. Len(incidents)
    BY LenProperties DEF UptimeInv, UptimeShape
  <2>3. Open(a) \in SUBSET Nat /\ \A k \in Open(a) : k <= Len(incidents)
    BY <2>2 DEF Open
  <2>4. i \in Open(a)
    BY <1>5, <2>1, <2>2, <2>3, MaxPicks
  <2>5. i \in DOMAIN incidents /\ incidents[i].app = a /\ i \in Nat
    BY <2>3, <2>4 DEF Open
  <2>6. probe[a] \in ProbeType /\ probe \in [Watched -> ProbeType]
    BY DEF UptimeInv, UptimeShape
  <2>7. PICK p : p = [probe[a] EXCEPT !.pc = "resolve", !.incident = i]
    OBVIOUS
  <2>8. p \in ProbeType /\ p.pc = "resolve" /\ p.incident = i /\ p.check = probe[a].check
    BY <2>5, <2>6, <2>7 DEF ProbeType, ProbePCs
  <2>9. probe' = [probe EXCEPT ![a] = p] /\ probe'[a] = p
    <3>1. probe' = [probe EXCEPT ![a].pc = "resolve", ![a].incident = i]
      BY <1>5, <2>1 DEF Finds
    <3> QED
      BY <2>6, <2>7, <3>1
  <2>10. a \notin upset' => ProbeOK(a)'
    <3>1. SUFFICES ASSUME a \notin upset  PROVE ProbeOK(a)'
      BY <1>1
    <3>2. Open(a) = {i}
      BY <1>3, <2>4, <3>1
    <3>3. /\ OnRecord(a, check[a].state) /\ Told(a, check[a].state)
          /\ check[a].state = "down" /\ p.check.state = "up"
      BY <1>1, <2>8, <3>1 DEF UptimeInv, ProbeOK
    <3>4. Open(a)' = Open(a) /\ alert' = alert /\ check' = check
      BY <1>1, RecordsStay
    <3> QED
      BY <2>8, <2>9, <3>2, <3>3, <3>4 DEF ProbeOK, OnRecord, Told
  <2> QED
    BY <1>1, <1>2, <2>5, <2>8, <2>9, <2>10, RecordsStay, ProbeMoves
<1> QED
  BY <1>4, <1>5

LEMMA ResolvesKeeps == ASSUME UptimeInv, NEW a \in Watched, Resolves(a)  PROVE UptimeInv'
<1>1. /\ UNCHANGED <<check, serves, deployed, alert>> /\ probe[a].pc = "resolve"
      /\ ProbeAt(a, "tell")
  BY DEF Resolves
<1>2. PICK p \in ProbeType : /\ probe' = [probe EXCEPT ![a] = p] /\ probe'[a] = p
                             /\ p.pc = "tell" /\ p.check = probe[a].check
  BY <1>1, ProbeGoes DEF ProbePCs
<1>3. upset \subseteq upset' /\ upset' \subseteq Watched
  BY DEF Resolves, Breaks, UptimeInv, UptimeShape
<1>4. PICK i : i = probe[a].incident
  OBVIOUS
<1>5. i \in DOMAIN incidents /\ incidents[i].app = a
  BY <1>1, <1>4 DEF UptimeInv, UptimeShape
<1>6. CASE incidents' = [incidents EXCEPT ![probe[a].incident].open = FALSE] /\ UNCHANGED upset
  <2>1. /\ incidents' \in Seq(Incident) /\ DOMAIN incidents = DOMAIN incidents'
        /\ \A j \in DOMAIN incidents : incidents'[j].app = incidents[j].app
        /\ \A b : Open(b)' = Open(b) \ {i}
    <3>1. incidents' = [incidents EXCEPT ![i].open = FALSE]
      BY <1>4, <1>6
    <3> QED
      BY <1>5, <3>1, IncidentClosed DEF UptimeInv
  <2>2. \A b \in Watched : b # a => Open(b)' = Open(b)
    <3>1. \A b \in Watched : b # a => i \notin Open(b)
      BY <1>5 DEF Open
    <3> QED
      BY <2>1, <3>1
  <2>3. a \notin upset' => ProbeOK(a)'
    <3>1. SUFFICES ASSUME a \notin upset  PROVE ProbeOK(a)'
      BY <1>6
    <3>2. Open(a) = {i} /\ p.check.state = "up"
      BY <1>1, <1>2, <1>4, <3>1 DEF UptimeInv, ProbeOK
    <3>3. Open(a)' = {}
      BY <2>1, <3>2
    <3> QED
      BY <1>2, <3>2, <3>3 DEF ProbeOK, OnRecord
  <2> QED
    BY <1>1, <1>2, <1>3, <2>1, <2>2, <2>3, ProbeMoves DEF UptimeInv, UptimeShape
<1>7. CASE Breaks("resolve", a) /\ UNCHANGED incidents
  <2>1. a \in upset'
    BY <1>7 DEF Breaks
  <2> QED
    BY <1>1, <1>2, <1>3, <1>7, <2>1, RecordsStay, ProbeMoves
<1> QED
  BY <1>6, <1>7 DEF Resolves

LEMMA TellsKeeps == ASSUME UptimeInv, NEW a \in Watched, Tells(a)  PROVE UptimeInv'
<1>1. UNCHANGED <<check, incidents, serves, deployed, upset>> /\ probe[a].pc = "tell"
      /\ ProbeAt(a, "store")
  BY DEF Tells
<1>2. PICK p \in ProbeType : /\ probe' = [probe EXCEPT ![a] = p] /\ probe'[a] = p
                             /\ p.pc = "store" /\ p.check = probe[a].check
  BY <1>1, ProbeGoes DEF ProbePCs
<1>3. upset \subseteq upset' /\ upset' \subseteq Watched
  BY <1>1 DEF UptimeInv, UptimeShape
<1>4. PICK s : s = p.check.state
  OBVIOUS
<1>5. s \in {"unknown", "up", "down"}
  BY <1>4 DEF ProbeType, CheckRow
<1>6. /\ alert' = [alert EXCEPT ![a] = s] /\ alert'[a] = s
      /\ alert' \in [Watched -> {"none", "unknown", "up", "down"}]
      /\ \A b \in Watched : b # a => alert'[b] = alert[b]
  BY <1>2, <1>4, <1>5 DEF Tells, UptimeInv, UptimeShape
<1>7. \A b : Open(b)' = Open(b)
  BY <1>1 DEF Open
<1>8. a \notin upset' => ProbeOK(a)'
  <2>1. SUFFICES ASSUME a \notin upset  PROVE ProbeOK(a)'
    BY <1>1
  <2>2. OnRecord(a, s)
    BY <1>1, <1>2, <1>4, <2>1 DEF UptimeInv, ProbeOK
  <2>3. OnRecord(a, s)' /\ Told(a, s)'
    BY <1>6, <1>7, <2>2 DEF OnRecord, Told
  <2> QED
    BY <1>2, <1>4, <2>3 DEF ProbeOK
<1> QED
  BY <1>1, <1>2, <1>3, <1>6, <1>7, <1>8, ProbeMoves DEF UptimeInv, UptimeShape

LEMMA StoresKeeps == ASSUME UptimeInv, NEW a \in Watched, Stores(a)  PROVE UptimeInv'
<1>1. /\ UNCHANGED <<incidents, serves, deployed, alert>> /\ probe[a].pc = "store"
      /\ probe' = [probe EXCEPT ![a] = NoProbe]
  BY DEF Stores
<1>2. probe'[a] = NoProbe
  BY <1>1 DEF UptimeInv, UptimeShape
<1>3. upset \subseteq upset' /\ upset' \subseteq Watched
  BY DEF Stores, Breaks, UptimeInv, UptimeShape
<1>4. CASE /\ check' = [check EXCEPT ![a] = [probe[a].check EXCEPT !.enabled = check[a].enabled]]
           /\ UNCHANGED upset
  <2>1. probe[a].check \in CheckRow /\ check[a] \in CheckRow
        /\ check \in [Watched -> CheckRow]
    BY DEF UptimeInv, UptimeShape, ProbeType
  <2>2. PICK c : c = [probe[a].check EXCEPT !.enabled = check[a].enabled]
    OBVIOUS
  <2>3. c \in CheckRow /\ c.state = probe[a].check.state
    BY <2>1, <2>2 DEF CheckRow
  <2>4. /\ check' \in [Watched -> CheckRow] /\ check'[a] = c
        /\ \A b \in Watched : b # a => check'[b] = check[b]
    BY <1>4, <2>1, <2>2, <2>3
  <2>5. \A b : Open(b)' = Open(b)
    BY <1>1 DEF Open
  <2>6. a \notin upset' => ProbeOK(a)'
    <3>1. SUFFICES ASSUME a \notin upset  PROVE ProbeOK(a)'
      BY <1>4
    <3>2. OnRecord(a, c.state) /\ Told(a, c.state)
      BY <1>1, <2>3, <3>1 DEF UptimeInv, ProbeOK
    <3>3. OnRecord(a, c.state)' /\ Told(a, c.state)'
      BY <1>1, <2>5, <3>2 DEF OnRecord, Told
    <3> QED
      BY <1>2, <2>4, <3>3, NoProbeTyped DEF ProbeOK
  <2> QED
    BY <1>1, <1>3, <2>4, <2>5, <2>6, NoProbeTyped, ProbeMoves DEF UptimeInv, UptimeShape
<1>5. CASE Breaks("state", a) /\ UNCHANGED check
  <2>1. a \in upset'
    BY <1>5 DEF Breaks
  <2> QED
    BY <1>1, <1>3, <1>5, <2>1, NoProbeTyped, RecordsStay, ProbeMoves
<1> QED
  BY <1>4, <1>5 DEF Stores

LEMMA UptimeCrashKeeps == ASSUME UptimeInv, UptimeCrash  PROVE UptimeInv'
<1>1. /\ UNCHANGED <<check, incidents, serves, deployed, alert>>
      /\ upset' = upset \cup {a \in Watched : probe[a].pc # "idle"}
      /\ \A a \in Watched : probe'[a] = NoProbe
  BY DEF UptimeCrash
<1>2. UptimeShape'
  <2>1. probe' \in [Watched -> ProbeType]
    BY NoProbeTyped DEF UptimeCrash
  <2> QED
    BY <1>1, <2>1, NoProbeTyped DEF UptimeInv, UptimeShape
<1>3. ASSUME NEW a \in Watched \ upset'  PROVE ProbeOK(a)'
  <2>1. a \in Watched \ upset /\ probe[a].pc = "idle"
    BY <1>1, <1>3
  <2>2. OnRecord(a, check[a].state) /\ Told(a, check[a].state)
    BY <2>1 DEF UptimeInv, ProbeOK
  <2>3. Open(a)' = Open(a) /\ alert' = alert /\ check' = check
    BY <1>1 DEF Open
  <2> QED
    BY <1>1, <2>2, <2>3, NoProbeTyped DEF ProbeOK, OnRecord, Told
<1> QED
  BY <1>2, <1>3 DEF UptimeInv

LEMMA SetEnabledKeeps == ASSUME UptimeInv, NEW a \in Watched, SetEnabled(a)  PROVE UptimeInv'
<1>1. UNCHANGED <<incidents, probe, serves, deployed, alert, upset>>
  BY DEF SetEnabled
<1>2. check \in [Watched -> CheckRow]
  BY DEF UptimeInv, UptimeShape
<1>3. PICK c : c = [check[a] EXCEPT !.enabled = ~@]
  OBVIOUS
<1>4. c \in CheckRow /\ c.state = check[a].state
  BY <1>2, <1>3 DEF CheckRow
<1>5. check' = [check EXCEPT ![a] = c]
  BY <1>3 DEF SetEnabled
<1>6. /\ check' \in [Watched -> CheckRow]
      /\ \A b \in Watched : check'[b].state = check[b].state
  BY <1>2, <1>4, <1>5
<1>7. \A b : Open(b)' = Open(b)
  BY <1>1 DEF Open
<1> QED
  BY <1>1, <1>6, <1>7, ProbesStand DEF UptimeInv, UptimeShape

LEMMA OpenByHandKeeps == ASSUME UptimeInv, NEW a \in Watched, OpenByHand(a)  PROVE UptimeInv'
<1>1. UNCHANGED <<check, probe, serves, deployed, alert, upset>>
  BY DEF OpenByHand
<1>2. PICK r : r = [app |-> a, auto |-> FALSE, open |-> TRUE]
  OBVIOUS
<1>3. r \in Incident /\ r.auto = FALSE
  BY <1>2 DEF Incident
<1>4. incidents' = Append(incidents, r)
  BY <1>2 DEF OpenByHand
<1>5. /\ incidents' \in Seq(Incident)
      /\ \A i \in DOMAIN incidents : i \in DOMAIN incidents' /\ incidents'[i] = incidents[i]
      /\ \A b : Open(b)' = Open(b)
  BY <1>3, <1>4, IncidentAdded DEF UptimeInv
<1> QED
  BY <1>1, <1>5, ProbesStand DEF UptimeInv, UptimeShape

LEMMA ResolveByHandKeeps ==
    ASSUME UptimeInv, NEW i \in DOMAIN incidents, ResolveByHand(i)  PROVE UptimeInv'
<1>1. /\ UNCHANGED <<check, probe, serves, deployed, alert>>
      /\ incidents' = [incidents EXCEPT ![i].open = FALSE]
  BY DEF ResolveByHand
<1>2. incidents[i].app \in Watched
  <2>1. incidents[i] \in Incident
    BY DEF UptimeInv, UptimeShape
  <2> QED
    BY <2>1 DEF Incident
<1>3. upset \subseteq upset' /\ upset' \subseteq Watched
      /\ (incidents[i].auto => incidents[i].app \in upset')
  BY <1>2 DEF ResolveByHand, UptimeInv, UptimeShape
<1>4. /\ incidents' \in Seq(Incident) /\ DOMAIN incidents = DOMAIN incidents'
      /\ \A j \in DOMAIN incidents : incidents'[j].app = incidents[j].app
      /\ \A b : Open(b)' = Open(b) \ {i}
  BY <1>1, IncidentClosed DEF UptimeInv
<1>5. \A b \in Watched : b \notin upset' => Open(b)' = Open(b)
  <2>1. \A b \in Watched : b \notin upset' => i \notin Open(b)
    BY <1>3 DEF Open
  <2> QED
    BY <1>4, <2>1
<1> QED
  BY <1>1, <1>3, <1>4, <1>5, ProbesStand DEF UptimeInv, UptimeShape

LEMMA TurnsKeeps == ASSUME UptimeInv, NEW a \in Watched, Turns(a)  PROVE UptimeInv'
<1>1. UNCHANGED <<check, incidents, probe, alert, upset>>
  BY DEF Turns
<1>2. serves' \in [Watched -> BOOLEAN] /\ deployed' \in [Watched -> BOOLEAN]
  BY DEF Turns, UptimeInv, UptimeShape
<1>3. \A b : Open(b)' = Open(b)
  BY <1>1 DEF Open
<1> QED
  BY <1>1, <1>2, <1>3, ProbesStand DEF UptimeInv, UptimeShape

LEMMA UptimeKeeps == UptimeInv /\ [UptimeNext]_uptimeVars => UptimeInv'
<1> SUFFICES ASSUME UptimeInv, [UptimeNext]_uptimeVars  PROVE UptimeInv'
  OBVIOUS
<1>1. CASE RoundStarts
  BY <1>1, RoundStartsKeeps
<1>2. ASSUME NEW a \in Watched,
             Probes(a) \/ Samples(a) \/ Judges(a) \/ Opens(a) \/ Finds(a)
                 \/ Resolves(a) \/ Tells(a) \/ Stores(a)
      PROVE  UptimeInv'
  BY <1>2, ProbesKeeps, SamplesKeeps, JudgesKeeps, OpensKeeps, FindsKeeps, ResolvesKeeps,
     TellsKeeps, StoresKeeps
<1>3. CASE UptimeCrash
  BY <1>3, UptimeCrashKeeps
<1>4. ASSUME NEW a \in Watched, SetEnabled(a) \/ OpenByHand(a) \/ Turns(a)
      PROVE  UptimeInv'
  BY <1>4, SetEnabledKeeps, OpenByHandKeeps, TurnsKeeps
<1>5. ASSUME NEW i \in DOMAIN incidents, ResolveByHand(i)  PROVE UptimeInv'
  BY <1>5, ResolveByHandKeeps
<1>6. CASE UNCHANGED uptimeVars
  <2>1. \A b : Open(b)' = Open(b)
    BY <1>6 DEF uptimeVars, Open
  <2> QED
    BY <1>6, <2>1, ProbesStand DEF uptimeVars, UptimeInv, UptimeShape
<1> QED
  BY <1>1, <1>2, <1>3, <1>4, <1>5, <1>6 DEF UptimeNext, ProberStep

\* Between probes, the property is what the invariant says of the check that is stored.
LEMMA UptimeOnRecord == UptimeInv => OutageOnRecord
<1> SUFFICES ASSUME UptimeInv, NEW a \in Watched \ upset, probe[a].pc = "idle"
             PROVE  /\ Cardinality(Open(a)) = IF check[a].state = "down" THEN 1 ELSE 0
                    /\ alert[a] = "down" <=> check[a].state = "down"
  BY DEF OutageOnRecord
<1>1. OnRecord(a, check[a].state) /\ Told(a, check[a].state)
  BY DEF UptimeInv, ProbeOK
<1>2. CASE check[a].state = "down"
  <2>1. PICK i \in Open(a) : Open(a) = {i}
    BY <1>1, <1>2 DEF OnRecord
  <2> QED
    BY <1>1, <1>2, <2>1, FS_Singleton DEF Told
<1>3. CASE check[a].state # "down"
  BY <1>1, <1>3, FS_EmptySet DEF OnRecord, Told
<1> QED
  BY <1>2, <1>3

\* However rounds, faults and people's changes fall, between probes an outage has one
\* incident of the prober and the alert that says so, unless a fault or a person came
\* between them (uptimeRound, recordUptime).
THEOREM OutagesOnRecord == UptimeSpec => []OutageOnRecord
<1>1. UptimeInit => UptimeInv
  BY UptimeInitially
<1>2. UptimeInv /\ [UptimeNext]_uptimeVars => UptimeInv'
  BY UptimeKeeps
<1>3. UptimeInv => OutageOnRecord
  BY UptimeOnRecord
<1> QED
  BY <1>1, <1>2, <1>3, PTL DEF UptimeSpec

--------------------------------
\* Rented machines: what is true of each machine, and of the loop.

\* A row is inserted when the rent has ended well, and is marked once the machine is gone;
\* only rows are listed and destroyed.
MachineOK(i) ==
    /\ renter[i] \in {"idle", "renting", "refused"} => machine[i] = "none"
    /\ renter[i] \in {"polling", "timedOut", "recording"} => machine[i] = "up"
    /\ row[i] # "none" <=> renter[i] = "recorded"
    /\ row[i] = "destroyed" => machine[i] = "gone"
    /\ machine[i] = "gone" => row[i] # "none"
    /\ i \in killers \cup loop.marking => machine[i] = "gone"
    /\ i \in loop.list \cup loop.doomed => row[i] # "none"
    /\ row[i] = "active" /\ machine[i] = "gone" =>
           i \in killers \cup loop.marking \/ struck \cap {"answer", "mark", "crash"} # {}

\* The loop marks one machine at a time; once it looked at the pods, a pod it saw on a
\* machine, or waiting for one, is on none of those it will destroy.
LoopOK ==
    /\ loop.pc = "marking" => \E i \in loop.marking : loop.marking = {i}
    /\ loop.pc # "marking" => loop.marking = {}
    /\ loop.pc \in {"destroying", "marking"} =>
           \A p \in loop.knew : pods[p] \notin {"none", "pending", "stuck"} \cup loop.doomed

RentalInv == RentalTypeOK /\ (\A i \in Rents : MachineOK(i)) /\ LoopOK

LEMMA WindowBounds == Window \in Nat /\ Window # 0 /\ NoClock = Window + 1 /\ MaxToggles \in Nat
BY RentalAssumption DEF NoClock

\* A machine is no other state of a pod.
LEMMA PodStates ==
    ASSUME NEW i \in Rents  PROVE i \notin {"none", "pending", "stuck", "ended", "lost"}
BY RentalAssumption, Zenon

LEMMA RentalInitially == RentalInit => RentalInv
<1> SUFFICES ASSUME RentalInit  PROVE RentalInv
  OBVIOUS
<1>1. LoopWaits \in LoopType
  BY DEF LoopWaits, LoopType
<1>2. RentalTypeOK
  BY <1>1, WindowBounds DEF RentalInit, RentalTypeOK, RenterPCs, InFlight
<1>3. ASSUME NEW i \in Rents  PROVE MachineOK(i)
  BY DEF RentalInit, MachineOK, LoopWaits
<1>4. LoopOK
  BY DEF RentalInit, LoopOK, LoopWaits
<1> QED
  BY <1>2, <1>3, <1>4 DEF RentalInv

\* The rent of a machine moves on and only its row and its state may change.
LEMMA RenterKeeps ==
    ASSUME RentalInv, NEW i \in Rents, RentAsked(i) \/ RenterStep(i)
    PROVE  RentalInv'
<1> USE DEF RentalInv
<1>1. /\ UNCHANGED <<pods, killers, loop, idle, minutes, toggles>>
      /\ struck \subseteq struck' /\ struck' \subseteq RentFaults
  BY DEF RentAsked, RenterStep, RentRefused, RentAnswerLost, RentAccepted, PollDone, PollFails,
     PollTimesOut, RecordRent, RecordRentFails, RentAt, Strike, RentalTypeOK
<1>2. /\ \A j \in Rents : j # i =>
             machine'[j] = machine[j] /\ row'[j] = row[j] /\ renter'[j] = renter[j]
      /\ machine' \in [Rents -> {"none", "up", "gone"}]
      /\ row' \in [Rents -> {"none", "renting", "active", "destroyed"}]
      /\ renter' \in [Rents -> RenterPCs]
  BY DEF RentAsked, RenterStep, RentRefused, RentAnswerLost, RentAccepted, PollDone, PollFails,
     PollTimesOut, RecordRent, RecordRentFails, RentAt, RentalTypeOK, RenterPCs, InFlight
<1>3. RentalTypeOK'
  BY <1>1, <1>2 DEF RentalTypeOK
<1>4. ASSUME NEW j \in Rents, j # i  PROVE MachineOK(j)'
  BY <1>1, <1>2, <1>4 DEF MachineOK
<1>5. MachineOK(i)'
  BY <1>1 DEF RentAsked, RenterStep, RentRefused, RentAnswerLost, RentAccepted, PollDone,
     PollFails, PollTimesOut, RecordRent, RecordRentFails, RentAt, RentalTypeOK, MachineOK
<1>6. LoopOK'
  BY <1>1 DEF LoopOK
<1> QED
  BY <1>3, <1>4, <1>5, <1>6

\* A machine is deleted: its pods are lost, and nothing else moves.
LEMMA MachineGoes ==
    ASSUME RentalTypeOK, NEW i \in Rents, DestroyMachine(i)
    PROVE  /\ machine' \in [Rents -> {"none", "up", "gone"}] /\ machine'[i] = "gone"
           /\ machine[i] = "up" /\ row[i] # "renting"
           /\ \A j \in Rents : j # i => machine'[j] = machine[j]
           /\ pods' \in [Pods -> Rents \cup {"none", "pending", "stuck", "ended", "lost"}]
           /\ \A p \in Pods : pods'[p] = pods[p] \/ pods'[p] = "lost"
BY DEF RentalTypeOK, DestroyMachine

LEMMA DestroyAskedKeeps == ASSUME RentalInv, NEW i \in Rents, DestroyAsked(i)  PROVE RentalInv'
<1> USE DEF RentalInv
<1>1. /\ UNCHANGED <<row, renter, loop, idle, minutes, toggles>>
      /\ DestroyMachine(i) /\ row[i] # "none"
      /\ \/ killers' = killers \cup {i} /\ struck' = struck
         \/ killers' = killers /\ struck' = struck \cup {"answer"} /\ struck' \subseteq RentFaults
  BY DEF DestroyAsked, Strike, RentalTypeOK
<1>2. RentalTypeOK'
  BY <1>1, MachineGoes DEF RentalTypeOK
<1>3. ASSUME NEW j \in Rents  PROVE MachineOK(j)'
  BY <1>1, MachineGoes DEF MachineOK
<1>4. LoopOK'
  <2>1. \A p \in Pods : pods'[p] = pods[p] \/ pods'[p] = "lost"
    BY <1>1, MachineGoes
  <2>2. loop.knew \subseteq Pods /\ "lost" \notin loop.doomed
    BY PodStates DEF RentalTypeOK, LoopType
  <2> QED
    BY <1>1, <2>1, <2>2 DEF LoopOK
<1> QED
  BY <1>2, <1>3, <1>4

LEMMA DestroyMarksKeeps == ASSUME RentalInv, NEW i \in Rents, DestroyMarks(i)  PROVE RentalInv'
<1> USE DEF RentalInv
<1>1. /\ UNCHANGED <<machine, renter, pods, loop, idle, minutes, toggles>>
      /\ i \in killers /\ killers' = killers \ {i}
  BY DEF DestroyMarks
<1>2. \/ row' = [row EXCEPT ![i] = "destroyed"] /\ struck' = struck
      \/ row' = row /\ struck' = struck \cup {"mark"} /\ struck' \subseteq RentFaults
  BY DEF DestroyMarks, MarkDestroyed, Strike, RentalTypeOK
<1>3. RentalTypeOK'
  BY <1>1, <1>2 DEF RentalTypeOK
<1>4. ASSUME NEW j \in Rents  PROVE MachineOK(j)'
  BY <1>1, <1>2 DEF RentalTypeOK, MachineOK
<1>5. LoopOK'
  BY <1>1 DEF LoopOK
<1> QED
  BY <1>3, <1>4, <1>5

LEMMA SetIdleMinutesKeeps == ASSUME RentalInv, SetIdleMinutes  PROVE RentalInv'
<1> USE DEF RentalInv
<1>1. UNCHANGED <<machine, row, renter, pods, killers, loop, idle, struck>>
  BY DEF SetIdleMinutes
<1>2. RentalTypeOK'
  BY <1>1, WindowBounds DEF SetIdleMinutes, RentalTypeOK
<1>3. ASSUME NEW j \in Rents  PROVE MachineOK(j)'
  BY <1>1 DEF MachineOK
<1> QED
  BY <1>1, <1>2, <1>3 DEF LoopOK

LEMMA PodStepKeeps == ASSUME RentalInv, NEW p \in Pods, PodStep(p)  PROVE RentalInv'
<1> USE DEF RentalInv
<1>1. UNCHANGED <<machine, row, renter, killers, loop, idle, minutes, struck, toggles>>
  BY DEF PodStep, PodCreated, PodStuck, PodScheduled, PodEnds, PodMoves
<1>2. PICK to \in Rents \cup {"pending", "stuck", "ended"} :
          /\ pods' = [pods EXCEPT ![p] = to]
          /\ to = "ended" \/ pods[p] \in {"none", "pending", "stuck"}
  BY DEF PodStep, PodCreated, PodStuck, PodScheduled, PodEnds, PodMoves
<1>3. RentalTypeOK'
  BY <1>1, <1>2 DEF RentalTypeOK
<1>4. ASSUME NEW j \in Rents  PROVE MachineOK(j)'
  BY <1>1 DEF MachineOK
<1>5. LoopOK'
  <2>1. "ended" \notin loop.doomed
    BY PodStates DEF RentalTypeOK, LoopType
  <2>2. \A q \in loop.knew : q \in Pods
    BY DEF RentalTypeOK, LoopType
  <2>3. ASSUME loop.pc \in {"destroying", "marking"}, NEW q \in loop.knew
        PROVE  pods'[q] \notin {"none", "pending", "stuck"} \cup loop.doomed
    <3>1. pods[q] \notin {"none", "pending", "stuck"} \cup loop.doomed
      BY <2>3 DEF LoopOK
    <3>2. pods'[q] = pods[q] \/ pods'[q] = "ended"
      BY <1>2, <2>2, <3>1 DEF RentalTypeOK
    <3> QED
      BY <2>1, <3>1, <3>2
  <2> QED
    BY <1>1, <2>3 DEF LoopOK
<1> QED
  BY <1>3, <1>4, <1>5

LEMMA RentalCrashKeeps == ASSUME RentalInv, RentalCrash  PROVE RentalInv'
<1> USE DEF RentalInv
<1>1. /\ UNCHANGED <<machine, row, pods, minutes, toggles>>
      /\ killers' = {} /\ loop' = LoopWaits /\ idle' = NoClocks
      /\ struck' = struck \cup {"crash"} /\ struck' \subseteq RentFaults
  BY DEF RentalCrash, Strike, RentalTypeOK
<1>2. \A i \in Rents : \/ renter'[i] = renter[i] /\ renter[i] \notin InFlight
                       \/ renter'[i] = "crashed" /\ renter[i] \in InFlight
  BY DEF RentalCrash
<1>3. RentalTypeOK'
  <2>1. LoopWaits \in LoopType
    BY DEF LoopWaits, LoopType
  <2>2. renter' \in [Rents -> RenterPCs]
    BY DEF RentalCrash, RentalTypeOK, RenterPCs
  <2>3. idle' \in [Rents -> 0 .. NoClock]
    BY <1>1, WindowBounds DEF NoClocks
  <2> QED
    BY <1>1, <2>1, <2>2, <2>3 DEF RentalTypeOK
<1>4. ASSUME NEW i \in Rents  PROVE MachineOK(i)'
  BY <1>1, <1>2 DEF MachineOK, LoopWaits, InFlight
<1>5. LoopOK'
  BY <1>1 DEF LoopOK, LoopWaits
<1> QED
  BY <1>3, <1>4, <1>5

\* The loop moves and the machines, rows and pods stand.
LEMMA LoopMoves ==
    ASSUME RentalInv, NEW l \in LoopType, loop' = l, idle' \in [Rents -> 0 .. NoClock],
           UNCHANGED <<machine, row, renter, pods, killers, minutes, toggles>>,
           struck \subseteq struck', struck' \subseteq RentFaults,
           l.marking = loop.marking, \A i \in l.list \cup l.doomed : row[i] # "none", LoopOK'
    PROVE  RentalInv'
<1> USE DEF RentalInv
<1>1. RentalTypeOK'
  BY DEF RentalTypeOK
<1>2. ASSUME NEW i \in Rents  PROVE MachineOK(i)'
  BY DEF MachineOK
<1> QED
  BY <1>1, <1>2

LEMMA LoopTickKeeps == ASSUME RentalInv, LoopTick  PROVE RentalInv'
<1>1. /\ loop.pc = "wait" /\ loop \in LoopType /\ idle \in [Rents -> 0 .. NoClock]
      /\ UNCHANGED <<machine, row, renter, pods, killers, minutes, struck, toggles>>
      /\ struck \subseteq RentFaults
  BY DEF LoopTick, RentalInv, RentalTypeOK
<1>2. \A i \in loop.list \cup loop.doomed : row[i] # "none"
  BY <1>1 DEF RentalInv, MachineOK, LoopType
<1>3. idle' \in [Rents -> 0 .. NoClock]
  BY <1>1, WindowBounds DEF LoopTick, NoClocks, Older
<1>4. CASE UNCHANGED loop
  BY <1>1, <1>2, <1>3, <1>4, LoopMoves DEF RentalInv, LoopOK
<1>5. CASE loop' = [loop EXCEPT !.pc = "listed", !.list = Tracked]
  <2>1. PICK l : l = [loop EXCEPT !.pc = "listed", !.list = Tracked]
    OBVIOUS
  <2>2. /\ l \in LoopType /\ l.pc = "listed" /\ l.list = Tracked
        /\ l.marking = loop.marking /\ l.doomed = loop.doomed
    BY <1>1, <2>1 DEF LoopType, Tracked
  <2>3. \A i \in l.list \cup l.doomed : row[i] # "none"
    BY <1>2, <2>2 DEF Tracked
  <2>4. LoopOK'
    BY <1>1, <1>5, <2>1, <2>2 DEF RentalInv, LoopOK
  <2> QED
    BY <1>1, <1>3, <1>5, <2>1, <2>2, <2>3, <2>4, LoopMoves
<1> QED
  BY <1>4, <1>5 DEF LoopTick

\* The pods it looks at keep their machines from being destroyed.
LEMMA LoopReadsKeeps == ASSUME RentalInv, LoopReads  PROVE RentalInv'
<1>1. /\ loop.pc = "listed" /\ loop \in LoopType /\ idle \in [Rents -> 0 .. NoClock]
      /\ UNCHANGED <<machine, row, renter, pods, killers, minutes, struck, toggles>>
      /\ struck \subseteq RentFaults /\ loop.marking = {}
  BY DEF LoopReads, RentalInv, RentalTypeOK, LoopOK
<1>2. \A i \in loop.list \cup loop.doomed : row[i] # "none"
  BY <1>1 DEF RentalInv, MachineOK, LoopType
<1>3. CASE loop' = LoopWaits /\ UNCHANGED idle
  <2>1. LoopWaits \in LoopType /\ LoopWaits.marking = {}
        /\ LoopWaits.list = {} /\ LoopWaits.doomed = {} /\ LoopWaits.pc = "wait"
    BY DEF LoopWaits, LoopType
  <2>2. LoopOK'
    BY <1>3, <2>1 DEF LoopOK
  <2> QED
    BY <1>1, <1>3, <2>1, <2>2, LoopMoves
<1>4. CASE ~ Frozen /\ LoopReads
  <2>1. PICK doomed : doomed = {i \in loop.list : NextClocks[i] \in Window .. Window}
    OBVIOUS
  <2>2. PICK knew : knew = {p \in Pods : pods[p] \in Rents \cup {"pending"}}
    OBVIOUS
  <2>3. PICK l : l = [loop EXCEPT !.pc = "destroying", !.doomed = doomed, !.knew = knew]
    OBVIOUS
  <2>4. loop' = l /\ idle' = NextClocks
    <3>1. ~ Frozen
      BY <1>4
    <3> QED
      BY <1>4, <2>1, <2>2, <2>3, <3>1 DEF LoopReads
  <2>5. /\ l \in LoopType /\ l.pc = "destroying" /\ l.list = loop.list /\ l.doomed = doomed
        /\ l.knew = knew /\ l.marking = loop.marking /\ doomed \subseteq loop.list
    <3>1. doomed \subseteq loop.list /\ knew \subseteq Pods
      BY <2>1, <2>2
    <3> QED
      BY <1>1, <2>3, <3>1 DEF LoopType
  <2>6. idle' \in [Rents -> 0 .. NoClock]
    BY <1>1, <2>4, WindowBounds DEF NextClocks
  <2>7. \A i \in doomed : i \in Rents /\ ~ Busy(i)
    <3>1. TAKE i \in doomed
    <3>2. i \in Rents /\ NextClocks[i] = Window
      BY <1>1, <2>1, WindowBounds DEF LoopType
    <3>3. NextClocks[i] = IF i \notin loop.list \/ Busy(i) THEN NoClock
                          ELSE IF idle[i] = NoClock THEN 0 ELSE idle[i]
      BY <3>2 DEF NextClocks
    <3> QED
      BY <3>2, <3>3, WindowBounds
  <2>8. \A p \in knew : pods[p] \notin {"none", "pending", "stuck"} \cup doomed
    <3>1. TAKE p \in knew
    <3>2. p \in Pods /\ pods[p] \in Rents
      BY <1>4, <2>2 DEF Frozen
    <3>3. pods[p] \notin {"none", "pending", "stuck"}
      BY <3>2, PodStates
    <3>4. pods[p] \notin doomed
      BY <2>7, <3>2 DEF Busy, On
    <3> QED
      BY <3>3, <3>4
  <2>9. LoopOK'
    BY <1>1, <2>4, <2>5, <2>8 DEF LoopOK
  <2> QED
    BY <1>1, <1>2, <2>4, <2>5, <2>6, <2>9, LoopMoves
<1> QED
  BY <1>3, <1>4 DEF LoopReads

LEMMA LoopDestroysKeeps == ASSUME RentalInv, NEW i \in Rents, LoopDestroys(i)  PROVE RentalInv'
<1> USE DEF RentalInv
<1>1. /\ UNCHANGED <<row, renter, killers, idle, minutes, struck, toggles>>
      /\ loop.pc = "destroying" /\ i \in loop.doomed /\ DestroyMachine(i)
      /\ loop \in LoopType
  BY DEF LoopDestroys, RentalTypeOK
<1>2. PICK l : l = [loop EXCEPT !.pc = "marking", !.doomed = @ \ {i}, !.marking = {i}]
  OBVIOUS
<1>3. /\ l \in LoopType /\ l.pc = "marking" /\ l.doomed = loop.doomed \ {i}
      /\ l.marking = {i} /\ l.list = loop.list /\ l.knew = loop.knew /\ loop' = l
  BY <1>1, <1>2 DEF LoopDestroys, LoopType
<1>4. RentalTypeOK'
  BY <1>1, <1>3, MachineGoes DEF RentalTypeOK
<1>5. ASSUME NEW j \in Rents  PROVE MachineOK(j)'
  <2>1. loop.marking = {}
    BY <1>1 DEF LoopOK
  <2> QED
    BY <1>1, <1>3, <2>1, MachineGoes DEF MachineOK
<1>6. LoopOK'
  <2>1. \A p \in Pods : pods'[p] = pods[p] \/ pods'[p] = "lost"
    BY <1>1, MachineGoes
  <2>2. loop.knew \subseteq Pods /\ "lost" \notin loop.doomed
    BY PodStates DEF RentalTypeOK, LoopType
  <2> QED
    BY <1>1, <1>3, <2>1, <2>2 DEF LoopOK
<1> QED
  BY <1>4, <1>5, <1>6

LEMMA LoopDestroyFailsKeeps ==
    ASSUME RentalInv, NEW i \in Rents, LoopDestroyFails(i)  PROVE RentalInv'
<1>1. /\ UNCHANGED <<row, renter, killers, idle, minutes, toggles>>
      /\ loop.pc = "destroying" /\ loop \in LoopType /\ idle \in [Rents -> 0 .. NoClock]
      /\ struck \subseteq struck' /\ struck' \subseteq RentFaults
  BY DEF LoopDestroyFails, Strike, RentalInv, RentalTypeOK
<1>10. \/ UNCHANGED <<machine, pods>>
       \/ DestroyMachine(i) /\ struck' = struck \cup {"answer"}
  BY DEF LoopDestroyFails, Strike
<1>2. PICK l : l = [loop EXCEPT !.doomed = @ \ {i}]
  OBVIOUS
<1>3. /\ l \in LoopType /\ l.pc = "destroying" /\ l.doomed = loop.doomed \ {i}
      /\ l.marking = loop.marking /\ l.list = loop.list /\ l.knew = loop.knew /\ loop' = l
  BY <1>1, <1>2 DEF LoopDestroyFails, LoopType
<1>4. \A j \in l.list \cup l.doomed : row[j] # "none"
  BY <1>1, <1>3 DEF RentalInv, MachineOK, LoopType
<1>5. CASE UNCHANGED <<machine, pods>>
  <2>1. LoopOK'
    BY <1>1, <1>3, <1>5 DEF RentalInv, LoopOK
  <2> QED
    BY <1>1, <1>3, <1>4, <1>5, <2>1, LoopMoves
<1>6. CASE DestroyMachine(i) /\ struck' = struck \cup {"answer"}
  <2> USE DEF RentalInv
  <2>1. RentalTypeOK'
    BY <1>1, <1>3, <1>6, MachineGoes DEF RentalTypeOK
  <2>2. ASSUME NEW j \in Rents  PROVE MachineOK(j)'
    <3>1. row[i] # "none"
      BY DEF LoopDestroyFails, MachineOK
    <3> QED
      BY <1>1, <1>3, <1>4, <1>6, <3>1, MachineGoes DEF MachineOK
  <2>3. LoopOK'
    <3>1. \A p \in Pods : pods'[p] = pods[p] \/ pods'[p] = "lost"
      BY <1>6, MachineGoes
    <3>2. loop.knew \subseteq Pods /\ "lost" \notin loop.doomed
      BY PodStates DEF RentalTypeOK, LoopType
    <3> QED
      BY <1>1, <1>3, <3>1, <3>2 DEF LoopOK
  <2> QED
    BY <2>1, <2>2, <2>3
<1> QED
  BY <1>10, <1>5, <1>6

LEMMA LoopMarksKeeps == ASSUME RentalInv, LoopMarks  PROVE RentalInv'
<1> USE DEF RentalInv
<1>1. /\ UNCHANGED <<machine, renter, pods, killers, idle, minutes, toggles>>
      /\ loop.pc = "marking" /\ loop \in LoopType
  BY DEF LoopMarks, RentalTypeOK
<1>2. PICK i \in loop.marking :
          \/ row' = [row EXCEPT ![i] = "destroyed"] /\ struck' = struck
          \/ row' = row /\ struck' = struck \cup {"mark"} /\ struck' \subseteq RentFaults
  BY DEF LoopMarks, MarkDestroyed, Strike, RentalTypeOK
<1>3. loop.marking = {i} /\ i \in Rents
  BY <1>1, <1>2 DEF LoopOK, LoopType
<1>4. PICK l : l = [loop EXCEPT !.pc = "destroying", !.marking = {}]
  OBVIOUS
<1>5. /\ l \in LoopType /\ l.pc = "destroying" /\ l.doomed = loop.doomed
      /\ l.marking = {} /\ l.list = loop.list /\ l.knew = loop.knew /\ loop' = l
  BY <1>1, <1>4 DEF LoopMarks, LoopType
<1>6. RentalTypeOK'
  BY <1>1, <1>2, <1>3, <1>5 DEF RentalTypeOK
<1>7. ASSUME NEW j \in Rents  PROVE MachineOK(j)'
  BY <1>1, <1>2, <1>3, <1>5 DEF RentalTypeOK, MachineOK
<1>8. LoopOK'
  BY <1>1, <1>5 DEF LoopOK
<1> QED
  BY <1>6, <1>7, <1>8

LEMMA LoopTurnEndsKeeps == ASSUME RentalInv, LoopTurnEnds  PROVE RentalInv'
<1>1. /\ UNCHANGED <<machine, row, renter, pods, killers, idle, minutes, struck, toggles>>
      /\ loop.pc = "destroying" /\ loop' = LoopWaits /\ loop.marking = {}
      /\ idle \in [Rents -> 0 .. NoClock] /\ struck \subseteq RentFaults
  BY DEF LoopTurnEnds, RentalInv, RentalTypeOK, LoopOK
<1>2. LoopWaits \in LoopType /\ LoopWaits.marking = {}
      /\ LoopWaits.list = {} /\ LoopWaits.doomed = {} /\ LoopWaits.pc = "wait"
  BY DEF LoopWaits, LoopType
<1>3. LoopOK'
  BY <1>1, <1>2 DEF LoopOK
<1> QED
  BY <1>1, <1>2, <1>3, LoopMoves

LEMMA RentalKeeps == RentalInv /\ [RentalNext]_rentalVars => RentalInv'
<1> SUFFICES ASSUME RentalInv, [RentalNext]_rentalVars  PROVE RentalInv'
  OBVIOUS
<1>1. ASSUME NEW i \in Rents,
             RentAsked(i) \/ RenterStep(i) \/ DestroyAsked(i) \/ DestroyMarks(i)
      PROVE  RentalInv'
  BY <1>1, RenterKeeps, DestroyAskedKeeps, DestroyMarksKeeps
<1>2. CASE SetIdleMinutes \/ RentalCrash
  BY <1>2, SetIdleMinutesKeeps, RentalCrashKeeps
<1>3. CASE LoopTick \/ LoopReads \/ LoopMarks \/ LoopTurnEnds
  BY <1>3, LoopTickKeeps, LoopReadsKeeps, LoopMarksKeeps, LoopTurnEndsKeeps
<1>4. ASSUME NEW i \in Rents, LoopDestroys(i) \/ LoopDestroyFails(i)  PROVE RentalInv'
  BY <1>4, LoopDestroysKeeps, LoopDestroyFailsKeeps
<1>5. ASSUME NEW p \in Pods, PodStep(p)  PROVE RentalInv'
  BY <1>5, PodStepKeeps
<1>6. CASE UNCHANGED rentalVars
  <2>1. RentalTypeOK' /\ LoopOK'
    BY <1>6 DEF rentalVars, RentalInv, RentalTypeOK, LoopOK
  <2>2. ASSUME NEW i \in Rents  PROVE MachineOK(i)'
    BY <1>6 DEF rentalVars, RentalInv, MachineOK
  <2> QED
    BY <2>1, <2>2 DEF RentalInv
<1> QED
  BY <1>1, <1>2, <1>3, <1>4, <1>5, <1>6 DEF RentalNext, LoopStep

\* A machine the loop deletes is one it chose, on which it saw no pod.
LEMMA KnownPodsStand ==
    ASSUME RentalInv, [RentalNext]_rentalVars, NEW i \in Rents, LoopKills(i)
    PROVE  On(i) \cap loop.knew = {}
<1>1. loop.pc = "destroying" /\ i \in loop.doomed
  BY DEF LoopKills
<1>2. \A p \in loop.knew : pods[p] # i
  BY <1>1 DEF RentalInv, LoopOK
<1> QED
  BY <1>2 DEF On

\* Whatever requests, faults and crashes, every variable of the rented machines keeps its
\* type (gpucloud.go, gpuinstances.go).
THEOREM RentalsTyped == RentalSpec => []RentalTypeOK
<1>1. RentalInit => RentalInv
  BY RentalInitially
<1>2. RentalInv /\ [RentalNext]_rentalVars => RentalInv'
  BY RentalKeeps
<1>3. RentalInv => RentalTypeOK
  BY DEF RentalInv
<1> QED
  BY <1>1, <1>2, <1>3, PTL DEF RentalSpec

\* A machine that bills is on record but in the three ways of the code, and a row outlives
\* its machine only if marking it failed or the answer of the destroy was lost
\* (rentWithProvider, destroyGPUInstance, runGPUIdleLoop).
THEOREM SpendAlwaysExplained == RentalSpec => []SpendExplained
<1>1. RentalInit => RentalInv
  BY RentalInitially
<1>2. RentalInv /\ [RentalNext]_rentalVars => RentalInv'
  BY RentalKeeps
<1>3. RentalInv => SpendExplained
  BY DEF RentalInv, RentalTypeOK, MachineOK, SpendExplained, Recorded, InFlight, RenterPCs
<1> QED
  BY <1>1, <1>2, <1>3, PTL DEF RentalSpec

\* No pod that the loop saw is lost to it (GPUBusyNodes, decideIdleDestroys).
THEOREM PodsSurviveTheLoop == RentalSpec => KnownPodsSurvive
<1>1. RentalInit => RentalInv
  BY RentalInitially
<1>2. RentalInv /\ [RentalNext]_rentalVars => RentalInv'
  BY RentalKeeps
<1>3. RentalInv /\ [RentalNext]_rentalVars =>
          [\A i \in Rents : LoopKills(i) => On(i) \cap loop.knew = {}]_rentalVars
  BY KnownPodsStand
<1> QED
  BY <1>1, <1>2, <1>3, PTL DEF RentalSpec, KnownPodsSurvive

--------------------------------
\* Backups: who makes an archive, which rows the server knows, and what is
\* on the disk and in the bucket for each.

TakerType == [pc : TakerPCs, path : Path \cup {NoPath}, made : 0 .. MaxMade,
              upload : BOOLEAN, up : BOOLEAN, todo : SUBSET Backup]
FileType  == {NoFile} \cup [of : Made, state : {"part", "torn", "whole"}]
PastType  == [chosen : SUBSET Path, contested : SUBSET Path, made : 0 .. MaxMade,
              calls : 0 .. MaxAdminCalls, faults : SUBSET BackupFaults, ticked : BOOLEAN]

BackupShape ==
    /\ today \in 0 .. MaxTime /\ snapshotTmp \subseteq Path
    /\ archive \in [Path -> FileType] /\ remote \in [Path -> FileType]
    /\ backups \subseteq Backup /\ IsFiniteSet(backups)
    /\ held \in [Made -> SUBSET Backup] /\ (\A m \in Made : IsFiniteSet(held[m]))
    /\ taker \in [Takers -> TakerType] /\ backupPast \in PastType
    /\ IsFiniteSet(backupPast.chosen) /\ Cardinality(backupPast.chosen) <= backupPast.made

Makers    == {"open", "snapshot", "write", "upload", "row"}
Making(t) == taker[t].pc \in Makers

\* The backups that nobody makes any more.
Over == {m \in 1 .. backupPast.made : \A t \in Takers : Making(t) => taker[t].made # m}

TakerOK(t) ==
    /\ Making(t) => /\ taker[t].path \in backupPast.chosen
                    /\ taker[t].made \in 1 .. backupPast.made
    /\ ~ Making(t) => taker[t].path = NoPath
    /\ taker[t].todo # {} <=> taker[t].pc \in {"unlink", "unrow"}
    /\ taker[t].up => taker[t].pc = "row"
    /\ \A u \in Takers : Making(t) /\ Making(u) /\ taker[u].made = taker[t].made => u = t

\* A row of the table, of a snapshot of it, or of a prune's list: who made it is done.
RowOK(b) ==
    /\ b.path \in backupPast.chosen /\ b.id <= Cardinality(Over)
    /\ b.path \in Undisturbed => \A t \in Takers : Making(t) => taker[t].path # b.path
RowsOK ==
    /\ \A b \in backups : RowOK(b)
    /\ \A m \in Made : \A b \in held[m] : RowOK(b)
    /\ \A t \in Takers : \A b \in taker[t].todo : RowOK(b)

OneOfEach(S) == \A b, c \in S : b.id = c.id => b = c
IdsOK ==
    /\ OneOfEach(backups)
    /\ \A m \in Made : OneOfEach(held[m])
    /\ \A t \in Takers : \A v \in taker[t].todo : \A c \in backups : c.id = v.id => c = v

\* No two rows are of one archive.
AloneOK ==
    \A b \in backups : b.path \in Undisturbed /\ ~ b.back =>
        /\ \A c \in backups : c.path = b.path => c = b
        /\ \A t \in Takers : \A v \in taker[t].todo : v.path = b.path => v = b

\* What is at a path that was chosen once, while its backup is being made.
AsMade(t, p, m) ==
    /\ taker[t].pc = "open" => archive[p].state = "none" /\ p \notin snapshotTmp
    /\ taker[t].pc = "snapshot" => archive[p] = [of |-> m, state |-> "part"] /\ p \notin snapshotTmp
    /\ taker[t].pc = "write" => archive[p] = [of |-> m, state |-> "part"]
    /\ taker[t].pc \in {"upload", "row"} => archive[p] = [of |-> m, state |-> "whole"]
    /\ taker[t].pc # "row" => remote[p].state = "none"
    /\ taker[t].pc = "row" => IF taker[t].up THEN remote[p] = [of |-> m, state |-> "whole"]
                              ELSE remote[p].state = "none"
MakingOK(t) ==
    Making(t) /\ taker[t].path \in Undisturbed =>
        /\ AsMade(t, taker[t].path, taker[t].made)
        /\ \A u \in Takers : Making(u) /\ taker[u].path = taker[t].path => u = t

TraceOK ==
    \A p \in Path :
        archive[p].state # "none" \/ remote[p].state # "none" \/ p \in snapshotTmp =>
            p \in backupPast.chosen

Removing(b) == \E t \in Takers : taker[t].pc = "unrow" /\ NextVictim(t) = b

RowStands(b) ==
    (b.path \in Undisturbed /\ ~ b.back /\ ~ Removing(b) /\ ~ (b \in Victims /\ Struck({"crash"}))) =>
        LET whole == [of |-> b.made, state |-> "whole"] IN
        archive[b.path] = whole /\ (b.uploaded => remote[b.path] = whole)
RowsStand == \A b \in backups : RowStands(b)

\* As long as nothing brings rows back.
NoneBack ==
    ~ Struck({"restore"}) =>
        /\ \A b \in backups : ~ b.back
        /\ \A t \in Takers : \A b \in taker[t].todo : ~ b.back

\* What was not uploaded has no object, and what a prune has removed has neither.
NotUploaded ==
    /\ \A b \in backups : b.path \in Undisturbed /\ ~ b.back /\ ~ b.uploaded => remote[b.path].state = "none"
    /\ \A t \in Takers : \A b \in taker[t].todo :
           b.path \in Undisturbed /\ ~ b.back /\ ~ b.uploaded => remote[b.path].state = "none"
RemovedGone ==
    ~ Struck({"remove", "crash", "restore", "disk"}) =>
        \A t \in Takers : taker[t].pc = "unrow" /\ NextVictim(t).path \in Undisturbed =>
            archive[NextVictim(t).path].state = "none" /\ remote[NextVictim(t).path].state = "none"

DayOK ==
    backupPast.faults = {} =>
        /\ \A b \in backups : b.at <= today
        /\ \A b, c \in backups : b.id < c.id => b.at <= c.at
        /\ backupPast.ticked /\ ~ Making(Keeper) /\ backupPast.contested = {} =>
               \E b \in backups : b.at = today

BackupInv ==
    /\ BackupShape /\ (\A t \in Takers : TakerOK(t)) /\ RowsOK /\ IdsOK /\ AloneOK
    /\ (\A t \in Takers : MakingOK(t)) /\ TraceOK /\ RowsStand
    /\ NoneBack /\ NotUploaded /\ RemovedGone /\ ArchivesHaveRows /\ NewestStay /\ DayOK

--------------------------------
\* Facts every step of a backup needs.

LEMMA TakerFacts ==
    ASSUME BackupInv, NEW t \in Takers
    PROVE  /\ taker[t] \in TakerType /\ taker[t].pc \in TakerPCs /\ taker[t].made \in 0 .. MaxMade
           /\ taker[t].up \in BOOLEAN /\ taker[t].todo \subseteq Backup
           /\ Making(t) => /\ taker[t].path \in Path /\ taker[t].made \in Made /\ taker[t].todo = {}
                           /\ taker[t].path \in backupPast.chosen
                           /\ taker[t].made \in 1 .. backupPast.made
           /\ ~ Making(t) => taker[t].path = NoPath
           /\ taker[t].todo # {} <=> taker[t].pc \in {"unlink", "unrow"}
           /\ taker[t].up => taker[t].pc = "row"
<1>1. taker[t] \in TakerType /\ TakerOK(t) /\ backupPast \in PastType
  BY DEF BackupInv, BackupShape
<1>2. /\ taker[t].pc \in TakerPCs /\ taker[t].made \in 0 .. MaxMade
      /\ taker[t].up \in BOOLEAN /\ taker[t].todo \subseteq Backup
  BY <1>1 DEF TakerType
<1>3. backupPast.chosen \subseteq Path /\ backupPast.made \in 0 .. MaxMade
  BY <1>1 DEF PastType
<1>4. ASSUME Making(t)
      PROVE  /\ taker[t].path \in Path /\ taker[t].made \in Made /\ taker[t].todo = {}
             /\ taker[t].path \in backupPast.chosen /\ taker[t].made \in 1 .. backupPast.made
  <2>1. taker[t].path \in backupPast.chosen /\ taker[t].made \in 1 .. backupPast.made
    BY <1>1, <1>4 DEF TakerOK
  <2>2. taker[t].todo = {}
    BY <1>1, <1>4 DEF TakerOK, Making, Makers
  <2>3. taker[t].made \in Made
    BY <1>3, <2>1, BackupAssumption DEF BackupAssumption, Made
  <2> QED
    BY <1>3, <2>1, <2>2, <2>3
<1> QED
  BY <1>1, <1>2, <1>4 DEF TakerOK

LEMMA BackupFacts ==
    ASSUME BackupInv
    PROVE  /\ today \in 0 .. MaxTime /\ snapshotTmp \subseteq Path
           /\ archive \in [Path -> FileType] /\ remote \in [Path -> FileType]
           /\ backups \subseteq Backup /\ IsFiniteSet(backups)
           /\ held \in [Made -> SUBSET Backup] /\ (\A m \in Made : IsFiniteSet(held[m]))
           /\ taker \in [Takers -> TakerType] /\ backupPast \in PastType
           /\ IsFiniteSet(backupPast.chosen) /\ Cardinality(backupPast.chosen) <= backupPast.made
           /\ backupPast.chosen \subseteq Path /\ backupPast.contested \subseteq Path
           /\ backupPast.made \in 0 .. MaxMade /\ backupPast.made \in Nat
           /\ backupPast.calls \in 0 .. MaxAdminCalls
           /\ backupPast.faults \subseteq BackupFaults /\ backupPast.ticked \in BOOLEAN
           /\ MaxMade \in Nat /\ MaxTime \in Nat /\ MaxAdminCalls \in Nat /\ Keep \in Nat \ {0}
           /\ Keeper \in Takers
BY BackupAssumption DEF BackupInv, BackupShape, PastType, BackupAssumption, Takers

LEMMA BackupFields ==
    \A b \in Backup : /\ b.id \in Made /\ b.id \in Nat /\ b.path \in Path /\ b.uploaded \in BOOLEAN
                      /\ b.at \in 0 .. MaxTime /\ b.at \in Nat /\ b.made \in Made /\ b.back \in BOOLEAN
BY BackupAssumption DEF Backup, Made, BackupAssumption

LEMMA OverBound ==
    ASSUME BackupInv
    PROVE  IsFiniteSet(Over) /\ Cardinality(Over) \in Nat /\ Cardinality(Over) <= backupPast.made
<1>1. backupPast.made \in Nat
  BY BackupFacts
<1>2. /\ IsFiniteSet(1 .. backupPast.made)
      /\ Cardinality(1 .. backupPast.made) = IF 1 > backupPast.made THEN 0 ELSE backupPast.made - 1 + 1
  BY <1>1, FS_Interval
<1>3. Cardinality(1 .. backupPast.made) = backupPast.made
  BY <1>1, <1>2
<1>4. Over \in SUBSET (1 .. backupPast.made)
  BY DEF Over
<1>5. IsFiniteSet(Over) /\ Cardinality(Over) <= Cardinality(1 .. backupPast.made)
  BY <1>2, <1>4, FS_Subset
<1>6. Cardinality(Over) \in Nat
  BY <1>5, FS_CardinalityType
<1> QED
  BY <1>3, <1>5, <1>6

\* The newest of a prune's list is on it.
LEMMA VictimListed ==
    ASSUME BackupInv, NEW t \in Takers, taker[t].pc \in {"unlink", "unrow"}
    PROVE  NextVictim(t) \in taker[t].todo /\ NextVictim(t) \in Backup
<1>1. taker[t].todo \subseteq Backup /\ taker[t].todo # {}
  BY TakerFacts
<1> DEFINE Taken == {b.id : b \in taker[t].todo}
<1>2. Taken \in SUBSET Nat /\ Taken # {}
  BY <1>1, BackupFields
<1>3. \A i \in Taken : i <= MaxMade
  BY <1>1, BackupFields, BackupFacts DEF Made
<1>4. Max(Taken) \in Taken /\ \A i \in Taken : i <= Max(Taken)
  <2> HIDE DEF Taken
  <2> QED
    BY <1>2, <1>3, BackupFacts, MaxPicks
<1>5. \E b \in taker[t].todo : \A c \in taker[t].todo : c.id <= b.id
  BY <1>4
<1>6. NextVictim(t) \in taker[t].todo
  BY <1>5 DEF NextVictim
<1> QED
  BY <1>1, <1>6

\* No one begins a backup.
NoneBegins ==
    /\ backupPast'.chosen = backupPast.chosen /\ backupPast'.contested = backupPast.contested
    /\ backupPast'.made = backupPast.made
    /\ \A t \in Takers : Making(t)' =>
           Making(t) /\ taker'[t].path = taker[t].path /\ taker'[t].made = taker[t].made

\* What holds of a row while others make backups, or leave off.
LEMMA RowsKeep ==
    ASSUME BackupInv, NoneBegins
    PROVE  /\ Over \subseteq Over' /\ IsFiniteSet(Over') /\ Cardinality(Over) <= Cardinality(Over')
           /\ \A b \in Backup : RowOK(b) => RowOK(b)'
<1>1. Over \subseteq Over'
  BY DEF NoneBegins, Over
<1>2. Over' \in SUBSET (1 .. backupPast.made) /\ IsFiniteSet(1 .. backupPast.made)
  <2>1. backupPast.made \in Nat
    BY BackupFacts
  <2> QED
    BY <2>1, FS_Interval DEF NoneBegins, Over
<1>3. IsFiniteSet(Over')
  BY <1>2, FS_Subset
<1>4. PICK o : o = Over
  OBVIOUS
<1>5. PICK oo : oo = Over'
  OBVIOUS
<1>6. IsFiniteSet(oo) /\ o \in SUBSET oo
  BY <1>1, <1>3, <1>4, <1>5
<1>7. Cardinality(o) <= Cardinality(oo) /\ IsFiniteSet(o)
  BY <1>6, FS_Subset
<1>8. Cardinality(o) \in Nat /\ Cardinality(oo) \in Nat
  BY <1>6, <1>7, FS_CardinalityType
<1>9. Cardinality(Over) <= Cardinality(Over') /\ Cardinality(Over) \in Nat /\ Cardinality(Over') \in Nat
  BY <1>4, <1>5, <1>7, <1>8
<1>10. ASSUME NEW b \in Backup, RowOK(b)  PROVE RowOK(b)'
  <2>1. b.path \in backupPast'.chosen
    BY <1>10 DEF RowOK, NoneBegins
  <2>2. b.id <= Cardinality(Over)'
    <3>1. b.id \in Nat /\ b.id <= Cardinality(Over)
      BY <1>10, BackupFields DEF RowOK
    <3> QED
      BY <1>9, <3>1
  <2>3. ASSUME b.path \in Undisturbed', NEW t \in Takers, Making(t)'  PROVE taker'[t].path # b.path
    BY <1>10, <2>3 DEF RowOK, NoneBegins, Undisturbed
  <2> QED
    BY <2>1, <2>2, <2>3 DEF RowOK
<1> QED
  BY <1>1, <1>3, <1>9, <1>10

--------------------------------
\* A step of one that makes a backup: it touches what is at its own path.

MakerMoves(t, e) ==
    /\ Making(t) /\ e \in TakerType /\ taker' = [taker EXCEPT ![t] = e] /\ e.todo = {}
    /\ e.up => e.pc = "row"
    /\ IF e.pc \in Makers THEN e.path = taker[t].path /\ e.made = taker[t].made
       ELSE e.pc \in {"idle", "list"} /\ e.path = NoPath
    /\ archive' \in [Path -> FileType] /\ remote' \in [Path -> FileType] /\ snapshotTmp' \subseteq Path
    /\ \A q \in Path : q # taker[t].path =>
           archive'[q] = archive[q] /\ remote'[q] = remote[q] /\ (q \in snapshotTmp' <=> q \in snapshotTmp)
    /\ UNCHANGED <<today, backups>>
    /\ held' \in [Made -> SUBSET Backup] /\ \A m \in Made : held'[m] = held[m] \/ held'[m] = backups
    /\ backupPast' \in PastType
    /\ backupPast'.chosen = backupPast.chosen /\ backupPast'.contested = backupPast.contested
    /\ backupPast'.made = backupPast.made /\ backupPast.faults \subseteq backupPast'.faults
    /\ backupPast'.ticked = backupPast.ticked
    /\ taker[t].path \in Undisturbed =>
           IF e.pc \in Makers THEN AsMade(t, e.path, e.made)'
           ELSE /\ archive'[taker[t].path].state # "whole" /\ remote'[taker[t].path].state # "whole"
                /\ backupPast'.faults # {}

LEMMA MakerShape ==
    ASSUME BackupInv, NEW t \in Takers, NEW e, MakerMoves(t, e)
    PROVE  /\ NoneBegins /\ BackupShape' /\ (\A u \in Takers : TakerOK(u)')
           /\ taker'[t] = e /\ \A u \in Takers : u # t => taker'[u] = taker[u]
<1>1. taker'[t] = e /\ \A u \in Takers : u # t => taker'[u] = taker[u]
  BY BackupFacts DEF MakerMoves
<1>2. NoneBegins
  <2>1. ASSUME NEW u \in Takers, Making(u)'
        PROVE  Making(u) /\ taker'[u].path = taker[u].path /\ taker'[u].made = taker[u].made
    BY <1>1, <2>1 DEF MakerMoves, Making
  <2> QED
    BY <2>1 DEF NoneBegins, MakerMoves
<1>3. BackupShape'
  <2>1. taker' \in [Takers -> TakerType]
    BY BackupFacts DEF MakerMoves
  <2>2. \A m \in Made : IsFiniteSet(held'[m])
    BY BackupFacts DEF MakerMoves
  <2> QED
    BY <2>1, <2>2, BackupFacts DEF MakerMoves, BackupShape
<1>4. ASSUME NEW u \in Takers  PROVE TakerOK(u)'
  <2>1. \A v \in Takers : Making(v)' /\ Making(u)' /\ taker'[v].made = taker'[u].made => v = u
    BY <1>2 DEF NoneBegins, BackupInv, TakerOK
  <2>2. Making(u)' => taker'[u].path \in backupPast'.chosen /\ taker'[u].made \in 1 .. backupPast'.made
    BY <1>2 DEF NoneBegins, BackupInv, TakerOK
  <2>3. CASE u # t
    BY <1>1, <2>1, <2>2, <2>3 DEF BackupInv, TakerOK, Making
  <2>4. CASE u = t
    <3>1. ~ Making(t)' => taker'[t].path = NoPath
      BY <1>1 DEF MakerMoves, Making
    <3>2. taker'[t].todo = {} /\ taker'[t].pc \notin {"unlink", "unrow"}
      BY <1>1 DEF MakerMoves, Makers
    <3>3. taker'[t].up => taker'[t].pc = "row"
      BY <1>1 DEF MakerMoves
    <3> QED
      BY <2>1, <2>2, <2>4, <3>1, <3>2, <3>3 DEF TakerOK
  <2> QED
    BY <2>3, <2>4
<1> QED
  BY <1>1, <1>2, <1>3, <1>4

LEMMA MakerKeeps ==
    ASSUME BackupInv, NEW t \in Takers, NEW e, MakerMoves(t, e)
    PROVE  BackupInv'
<1>1. /\ NoneBegins /\ BackupShape' /\ (\A u \in Takers : TakerOK(u)')
      /\ taker'[t] = e /\ \A u \in Takers : u # t => taker'[u] = taker[u]
  BY MakerShape
<1>2. PICK p : p = taker[t].path
  OBVIOUS
<1>3. /\ p \in Path /\ p \in backupPast.chosen /\ taker[t].todo = {} /\ taker'[t].todo = {}
      /\ Undisturbed' = Undisturbed /\ backups' = backups /\ today' = today
  BY <1>1, <1>2, TakerFacts DEF MakerMoves, Undisturbed
<1>4. \A q \in Path : q # p =>
           archive'[q] = archive[q] /\ remote'[q] = remote[q] /\ (q \in snapshotTmp' <=> q \in snapshotTmp)
  BY <1>2 DEF MakerMoves
<1>5. \A u \in Takers : taker'[u].todo = taker[u].todo
  BY <1>1, <1>3
<1>6. \A u \in Takers : taker'[u].pc = "unrow" <=> taker[u].pc = "unrow"
  BY <1>1 DEF MakerMoves, Making, Makers
<1>7. \A u \in Takers : NextVictim(u)' = NextVictim(u)
  BY <1>5 DEF NextVictim
<1>8. RowsOK'
  <2>1. \A b \in Backup : RowOK(b) => RowOK(b)'
    BY <1>1, RowsKeep
  <2>2. \A b \in backups' : RowOK(b)'
    BY <1>3, <2>1, BackupFacts DEF BackupInv, RowsOK
  <2>3. \A m \in Made : \A b \in held'[m] : RowOK(b)'
    BY <1>3, <2>1, <2>2, BackupFacts DEF BackupInv, RowsOK, MakerMoves
  <2>4. \A u \in Takers : \A b \in taker'[u].todo : RowOK(b)'
    BY <1>5, <2>1, TakerFacts DEF BackupInv, RowsOK
  <2> QED
    BY <2>2, <2>3, <2>4 DEF RowsOK
<1>9. IdsOK'
  <2>1. \A m \in Made : OneOfEach(held'[m])
    BY DEF BackupInv, IdsOK, MakerMoves
  <2>2. OneOfEach(backups) /\ \A u \in Takers : \A v \in taker'[u].todo : \A c \in backups : c.id = v.id => c = v
    BY <1>5 DEF BackupInv, IdsOK
  <2> QED
    BY <1>3, <2>1, <2>2 DEF IdsOK, OneOfEach
<1>10. AloneOK'
  BY <1>3, <1>5 DEF BackupInv, AloneOK
<1>11. \A u \in Takers : MakingOK(u)'
  <2>1. TAKE u \in Takers
  <2>2. SUFFICES ASSUME Making(u)', taker'[u].path \in Undisturbed
                 PROVE  /\ AsMade(u, taker[u].path, taker[u].made)'
                        /\ \A v \in Takers : Making(v)' /\ taker'[v].path = taker'[u].path => v = u
    BY <1>3 DEF MakingOK, AsMade
  <2>3. Making(u) /\ taker'[u].path = taker[u].path /\ taker'[u].made = taker[u].made
    BY <1>1, <2>2 DEF NoneBegins
  <2>4. AsMade(u, taker[u].path, taker[u].made)
        /\ \A v \in Takers : Making(v) /\ taker[v].path = taker[u].path => v = u
    BY <2>2, <2>3 DEF BackupInv, MakingOK
  <2>5. \A v \in Takers : Making(v)' /\ taker'[v].path = taker'[u].path => v = u
    BY <1>1, <2>3, <2>4 DEF NoneBegins
  <2>6. CASE u = t
    BY <1>1, <2>2, <2>3, <2>5, <2>6 DEF MakerMoves, Making, AsMade
  <2>7. CASE u # t
    <3>1. taker[u].path # p /\ taker[u].path \in Path /\ taker'[u] = taker[u]
      BY <1>1, <1>2, <2>3, <2>4, <2>7, TakerFacts DEF MakerMoves
    <3> QED
      BY <1>4, <2>4, <2>5, <3>1 DEF AsMade
  <2> QED
    BY <2>6, <2>7
<1>12. TraceOK'
  <2>1. \A q \in Path : q # p => (archive'[q].state # "none" \/ remote'[q].state # "none" \/ q \in snapshotTmp' =>
            q \in backupPast'.chosen)
    BY <1>4 DEF BackupInv, TraceOK, MakerMoves
  <2> QED
    BY <1>3, <2>1 DEF TraceOK, MakerMoves
<1>13. RowsStand'
  <2>1. SUFFICES ASSUME NEW b \in backups  PROVE RowStands(b)'
    BY <1>3 DEF RowsStand
  <2>2. b.path \in Undisturbed => b.path # p
    BY <1>2 DEF BackupInv, RowsOK, RowOK, MakerMoves
  <2>3. b.path \in Path
    BY BackupFacts, BackupFields
  <2>4. Removing(b)' <=> Removing(b)
    BY <1>6, <1>7 DEF Removing
  <2>5. Victims' = Victims
    BY <1>3 DEF Victims
  <2>6. Struck({"crash"}) => Struck({"crash"})'
    BY DEF Struck, MakerMoves
  <2>7. RowStands(b)
    BY DEF BackupInv, RowsStand
  <2> QED
    BY <1>3, <1>4, <2>2, <2>3, <2>4, <2>5, <2>6, <2>7 DEF RowStands
<1>14. NoneBack'
  BY <1>3, <1>5 DEF BackupInv, NoneBack, Struck, MakerMoves
<1>15. NotUploaded'
  <2>1. \A b \in backups : b.path \in Undisturbed => b.path # p /\ b.path \in Path
    BY <1>2, BackupFacts, BackupFields DEF BackupInv, RowsOK, RowOK, MakerMoves
  <2>2. \A u \in Takers : \A b \in taker[u].todo : b.path \in Undisturbed => b.path # p /\ b.path \in Path
    BY <1>2, TakerFacts, BackupFields DEF BackupInv, RowsOK, RowOK, MakerMoves
  <2> QED
    BY <1>3, <1>4, <1>5, <2>1, <2>2 DEF BackupInv, NotUploaded
<1>16. RemovedGone'
  <2>1. SUFFICES ASSUME ~ Struck({"remove", "crash", "restore", "disk"})', NEW u \in Takers, taker[u].pc = "unrow",
                        NextVictim(u).path \in Undisturbed
                 PROVE  archive'[NextVictim(u).path].state = "none" /\ remote'[NextVictim(u).path].state = "none"
    BY <1>3, <1>6, <1>7 DEF RemovedGone
  <2>2. ~ Struck({"remove", "crash", "restore", "disk"})
    BY <2>1 DEF Struck, MakerMoves
  <2>3. archive[NextVictim(u).path].state = "none" /\ remote[NextVictim(u).path].state = "none"
    BY <2>1, <2>2 DEF BackupInv, RemovedGone
  <2>4. NextVictim(u) \in taker[u].todo
    BY <2>1, VictimListed
  <2>5. NextVictim(u).path # p /\ NextVictim(u).path \in Path
    BY <1>2, <2>1, <2>4, TakerFacts, BackupFields DEF BackupInv, RowsOK, RowOK, MakerMoves
  <2> QED
    BY <1>4, <2>3, <2>5
<1>17. ArchivesHaveRows'
  <2>1. SUFFICES ASSUME ~ Struck({"remove", "crash", "restore", "disk"})', NEW q \in Undisturbed,
                        "whole" \in {archive'[q].state, remote'[q].state}
                 PROVE  (\E b \in backups : b.path = q) \/ \E u \in Takers : taker'[u].path = q
    BY <1>3 DEF ArchivesHaveRows
  <2>2. ~ Struck({"remove", "crash", "restore", "disk"})
    BY <2>1 DEF Struck, MakerMoves
  <2>3. q \in Path
    BY <2>1 DEF Undisturbed
  <2>4. CASE q = p
    BY <1>1, <1>2, <2>1, <2>4 DEF MakerMoves
  <2>5. CASE q # p
    <3>1. (\E b \in backups : b.path = q) \/ \E u \in Takers : taker[u].path = q
      BY <1>4, <2>1, <2>2, <2>3, <2>5 DEF BackupInv, ArchivesHaveRows
    <3>2. \A u \in Takers : taker[u].path = q => taker'[u] = taker[u]
      BY <1>1, <1>2, <2>5
    <3> QED
      BY <3>1, <3>2
  <2> QED
    BY <2>4, <2>5
<1>18. NewestStay'
  BY <1>3, <1>5 DEF BackupInv, NewestStay
<1>19. DayOK'
  <2>1. SUFFICES ASSUME backupPast'.faults = {}  PROVE DayOK'
    BY DEF DayOK
  <2>2. backupPast.faults = {}
    BY <2>1 DEF MakerMoves
  <2>3. backupPast'.ticked /\ ~ Making(Keeper)' /\ backupPast'.contested = {} => ~ Making(Keeper)
    <3>1. CASE t # Keeper
      BY <1>1, <3>1, BackupFacts DEF Making
    <3>2. CASE t = Keeper
      BY <1>1, <1>2, <1>3, <2>1, <3>2 DEF Making, MakerMoves, Undisturbed
    <3> QED
      BY <3>1, <3>2
  <2> QED
    BY <1>3, <2>2, <2>3 DEF BackupInv, DayOK, MakerMoves
<1> QED
  BY <1>1, <1>8, <1>9, <1>10, <1>11, <1>12, <1>13, <1>14, <1>15, <1>16, <1>17, <1>18, <1>19 DEF BackupInv


LEMMA PcMoved ==
    ASSUME BackupInv, NEW t \in Takers, NEW pc \in TakerPCs, taker' = [taker EXCEPT ![t].pc = pc]
    PROVE  \E e \in TakerType :
               /\ e.pc = pc /\ e.path = taker[t].path /\ e.made = taker[t].made /\ e.up = taker[t].up
               /\ e.todo = taker[t].todo
               /\ taker' = [taker EXCEPT ![t] = e]
<1>1. PICK e : e = [taker[t] EXCEPT !.pc = pc]
  OBVIOUS
<1>2. taker[t] \in TakerType
  BY TakerFacts
<1>3. /\ e \in TakerType /\ e.pc = pc /\ e.path = taker[t].path /\ e.made = taker[t].made
      /\ e.up = taker[t].up /\ e.todo = taker[t].todo
  BY <1>1, <1>2 DEF TakerType
<1>4. taker' = [taker EXCEPT ![t] = e]
  BY <1>1, BackupFacts
<1> QED
  BY <1>3, <1>4

LEMMA ThenIs ==
    ASSUME NEW t
    PROVE  /\ Then(t) \in TakerType /\ Then(t).pc \in {"idle", "list"} /\ Then(t).path = NoPath
           /\ Then(t).todo = {} /\ Then(t).pc \notin Makers /\ Then(t).up = FALSE
           /\ Idle \in TakerType /\ Idle.pc = "idle" /\ Idle.path = NoPath /\ Idle.todo = {}
           /\ Idle.up = FALSE
<1>1. /\ Idle \in TakerType /\ Idle.pc = "idle" /\ Idle.path = NoPath /\ Idle.todo = {} /\ Idle.up = FALSE
  BY BackupAssumption DEF Idle, TakerType, TakerPCs, BackupAssumption
<1>2. PICK e : e = [Idle EXCEPT !.pc = "list"]
  OBVIOUS
<1>3. e \in TakerType /\ e.pc = "list" /\ e.path = NoPath /\ e.todo = {} /\ e.up = FALSE
  BY <1>1, <1>2 DEF TakerType, TakerPCs
<1>4. Then(t) = e \/ Then(t) = Idle
  BY <1>2 DEF Then
<1> QED
  BY <1>1, <1>3, <1>4 DEF Makers

LEMMA StruckOnce ==
    ASSUME BackupInv, NEW k, Mars(k)
    PROVE  /\ backupPast' \in PastType /\ backupPast'.chosen = backupPast.chosen
           /\ backupPast'.contested = backupPast.contested /\ backupPast'.made = backupPast.made
           /\ backupPast'.faults = {k} /\ backupPast.faults = {}
           /\ backupPast'.ticked = backupPast.ticked
BY BackupFacts DEF Mars, PastType

LEMMA FileMadeKeeps == ASSUME BackupInv, NEW t \in Takers, FileMade(t)  PROVE BackupInv'
<1>0. taker' = [taker EXCEPT ![t].pc = "snapshot"] /\ "snapshot" \in TakerPCs
  BY DEF FileMade, TakerAt, TakerPCs
<1>1. PICK e \in TakerType :
          /\ e.pc = "snapshot" /\ e.path = taker[t].path /\ e.made = taker[t].made /\ e.up = taker[t].up
          /\ e.todo = taker[t].todo /\ taker' = [taker EXCEPT ![t] = e]
  BY <1>0, PcMoved
<1>2. PICK p : p = taker[t].path
  OBVIOUS
<1>3. Making(t) /\ p \in Path /\ taker[t].made \in Made /\ taker[t].todo = {} /\ ~ taker[t].up
  BY <1>2, TakerFacts DEF FileMade, Making, Makers
<1>4. PICK f : f = [of |-> taker[t].made, state |-> IF archive[p].state = "part" THEN "torn" ELSE "part"]
  OBVIOUS
<1>5. f \in FileType /\ archive' = [archive EXCEPT ![p] = f]
  BY <1>2, <1>3, <1>4 DEF FileMade, FileType
<1>6. archive' \in [Path -> FileType] /\ archive'[p] = f /\ \A q \in Path : q # p => archive'[q] = archive[q]
  BY <1>3, <1>5, BackupFacts
<1>7. p \in Undisturbed => AsMade(t, e.path, e.made)'
  <2>1. SUFFICES ASSUME p \in Undisturbed  PROVE AsMade(t, e.path, e.made)'
    OBVIOUS
  <2>2. archive[p].state = "none" /\ p \notin snapshotTmp /\ remote[p].state = "none"
    BY <1>2, <1>3, <2>1 DEF BackupInv, MakingOK, AsMade, FileMade
  <2>3. f = [of |-> e.made, state |-> "part"] /\ taker'[t] = e
    BY <1>1, <1>4, <2>2, BackupFacts
  <2> QED
    BY <1>1, <1>2, <1>6, <2>2, <2>3 DEF AsMade, FileMade
<1>8. MakerMoves(t, e)
  BY <1>1, <1>2, <1>3, <1>6, <1>7, BackupFacts DEF FileMade, MakerMoves, Makers
<1> QED
  BY <1>8, MakerKeeps

LEMMA SnapshotsKeeps == ASSUME BackupInv, NEW t \in Takers, Snapshots(t)  PROVE BackupInv'
<1>1. PICK p : p = taker[t].path
  OBVIOUS
<1>2. Making(t) /\ p \in Path /\ taker[t].made \in Made /\ taker[t].todo = {} /\ ~ taker[t].up
  BY <1>1, TakerFacts DEF Snapshots, Making, Makers
<1>3. p \in Undisturbed => /\ archive[p] = [of |-> taker[t].made, state |-> "part"] /\ p \notin snapshotTmp
                           /\ remote[p].state = "none"
  BY <1>1, <1>2 DEF BackupInv, MakingOK, AsMade, Snapshots
<1>4. CASE p \in snapshotTmp
  <2>1. PICK e \in TakerType : e = Then(t) /\ taker' = [taker EXCEPT ![t] = e]
    BY <1>1, <1>4, ThenIs DEF Snapshots, Discards
  <2>2. archive' = [archive EXCEPT ![p] = NoFile]
    BY <1>1, <1>4 DEF Snapshots, Discards
  <2>3. archive' \in [Path -> FileType] /\ \A q \in Path : q # p => archive'[q] = archive[q]
    BY <1>2, <2>2, BackupFacts DEF FileType, NoFile
  <2>4. MakerMoves(t, e)
    BY <1>1, <1>2, <1>3, <1>4, <2>1, <2>3, ThenIs, BackupFacts DEF Snapshots, MakerMoves
  <2> QED
    BY <2>4, MakerKeeps
<1>5. CASE p \notin snapshotTmp
  <2>0. taker' = [taker EXCEPT ![t].pc = "write"] /\ "write" \in TakerPCs
    BY <1>1, <1>5 DEF Snapshots, TakerAt, TakerPCs
  <2>1. PICK e \in TakerType :
            /\ e.pc = "write" /\ e.path = taker[t].path /\ e.made = taker[t].made /\ e.up = taker[t].up
            /\ e.todo = taker[t].todo /\ taker' = [taker EXCEPT ![t] = e]
    BY <2>0, PcMoved
  <2>2. /\ snapshotTmp' = snapshotTmp \cup {p} /\ held' = [held EXCEPT ![taker[t].made] = backups]
        /\ UNCHANGED <<today, archive, remote, backups, backupPast>>
    BY <1>1, <1>5 DEF Snapshots
  <2>3. held' \in [Made -> SUBSET Backup] /\ \A m \in Made : held'[m] = held[m] \/ held'[m] = backups
    BY <1>2, <2>2, BackupFacts
  <2>4. taker'[t] = e
    BY <2>1, BackupFacts
  <2>5. p \in Undisturbed => AsMade(t, e.path, e.made)'
    BY <1>1, <1>3, <2>1, <2>2, <2>4 DEF AsMade
  <2>6. MakerMoves(t, e)
    BY <1>1, <1>2, <2>1, <2>2, <2>3, <2>5, BackupFacts DEF MakerMoves, Makers
  <2> QED
    BY <2>6, MakerKeeps
<1> QED
  BY <1>4, <1>5

LEMMA WritesKeeps == ASSUME BackupInv, NEW t \in Takers, Writes(t)  PROVE BackupInv'
<1>1. PICK p : p = taker[t].path
  OBVIOUS
<1>2. Making(t) /\ p \in Path /\ taker[t].made \in Made /\ taker[t].todo = {} /\ ~ taker[t].up
  BY <1>1, TakerFacts DEF Writes, Making, Makers
<1>3. p \in Undisturbed => /\ archive[p] = [of |-> taker[t].made, state |-> "part"]
                           /\ remote[p].state = "none"
  BY <1>1, <1>2 DEF BackupInv, MakingOK, AsMade, Writes
<1>4. CASE archive[p].state = "none"
  <2>1. PICK e \in TakerType : e = Then(t) /\ taker' = [taker EXCEPT ![t] = e]
    BY <1>1, <1>4, ThenIs DEF Writes
  <2>2. snapshotTmp' = snapshotTmp \ {p} /\ UNCHANGED <<today, archive, remote, backups, held, backupPast>>
    BY <1>1, <1>4 DEF Writes
  <2>3. p \notin Undisturbed
    BY <1>3, <1>4
  <2>4. MakerMoves(t, e)
    BY <1>1, <1>2, <2>1, <2>2, <2>3, ThenIs, BackupFacts DEF MakerMoves
  <2> QED
    BY <2>4, MakerKeeps
<1>5. CASE archive[p].state # "none"
  <2>0. taker' = [taker EXCEPT ![t].pc = "upload"] /\ "upload" \in TakerPCs
    BY <1>1, <1>5 DEF Writes, TakerAt, TakerPCs
  <2>1. PICK e \in TakerType :
            /\ e.pc = "upload" /\ e.path = taker[t].path /\ e.made = taker[t].made /\ e.up = taker[t].up
            /\ e.todo = taker[t].todo /\ taker' = [taker EXCEPT ![t] = e]
    BY <2>0, PcMoved
  <2>2. /\ archive' = IF archive[p] = [of |-> taker[t].made, state |-> "part"]
                      THEN [archive EXCEPT ![p].state = "whole"] ELSE archive
        /\ UNCHANGED <<today, snapshotTmp, remote, backups, held, backupPast>>
    BY <1>1, <1>5 DEF Writes
  <2>3. PICK f : f = [of |-> taker[t].made, state |-> "whole"]
    OBVIOUS
  <2>4. f \in FileType
    BY <1>2, <2>3 DEF FileType
  <2>5. archive[p] = [of |-> taker[t].made, state |-> "part"] => archive' = [archive EXCEPT ![p] = f]
    <3>1. SUFFICES ASSUME archive[p] = [of |-> taker[t].made, state |-> "part"]
                   PROVE  archive' = [archive EXCEPT ![p] = f]
      OBVIOUS
    <3>2. [archive[p] EXCEPT !.state = "whole"] = f
      BY <2>3, <3>1
    <3> QED
      BY <1>2, <2>2, <3>1, <3>2, BackupFacts
  <2>6. /\ archive' \in [Path -> FileType] /\ \A q \in Path : q # p => archive'[q] = archive[q]
        /\ archive[p] = [of |-> taker[t].made, state |-> "part"] => archive'[p] = f
    BY <1>2, <2>2, <2>4, <2>5, BackupFacts
  <2>7. taker'[t] = e
    BY <2>1, BackupFacts
  <2>8. p \in Undisturbed => AsMade(t, e.path, e.made)'
    BY <1>1, <1>3, <2>1, <2>2, <2>3, <2>6, <2>7 DEF AsMade
  <2>9. MakerMoves(t, e)
    BY <1>1, <1>2, <2>1, <2>2, <2>6, <2>8, BackupFacts DEF MakerMoves, Makers
  <2> QED
    BY <2>9, MakerKeeps
<1> QED
  BY <1>4, <1>5

LEMMA WriteFailsKeeps == ASSUME BackupInv, NEW t \in Takers, WriteFails(t)  PROVE BackupInv'
<1>1. PICK p : p = taker[t].path
  OBVIOUS
<1>2. Making(t) /\ p \in Path /\ taker[t].todo = {} /\ Mars("write")
  BY <1>1, TakerFacts DEF WriteFails, Making, Makers
<1>3. p \in Undisturbed => remote[p].state = "none"
  BY <1>1, <1>2 DEF BackupInv, MakingOK, AsMade, WriteFails
<1>4. PICK e \in TakerType : e = Then(t) /\ taker' = [taker EXCEPT ![t] = e]
  BY ThenIs DEF WriteFails, Discards
<1>5. /\ archive' = [archive EXCEPT ![p] = NoFile]
      /\ snapshotTmp' \subseteq snapshotTmp /\ (\A q \in Path : q # p => (q \in snapshotTmp' <=> q \in snapshotTmp))
      /\ UNCHANGED <<today, remote, backups, held>>
  BY <1>1 DEF WriteFails, Discards
<1>6. /\ archive' \in [Path -> FileType] /\ archive'[p].state = "none"
      /\ \A q \in Path : q # p => archive'[q] = archive[q]
  BY <1>2, <1>5, BackupFacts DEF FileType, NoFile
<1>7. MakerMoves(t, e)
  BY <1>1, <1>2, <1>3, <1>4, <1>5, <1>6, ThenIs, StruckOnce, BackupFacts DEF MakerMoves
<1> QED
  BY <1>7, MakerKeeps

LEMMA UploadsKeeps == ASSUME BackupInv, NEW t \in Takers, Uploads(t)  PROVE BackupInv'
<1>1. PICK p : p = taker[t].path
  OBVIOUS
<1>2. /\ Making(t) /\ p \in Path /\ taker[t].todo = {} /\ taker[t].pc = "upload"
      /\ UNCHANGED <<today, archive, snapshotTmp, backups, held>>
  BY <1>1, TakerFacts DEF Uploads, Making, Makers
<1>3. p \in Undisturbed => /\ archive[p] = [of |-> taker[t].made, state |-> "whole"]
                           /\ remote[p].state = "none"
  BY <1>1, <1>2 DEF BackupInv, MakingOK, AsMade
<1>4. PICK put \in BOOLEAN : put = (taker[t].upload /\ archive[p].state # "none")
  OBVIOUS
<1>5. ASSUME remote' = IF put THEN [remote EXCEPT ![p] = archive[p]] ELSE remote, UNCHANGED backupPast,
             taker' = [taker EXCEPT ![t].pc = "row", ![t].up = put]
      PROVE  BackupInv'
  <2>1. PICK e : e = [taker[t] EXCEPT !.pc = "row", !.up = put]
    OBVIOUS
  <2>2. taker[t] \in TakerType
    BY TakerFacts
  <2>3. /\ e \in TakerType /\ e.pc = "row" /\ e.path = taker[t].path /\ e.made = taker[t].made
        /\ e.up = put /\ e.todo = taker[t].todo
    BY <2>1, <2>2 DEF TakerType, TakerPCs
  <2>4. taker' = [taker EXCEPT ![t] = e]
    BY <1>5, <2>1, BackupFacts
  <2>5. /\ remote' \in [Path -> FileType] /\ (\A q \in Path : q # p => remote'[q] = remote[q])
        /\ remote'[p] = IF put THEN archive[p] ELSE remote[p]
    BY <1>2, <1>5, BackupFacts
  <2>6. taker'[t] = e
    BY <2>4, BackupFacts
  <2>7. p \in Undisturbed => AsMade(t, e.path, e.made)'
    BY <1>1, <1>2, <1>3, <2>3, <2>5, <2>6 DEF AsMade
  <2>8. MakerMoves(t, e)
    BY <1>1, <1>2, <1>5, <2>3, <2>4, <2>5, <2>7, BackupFacts DEF MakerMoves, Makers
  <2> QED
    BY <2>8, MakerKeeps
<1>6. ASSUME Mars("put"), TakerAt(t, "row"), UNCHANGED remote
      PROVE  BackupInv'
  <2>0. taker' = [taker EXCEPT ![t].pc = "row"] /\ "row" \in TakerPCs
    BY <1>6 DEF TakerAt, TakerPCs
  <2>1. PICK e \in TakerType :
            /\ e.pc = "row" /\ e.path = taker[t].path /\ e.made = taker[t].made /\ e.up = taker[t].up
            /\ e.todo = taker[t].todo /\ taker' = [taker EXCEPT ![t] = e]
    BY <2>0, PcMoved
  <2>2. taker'[t] = e
    BY <2>1, BackupFacts
  <2>3. taker[t].up = FALSE
    BY <1>2, TakerFacts
  <2>4. p \in Undisturbed => AsMade(t, e.path, e.made)'
    BY <1>1, <1>2, <1>3, <1>6, <2>1, <2>2, <2>3 DEF AsMade
  <2>5. MakerMoves(t, e)
    BY <1>1, <1>2, <1>6, <2>1, <2>4, StruckOnce, BackupFacts DEF MakerMoves, Makers
  <2> QED
    BY <2>5, MakerKeeps
<1> QED
  BY <1>1, <1>4, <1>5, <1>6 DEF Uploads

--------------------------------
\* A step of one that prunes: it takes rows and files away.

PrunerMoves(t, e) ==
    /\ ~ Making(t) /\ e \in TakerType /\ taker' = [taker EXCEPT ![t] = e]
    /\ e.pc \notin Makers /\ e.path = NoPath /\ ~ e.up
    /\ e.todo # {} <=> e.pc \in {"unlink", "unrow"}
    /\ e.todo \subseteq taker[t].todo \cup backups
    /\ UNCHANGED <<today, snapshotTmp, held>> /\ backups' \subseteq backups
    /\ archive' \in [Path -> FileType] /\ remote' \in [Path -> FileType]
    /\ \A q \in Path : /\ archive[q].state = "none" => archive'[q].state = "none"
                       /\ remote[q].state = "none" => remote'[q].state = "none"
    /\ \A u \in Takers : Making(u) /\ taker[u].path \in Undisturbed =>
           archive'[taker[u].path] = archive[taker[u].path] /\ remote'[taker[u].path] = remote[taker[u].path]
    /\ backupPast' \in PastType
    /\ backupPast'.chosen = backupPast.chosen /\ backupPast'.contested = backupPast.contested
    /\ backupPast'.made = backupPast.made /\ backupPast.faults \subseteq backupPast'.faults
    /\ backupPast'.ticked = backupPast.ticked

LEMMA PrunerShape ==
    ASSUME BackupInv, NEW t \in Takers, NEW e, PrunerMoves(t, e)
    PROVE  /\ NoneBegins /\ BackupShape' /\ (\A u \in Takers : TakerOK(u)') /\ RowsOK' /\ IdsOK' /\ AloneOK'
           /\ (\A u \in Takers : MakingOK(u)') /\ TraceOK' /\ NoneBack' /\ NotUploaded'
           /\ taker'[t] = e /\ \A u \in Takers : u # t => taker'[u] = taker[u]
<1>1. taker'[t] = e /\ \A u \in Takers : u # t => taker'[u] = taker[u]
  BY BackupFacts DEF PrunerMoves
<1>2. NoneBegins /\ \A u \in Takers : Making(u)' => taker'[u] = taker[u]
  <2>1. ASSUME NEW u \in Takers, Making(u)'
        PROVE  Making(u) /\ taker'[u] = taker[u]
    BY <1>1, <2>1 DEF PrunerMoves, Making
  <2> QED
    BY <2>1 DEF NoneBegins, PrunerMoves
<1>3. Undisturbed' = Undisturbed /\ \A u \in Takers : taker'[u].todo \subseteq taker[u].todo \cup backups
  BY <1>1 DEF PrunerMoves, Undisturbed
<1>4. BackupShape'
  <2>1. taker' \in [Takers -> TakerType]
    BY BackupFacts DEF PrunerMoves
  <2>2. IsFiniteSet(backups') /\ backups' \subseteq Backup
    <3>1. PICK s : s = backups'
      OBVIOUS
    <3>2. s \in SUBSET backups /\ IsFiniteSet(backups)
      BY <3>1, BackupFacts DEF PrunerMoves
    <3> QED
      BY <3>1, <3>2, FS_Subset, BackupFacts
  <2> QED
    BY <2>1, <2>2, BackupFacts DEF PrunerMoves, BackupShape
<1>5. \A u \in Takers : TakerOK(u)'
  <2>1. TAKE u \in Takers
  <2>2. \A v \in Takers : Making(v)' /\ Making(u)' /\ taker'[v].made = taker'[u].made => v = u
    BY <1>2 DEF NoneBegins, BackupInv, TakerOK
  <2>3. Making(u)' => taker'[u].path \in backupPast'.chosen /\ taker'[u].made \in 1 .. backupPast'.made
    BY <1>2 DEF NoneBegins, BackupInv, TakerOK
  <2>4. CASE u # t
    BY <1>1, <2>2, <2>3, <2>4 DEF BackupInv, TakerOK, Making
  <2>5. CASE u = t
    BY <1>1, <2>2, <2>3, <2>5 DEF TakerOK, PrunerMoves, Making
  <2> QED
    BY <2>4, <2>5
<1>6. RowsOK'
  <2>1. \A b \in Backup : RowOK(b) => RowOK(b)'
    BY <1>2, RowsKeep
  <2>2. \A b \in backups : RowOK(b)'
    BY <2>1, BackupFacts DEF BackupInv, RowsOK
  <2>3. \A m \in Made : \A b \in held[m] : RowOK(b)'
    BY <2>1, BackupFacts DEF BackupInv, RowsOK
  <2>4. \A u \in Takers : \A b \in taker[u].todo : RowOK(b)'
    BY <2>1, TakerFacts DEF BackupInv, RowsOK
  <2> QED
    BY <1>3, <2>2, <2>3, <2>4 DEF RowsOK, PrunerMoves
<1>7. IdsOK'
  <2>1. OneOfEach(backups') /\ \A m \in Made : OneOfEach(held'[m])
    BY DEF BackupInv, IdsOK, OneOfEach, PrunerMoves
  <2>2. \A u \in Takers : \A v \in taker[u].todo \cup backups : \A c \in backups : c.id = v.id => c = v
    BY DEF BackupInv, IdsOK, OneOfEach
  <2>3. \A u \in Takers : \A v \in taker'[u].todo : \A c \in backups' : c.id = v.id => c = v
    BY <1>3, <2>2 DEF PrunerMoves
  <2> QED
    BY <2>1, <2>3 DEF IdsOK, OneOfEach
<1>8. AloneOK'
  <2>1. SUFFICES ASSUME NEW b \in backups', b.path \in Undisturbed, ~ b.back
                 PROVE  /\ \A c \in backups' : c.path = b.path => c = b
                        /\ \A u \in Takers : \A v \in taker'[u].todo : v.path = b.path => v = b
    BY <1>3 DEF AloneOK
  <2>2. b \in backups /\ backups' \subseteq backups
    BY <2>1 DEF PrunerMoves
  <2>3. /\ \A c \in backups : c.path = b.path => c = b
        /\ \A u \in Takers : \A v \in taker[u].todo : v.path = b.path => v = b
    BY <2>1, <2>2 DEF BackupInv, AloneOK
  <2> QED
    BY <1>3, <2>2, <2>3
<1>9. \A u \in Takers : MakingOK(u)'
  <2>1. SUFFICES ASSUME NEW u \in Takers, Making(u)', taker'[u].path \in Undisturbed
                 PROVE  /\ AsMade(u, taker[u].path, taker[u].made)'
                        /\ \A v \in Takers : Making(v)' /\ taker'[v].path = taker'[u].path => v = u
    BY <1>3 DEF MakingOK
  <2>2. Making(u) /\ taker'[u] = taker[u]
    BY <1>2, <2>1 DEF NoneBegins
  <2>3. AsMade(u, taker[u].path, taker[u].made)
        /\ \A v \in Takers : Making(v) /\ taker[v].path = taker[u].path => v = u
    BY <2>1, <2>2 DEF BackupInv, MakingOK
  <2>4. archive'[taker[u].path] = archive[taker[u].path] /\ remote'[taker[u].path] = remote[taker[u].path]
    BY <2>1, <2>2 DEF PrunerMoves
  <2>5. \A v \in Takers : Making(v)' /\ taker'[v].path = taker'[u].path => v = u
    BY <1>2, <2>2, <2>3 DEF NoneBegins
  <2> QED
    BY <2>2, <2>3, <2>4, <2>5 DEF AsMade, PrunerMoves
<1>10. TraceOK'
  BY DEF BackupInv, TraceOK, PrunerMoves
<1>11. NoneBack'
  <2>1. SUFFICES ASSUME ~ Struck({"restore"})'
                 PROVE  /\ \A b \in backups' : ~ b.back
                        /\ \A u \in Takers : \A b \in taker'[u].todo : ~ b.back
    BY DEF NoneBack
  <2>2. ~ Struck({"restore"})
    BY <2>1 DEF Struck, PrunerMoves
  <2> QED
    BY <1>3, <2>2 DEF BackupInv, NoneBack, PrunerMoves
<1>12. NotUploaded'
  <2>1. ASSUME NEW b \in Backup, b.path \in Undisturbed /\ ~ b.back /\ ~ b.uploaded => remote[b.path].state = "none"
        PROVE  b.path \in Undisturbed' /\ ~ b.back /\ ~ b.uploaded => remote'[b.path].state = "none"
    BY <1>3, <2>1, BackupFields DEF PrunerMoves
  <2>2. \A b \in backups : b.path \in Undisturbed' /\ ~ b.back /\ ~ b.uploaded => remote'[b.path].state = "none"
    BY <2>1, BackupFacts DEF BackupInv, NotUploaded
  <2>3. \A u \in Takers : \A b \in taker[u].todo :
            b.path \in Undisturbed' /\ ~ b.back /\ ~ b.uploaded => remote'[b.path].state = "none"
    BY <2>1, TakerFacts DEF BackupInv, NotUploaded
  <2> QED
    BY <1>3, <2>2, <2>3 DEF NotUploaded, PrunerMoves
<1> QED
  BY <1>1, <1>2, <1>4, <1>5, <1>6, <1>7, <1>8, <1>9, <1>10, <1>11, <1>12

\* A prune begins, or lists what it will take away.
LEMMA ListerKeeps ==
    ASSUME BackupInv, NEW t \in Takers, NEW e, PrunerMoves(t, e), taker[t].pc # "unrow", e.pc # "unrow",
           UNCHANGED <<archive, remote, backups>>, taker[t].todo = {}, e.todo \subseteq Victims,
           backupPast'.faults = backupPast.faults
    PROVE  BackupInv'
<1>1. /\ NoneBegins /\ BackupShape' /\ (\A u \in Takers : TakerOK(u)') /\ RowsOK' /\ IdsOK' /\ AloneOK'
      /\ (\A u \in Takers : MakingOK(u)') /\ TraceOK' /\ NoneBack' /\ NotUploaded'
      /\ taker'[t] = e /\ \A u \in Takers : u # t => taker'[u] = taker[u]
  BY PrunerShape
<1>2. \A u \in Takers : taker'[u].pc = "unrow" <=> taker[u].pc = "unrow"
  BY <1>1
<1>3. \A u \in Takers : taker[u].pc = "unrow" => NextVictim(u)' = NextVictim(u)
  BY <1>1 DEF NextVictim
<1>4. Undisturbed' = Undisturbed /\ Victims' = Victims
  BY DEF Undisturbed, PrunerMoves, Victims
<1>5. \A k : Struck(k)' <=> Struck(k)
  BY DEF Struck
<1>6. RowsStand'
  <2>1. \A b : Removing(b)' <=> Removing(b)
    BY <1>2, <1>3 DEF Removing
  <2> QED
    BY <1>4, <1>5, <2>1 DEF BackupInv, RowsStand, RowStands
<1>7. RemovedGone'
  BY <1>2, <1>3, <1>4, <1>5 DEF BackupInv, RemovedGone
<1>8. ArchivesHaveRows'
  <2>1. \A u \in Takers : \A q \in Path : taker[u].path = q => taker'[u] = taker[u]
    <3>1. NoPath \notin Path /\ taker[t].path = NoPath
      BY TakerFacts, BackupAssumption DEF NoPath, Path, PrunerMoves, BackupAssumption
    <3> QED
      BY <1>1, <3>1
  <2>2. \A q \in Undisturbed : q \in Path
    BY DEF Undisturbed
  <2> QED
    BY <1>4, <1>5, <2>1, <2>2 DEF BackupInv, ArchivesHaveRows
<1>9. NewestStay'
  <2>1. ASSUME NEW u \in Takers, NEW v \in taker'[u].todo
        PROVE  Cardinality({b \in backups : b.id > v.id}) >= Keep
    <3>1. CASE u = t
      BY <1>1, <2>1, <3>1 DEF Victims
    <3>2. CASE u # t
      BY <1>1, <2>1, <3>2 DEF BackupInv, NewestStay
    <3> QED
      BY <3>1, <3>2
  <2> QED
    BY <2>1 DEF NewestStay
<1>10. DayOK'
  <2>1. ~ Making(Keeper)' => ~ Making(Keeper)
    BY <1>1, BackupFacts DEF Making, PrunerMoves
  <2> QED
    BY <2>1 DEF BackupInv, DayOK, PrunerMoves
<1> QED
  BY <1>1, <1>6, <1>7, <1>8, <1>9, <1>10 DEF BackupInv

LEMMA PruneAskedKeeps == ASSUME BackupInv, NEW t \in Takers, PruneAsked(t)  PROVE BackupInv'
<1>1. taker' = [taker EXCEPT ![t].pc = "list"] /\ "list" \in TakerPCs
  BY DEF PruneAsked, TakerAt, TakerPCs
<1>2. PICK e \in TakerType :
          /\ e.pc = "list" /\ e.path = taker[t].path /\ e.made = taker[t].made /\ e.up = taker[t].up
          /\ e.todo = taker[t].todo /\ taker' = [taker EXCEPT ![t] = e]
  BY <1>1, PcMoved
<1>3. taker[t].pc = "idle" /\ ~ Making(t) /\ taker[t].todo = {} /\ taker[t].path = NoPath /\ ~ taker[t].up
  BY TakerFacts DEF PruneAsked, Making, Makers
<1>4. backupPast' \in PastType /\ UNCHANGED <<today, archive, snapshotTmp, remote, backups, held>>
  BY BackupFacts DEF PruneAsked, PastType
<1>5. /\ backupPast'.chosen = backupPast.chosen /\ backupPast'.contested = backupPast.contested
      /\ backupPast'.made = backupPast.made /\ backupPast'.faults = backupPast.faults
      /\ backupPast'.ticked = backupPast.ticked
  BY BackupFacts DEF PruneAsked, PastType
<1>6. PrunerMoves(t, e)
  BY <1>2, <1>3, <1>4, <1>5, BackupFacts DEF PrunerMoves, Makers
<1> QED
  BY <1>2, <1>3, <1>4, <1>5, <1>6, ListerKeeps

LEMMA ListsVictimsKeeps == ASSUME BackupInv, NEW t \in Takers, ListsVictims(t)  PROVE BackupInv'
<1>1. taker[t].pc = "list" /\ ~ Making(t) /\ taker[t].todo = {} /\ taker[t].path = NoPath
  BY TakerFacts DEF ListsVictims, Making, Makers
<1>2. PICK e : e = IF Victims = {} THEN Idle ELSE [Idle EXCEPT !.pc = "unlink", !.todo = Victims]
  OBVIOUS
<1>3. Victims \subseteq backups /\ Victims \subseteq Backup
  BY BackupFacts DEF Victims
<1>4. /\ e \in TakerType /\ e.path = NoPath /\ ~ e.up
      /\ e.todo = Victims /\ e.pc = IF Victims = {} THEN "idle" ELSE "unlink"
  <2>1. CASE Victims = {}
    BY <1>2, <2>1, ThenIs
  <2>2. CASE Victims # {}
    <3>1. e = [Idle EXCEPT !.pc = "unlink", !.todo = Victims] /\ "unlink" \in TakerPCs /\ Victims \in SUBSET Backup
      BY <1>2, <1>3, <2>2 DEF TakerPCs
    <3>2. Idle \in TakerType /\ Idle.path = NoPath /\ Idle.up = FALSE
      BY ThenIs
    <3>3. PICK s \in SUBSET Backup : s = Victims
      BY <3>1
    <3>4. e = [Idle EXCEPT !.pc = "unlink", !.todo = s]
      BY <3>1, <3>3
    <3>5. e \in TakerType /\ e.path = NoPath /\ ~ e.up /\ e.todo = s /\ e.pc = "unlink"
      BY <3>1, <3>2, <3>4 DEF TakerType
    <3> QED
      BY <2>2, <3>3, <3>5
  <2> QED
    BY <2>1, <2>2
<1>5. taker' = [taker EXCEPT ![t] = e] /\ UNCHANGED <<today, archive, snapshotTmp, remote, backups, held, backupPast>>
  BY <1>2 DEF ListsVictims
<1>6. PrunerMoves(t, e)
  BY <1>1, <1>3, <1>4, <1>5, BackupFacts DEF PrunerMoves, Makers
<1> QED
  BY <1>1, <1>4, <1>5, <1>6, ListerKeeps

LEMMA UnlinksKeeps == ASSUME BackupInv, NEW t \in Takers, Unlinks(t)  PROVE BackupInv'
<1>1. taker' = [taker EXCEPT ![t].pc = "unrow"] /\ "unrow" \in TakerPCs
  BY DEF Unlinks, TakerAt, TakerPCs
<1>2. PICK e \in TakerType :
          /\ e.pc = "unrow" /\ e.path = taker[t].path /\ e.made = taker[t].made /\ e.up = taker[t].up
          /\ e.todo = taker[t].todo /\ taker' = [taker EXCEPT ![t] = e]
  BY <1>1, PcMoved
<1>3. PICK v : v = NextVictim(t)
  OBVIOUS
<1>4. taker[t].pc = "unlink" /\ v \in taker[t].todo /\ v \in Backup /\ ~ Making(t) /\ v.path \in Path
  BY <1>3, VictimListed, BackupFields DEF Unlinks, Making, Makers
<1>5. taker[t].path = NoPath /\ ~ taker[t].up /\ taker[t].todo # {}
  BY <1>4, TakerFacts
<1>6. PICK files \in SUBSET {"file", "object"} :
          /\ IF files = {"file", "object"} THEN UNCHANGED backupPast ELSE Mars("remove")
          /\ archive' = IF "file" \in files THEN [archive EXCEPT ![v.path] = NoFile] ELSE archive
          /\ remote' = IF v.uploaded /\ "object" \in files THEN [remote EXCEPT ![v.path] = NoFile] ELSE remote
  BY <1>3 DEF Unlinks
<1>7. UNCHANGED <<today, snapshotTmp, backups, held>>
  BY DEF Unlinks
<1>8. NoFile \in FileType /\ NoFile.state = "none"
  BY BackupAssumption DEF NoFile, FileType, BackupAssumption
<1>9. /\ archive' \in [Path -> FileType] /\ remote' \in [Path -> FileType]
      /\ \A q \in Path : /\ q # v.path => archive'[q] = archive[q] /\ remote'[q] = remote[q]
                         /\ archive'[q] = archive[q] \/ archive'[q].state = "none"
                         /\ remote'[q] = remote[q] \/ remote'[q].state = "none"
      /\ "file" \in files => archive'[v.path].state = "none"
      /\ v.uploaded /\ "object" \in files => remote'[v.path].state = "none"
  BY <1>4, <1>6, <1>8, BackupFacts
<1>10. /\ backupPast' \in PastType
       /\ backupPast'.chosen = backupPast.chosen /\ backupPast'.contested = backupPast.contested
       /\ backupPast'.made = backupPast.made /\ backupPast.faults \subseteq backupPast'.faults
       /\ backupPast'.ticked = backupPast.ticked
       /\ files # {"file", "object"} => "remove" \in backupPast'.faults
  <2>1. CASE files = {"file", "object"}
    BY <1>6, <2>1, BackupFacts
  <2>2. CASE files # {"file", "object"}
    BY <1>6, <2>2, StruckOnce
  <2> QED
    BY <2>1, <2>2
<1>11. \A u \in Takers : Making(u) /\ taker[u].path \in Undisturbed => taker[u].path # v.path /\ taker[u].path \in Path
  BY <1>4, TakerFacts DEF BackupInv, RowsOK, RowOK
<1>12. PrunerMoves(t, e)
  BY <1>2, <1>4, <1>5, <1>7, <1>9, <1>10, <1>11, BackupFacts DEF PrunerMoves, Makers
<1>13. /\ NoneBegins /\ BackupShape' /\ (\A u \in Takers : TakerOK(u)') /\ RowsOK' /\ IdsOK' /\ AloneOK'
       /\ (\A u \in Takers : MakingOK(u)') /\ TraceOK' /\ NoneBack' /\ NotUploaded'
       /\ taker'[t] = e /\ \A u \in Takers : u # t => taker'[u] = taker[u]
  BY <1>12, PrunerShape
<1>14. /\ Undisturbed' = Undisturbed /\ Victims' = Victims
       /\ \A u \in Takers : taker'[u].todo = taker[u].todo /\ NextVictim(u)' = NextVictim(u)
                            /\ taker'[u].path = taker[u].path
  BY <1>2, <1>7, <1>10, <1>13 DEF Undisturbed, Victims, NextVictim
<1>15. \A k : Struck(k) => Struck(k)'
  BY <1>10 DEF Struck
<1>16. RowsStand'
  <2>1. SUFFICES ASSUME NEW b \in backups, b.path \in Undisturbed, ~ b.back, ~ Removing(b)',
                        ~ (b \in Victims /\ Struck({"crash"}))
                 PROVE  /\ archive'[b.path] = [of |-> b.made, state |-> "whole"]
                        /\ b.uploaded => remote'[b.path] = [of |-> b.made, state |-> "whole"]
    BY <1>7, <1>14, <1>15 DEF RowsStand, RowStands
  <2>2. b # v
    BY <1>2, <1>3, <1>13, <1>14, <2>1 DEF Removing
  <2>3. b.path # v.path /\ b.path \in Path
    BY <1>4, <2>1, <2>2, BackupFacts, BackupFields DEF BackupInv, AloneOK
  <2>4. ~ Removing(b)
    <3>1. \A u \in Takers : taker[u].pc = "unrow" => taker'[u].pc = "unrow"
      BY <1>2, <1>13
    <3> QED
      BY <1>14, <2>1, <3>1 DEF Removing
  <2>5. /\ archive[b.path] = [of |-> b.made, state |-> "whole"]
        /\ b.uploaded => remote[b.path] = [of |-> b.made, state |-> "whole"]
    BY <2>1, <2>4 DEF BackupInv, RowsStand, RowStands
  <2> QED
    BY <1>9, <2>3, <2>5
<1>17. RemovedGone'
  <2>1. SUFFICES ASSUME ~ Struck({"remove", "crash", "restore", "disk"})', NEW u \in Takers, taker'[u].pc = "unrow",
                        NextVictim(u).path \in Undisturbed
                 PROVE  archive'[NextVictim(u).path].state = "none" /\ remote'[NextVictim(u).path].state = "none"
    BY <1>14 DEF RemovedGone
  <2>2. ~ Struck({"remove", "crash", "restore", "disk"}) /\ ~ Struck({"remove", "restore"})'
    BY <1>15, <2>1 DEF Struck
  <2>3. CASE u = t
    <3>1. archive'[v.path].state = "none" /\ (v.uploaded => remote'[v.path].state = "none")
      BY <1>9, <1>10, <2>2 DEF Struck
    <3>2. ~ v.uploaded => remote'[v.path].state = "none"
      <4>1. ~ v.back
        BY <1>4, <2>2 DEF BackupInv, NoneBack, Struck
      <4>2. ~ v.uploaded => remote[v.path].state = "none"
        BY <1>3, <1>4, <2>1, <2>3, <4>1 DEF BackupInv, NotUploaded
      <4> QED
        BY <1>4, <1>9, <4>2
    <3> QED
      BY <1>3, <2>3, <3>1, <3>2, BackupFields
  <2>4. CASE u # t
    <3>1. taker[u].pc = "unrow" /\ NextVictim(u).path \in Path
      BY <1>13, <2>1, <2>4 DEF Undisturbed
    <3>2. archive[NextVictim(u).path].state = "none" /\ remote[NextVictim(u).path].state = "none"
      BY <2>1, <2>2, <3>1 DEF BackupInv, RemovedGone
    <3> QED
      BY <1>9, <3>1, <3>2
  <2> QED
    BY <2>3, <2>4
<1>18. ArchivesHaveRows'
  <2>1. SUFFICES ASSUME ~ Struck({"remove", "crash", "restore", "disk"})', NEW q \in Undisturbed,
                        "whole" \in {archive'[q].state, remote'[q].state}
                 PROVE  (\E b \in backups : b.path = q) \/ \E u \in Takers : taker[u].path = q
    BY <1>7, <1>14 DEF ArchivesHaveRows
  <2>2. q \in Path /\ ~ Struck({"remove", "crash", "restore", "disk"})
    BY <1>15, <2>1 DEF Undisturbed
  <2>3. "whole" \in {archive[q].state, remote[q].state}
    BY <1>9, <2>1, <2>2
  <2> QED
    BY <2>1, <2>2, <2>3 DEF BackupInv, ArchivesHaveRows
<1>19. NewestStay'
  BY <1>7, <1>14 DEF BackupInv, NewestStay
<1>20. DayOK'
  <2>1. ~ Making(Keeper)' => ~ Making(Keeper)
    BY <1>4, <1>13, BackupFacts DEF Making
  <2> QED
    BY <1>7, <1>10, <2>1 DEF BackupInv, DayOK
<1> QED
  BY <1>13, <1>16, <1>17, <1>18, <1>19, <1>20 DEF BackupInv

\* What has enough newer rows has them after one of a prune's list is deleted: either that
\* one is not newer, or what is newer than that one is.
LEMMA NewerStay ==
    ASSUME BackupInv, NEW u \in Takers, NEW v \in taker[u].todo, NEW x \in Nat,
           Cardinality({b \in backups : b.id > x}) >= Keep,
           backups' = {c \in backups : c.id # v.id}
    PROVE  Cardinality({b \in backups' : b.id > x}) >= Keep
<1>1. Cardinality({b \in backups : b.id > v.id}) >= Keep /\ v.id \in Nat
  BY TakerFacts, BackupFields DEF BackupInv, NewestStay
<1>2. IsFiniteSet(backups') /\ backups' \subseteq Backup
  <2>1. PICK s : s = backups'
    OBVIOUS
  <2>2. s \in SUBSET backups /\ IsFiniteSet(backups)
    BY <2>1, BackupFacts
  <2> QED
    BY <2>1, <2>2, FS_Subset, BackupFacts
<1>3. CASE x < v.id
  <2>1. PICK a : a = {b \in backups : b.id > v.id}
    OBVIOUS
  <2>2. PICK n : n = {b \in backups' : b.id > x}
    OBVIOUS
  <2>3. a \in SUBSET n
    BY <1>1, <1>3, <2>1, <2>2, BackupFacts, BackupFields
  <2>4. n \in SUBSET backups'
    BY <2>2
  <2>5. IsFiniteSet(n) /\ IsFiniteSet(a) /\ Cardinality(a) <= Cardinality(n)
    BY <1>2, <2>3, <2>4, FS_Subset
  <2>6. Cardinality(n) \in Nat /\ Cardinality(a) \in Nat
    BY <2>5, FS_CardinalityType
  <2> QED
    BY <1>1, <2>1, <2>2, <2>5, <2>6, BackupFacts
<1>4. CASE x >= v.id
  <2>1. {b \in backups' : b.id > x} = {b \in backups : b.id > x}
    BY <1>1, <1>4, BackupFacts, BackupFields
  <2> QED
    BY <2>1
<1> QED
  BY <1>1, <1>3, <1>4

LEMMA UnrowsKeeps == ASSUME BackupInv, NEW t \in Takers, Unrows(t)  PROVE BackupInv'
<1>1. PICK v : v = NextVictim(t)
  OBVIOUS
<1>2. taker[t].pc = "unrow" /\ v \in taker[t].todo /\ v \in Backup /\ ~ Making(t) /\ v.id \in Nat
  BY <1>1, VictimListed, BackupFields DEF Unrows, Making, Makers
<1>3. PICK rest \in SUBSET Backup : rest = taker[t].todo \ {v}
  BY TakerFacts
<1>4. PICK e : e = IF (\A c \in backups : c.id # v.id) \/ rest = {} THEN Idle
                   ELSE [Idle EXCEPT !.pc = "unlink", !.todo = rest]
  OBVIOUS
<1>5. /\ taker' = [taker EXCEPT ![t] = e] /\ backups' = {c \in backups : c.id # v.id}
      /\ UNCHANGED <<today, archive, snapshotTmp, remote, held, backupPast>>
  BY <1>1, <1>3, <1>4 DEF Unrows
<1>6. /\ e \in TakerType /\ e.path = NoPath /\ ~ e.up /\ e.pc \in {"idle", "unlink"}
      /\ e.todo \subseteq taker[t].todo /\ (e.todo # {} <=> e.pc = "unlink")
  <2>1. CASE e = Idle
    BY <2>1, ThenIs
  <2>2. CASE e = [Idle EXCEPT !.pc = "unlink", !.todo = rest] /\ rest # {}
    <3>1. Idle \in TakerType /\ Idle.path = NoPath /\ Idle.up = FALSE
      BY ThenIs
    <3>2. e \in TakerType /\ e.path = NoPath /\ ~ e.up /\ e.todo = rest /\ e.pc = "unlink"
      BY <2>2, <3>1 DEF TakerType, TakerPCs
    <3> QED
      BY <1>3, <2>2, <3>2
  <2> QED
    BY <1>4, <2>1, <2>2
<1>7. PrunerMoves(t, e)
  BY <1>2, <1>5, <1>6, BackupFacts DEF PrunerMoves, Makers
<1>8. /\ NoneBegins /\ BackupShape' /\ (\A u \in Takers : TakerOK(u)') /\ RowsOK' /\ IdsOK' /\ AloneOK'
      /\ (\A u \in Takers : MakingOK(u)') /\ TraceOK' /\ NoneBack' /\ NotUploaded'
      /\ taker'[t] = e /\ \A u \in Takers : u # t => taker'[u] = taker[u]
  BY <1>7, PrunerShape
<1>9. /\ Undisturbed' = Undisturbed
      /\ \A u \in Takers : taker'[u].pc = "unrow" => u # t /\ taker'[u] = taker[u] /\ NextVictim(u)' = NextVictim(u)
      /\ \A u \in Takers : u # t => NextVictim(u)' = NextVictim(u)
  BY <1>5, <1>6, <1>8 DEF Undisturbed, NextVictim
<1>10. \A k : Struck(k)' <=> Struck(k)
  BY <1>5 DEF Struck
<1>11. \A c \in backups : c.id = v.id => c = v
  BY <1>2 DEF BackupInv, IdsOK
<1>12. RowsStand'
  <2>1. SUFFICES ASSUME NEW c \in backups, c.id # v.id, c.path \in Undisturbed, ~ c.back, ~ Removing(c)',
                        ~ (c \in Victims' /\ Struck({"crash"}))
                 PROVE  /\ archive[c.path] = [of |-> c.made, state |-> "whole"]
                        /\ c.uploaded => remote[c.path] = [of |-> c.made, state |-> "whole"]
    BY <1>5, <1>9, <1>10 DEF RowsStand, RowStands
  <2>2. ~ Removing(c)
    <3>1. \A u \in Takers : taker[u].pc = "unrow" /\ NextVictim(u) = c => u # t
      BY <1>1, <2>1
    <3>2. \A u \in Takers : taker[u].pc = "unrow" /\ NextVictim(u) = c => taker'[u].pc = "unrow" /\ NextVictim(u)' = c
      BY <1>8, <1>9, <3>1
    <3> QED
      BY <2>1, <3>2 DEF Removing
  <2>3. c \in Victims => c \in Victims'
    <3>1. SUFFICES ASSUME Cardinality({b \in backups : b.id > c.id}) >= Keep
                   PROVE  Cardinality({b \in backups' : b.id > c.id}) >= Keep
      BY <1>5, <2>1 DEF Victims
    <3>2. c.id \in Nat
      BY BackupFacts, BackupFields
    <3> QED
      BY <1>2, <1>5, <3>1, <3>2, NewerStay
  <2> QED
    BY <2>1, <2>2, <2>3 DEF BackupInv, RowsStand, RowStands
<1>13. RemovedGone'
  BY <1>5, <1>9, <1>10 DEF BackupInv, RemovedGone
<1>14. ArchivesHaveRows'
  <2>1. SUFFICES ASSUME ~ Struck({"remove", "crash", "restore", "disk"}), NEW q \in Undisturbed,
                        "whole" \in {archive[q].state, remote[q].state}
                 PROVE  (\E b \in backups' : b.path = q) \/ \E u \in Takers : taker'[u].path = q
    BY <1>5, <1>9, <1>10 DEF ArchivesHaveRows
  <2>2. q \in Path /\ taker[t].path = NoPath /\ NoPath \notin Path
    BY <1>2, TakerFacts, BackupAssumption DEF Undisturbed, NoPath, Path, BackupAssumption
  <2>3. (\E b \in backups : b.path = q) \/ \E u \in Takers : taker[u].path = q
    BY <2>1, <2>2 DEF BackupInv, ArchivesHaveRows
  <2>4. v.path # q
    BY <1>1, <1>2, <2>1 DEF BackupInv, RemovedGone
  <2>5. \A u \in Takers : taker[u].path = q => taker'[u] = taker[u]
    BY <1>8, <2>2
  <2> QED
    BY <1>5, <1>11, <2>3, <2>4, <2>5
<1>15. NewestStay'
  <2>1. SUFFICES ASSUME NEW u \in Takers, NEW w \in taker'[u].todo
                 PROVE  Cardinality({b \in backups' : b.id > w.id}) >= Keep
    BY DEF NewestStay
  <2>2. w \in taker[u].todo
    BY <1>6, <1>8, <2>1
  <2>3. Cardinality({b \in backups : b.id > w.id}) >= Keep /\ w.id \in Nat
    BY <2>2, TakerFacts, BackupFields DEF BackupInv, NewestStay
  <2> QED
    BY <1>2, <1>5, <2>3, NewerStay
<1>16. DayOK'
  <2>1. SUFFICES ASSUME backupPast.faults = {}
                 PROVE  /\ \A b \in backups' : b.at <= today
                        /\ \A b, c \in backups' : b.id < c.id => b.at <= c.at
                        /\ backupPast.ticked /\ ~ Making(Keeper)' /\ backupPast.contested = {} =>
                               \E b \in backups' : b.at = today
    BY <1>5 DEF DayOK
  <2>2. /\ \A b \in backups : b.at <= today
        /\ \A b, c \in backups : b.id < c.id => b.at <= c.at
    BY <2>1 DEF BackupInv, DayOK
  <2>3. ASSUME backupPast.ticked, ~ Making(Keeper)', backupPast.contested = {}
        PROVE  \E b \in backups' : b.at = today
    <3>1. ~ Making(Keeper)
      BY <1>2, <1>8, <2>3, BackupFacts DEF Making
    <3>2. PICK r \in backups : r.at = today
      BY <2>1, <2>3, <3>1 DEF BackupInv, DayOK
    <3>3. CASE r.id # v.id
      BY <1>5, <3>2, <3>3
    <3>4. CASE r.id = v.id
      <4>1. PICK n : n = {b \in backups : b.id > v.id}
        OBVIOUS
      <4>2. Cardinality(n) >= Keep /\ n # {}
        BY <1>2, <4>1, FS_EmptySet, BackupFacts DEF BackupInv, NewestStay
      <4>3. PICK c \in backups : c.id > v.id
        BY <4>1, <4>2
      <4>4. c.id \in Nat /\ c.at \in Nat /\ today \in Nat
        BY <4>3, BackupFacts, BackupFields
      <4>5. c \in backups' /\ c.at = today
        BY <1>2, <1>5, <2>2, <3>2, <3>4, <4>3, <4>4
      <4> QED
        BY <4>5
    <3> QED
      BY <3>3, <3>4
  <2> QED
    BY <1>5, <2>2, <2>3
<1> QED
  BY <1>8, <1>12, <1>13, <1>14, <1>15, <1>16 DEF BackupInv

--------------------------------
\* A backup gets its row.

\* SQLite's next id is above every id, and there are not more rows than backups done.
LEMMA NextBackupId ==
    ASSUME BackupInv, NEW t \in Takers, Making(t), NEW i, i = Max({b.id : b \in backups} \cup {0}) + 1,
           NoneBegins, ~ Making(t)'
    PROVE  /\ i \in Made /\ i \in Nat /\ i <= Cardinality(Over') /\ \A b \in backups : b.id < i
<1>1. PICK ids : ids = {b.id : b \in backups} \cup {0}
  OBVIOUS
<1>2. ids \in SUBSET Nat /\ ids # {} /\ \A n \in ids : n <= Cardinality(Over)
  <2>1. \A b \in backups : b.id \in Nat /\ b.id <= Cardinality(Over)
    BY BackupFacts, BackupFields DEF BackupInv, RowsOK, RowOK
  <2>2. 0 <= Cardinality(Over)
    BY OverBound
  <2> QED
    BY <1>1, <2>1, <2>2
<1>3. Max(ids) \in ids /\ \A n \in ids : n <= Max(ids)
  BY <1>2, OverBound, MaxPicks
<1>4. i \in Nat /\ i <= Cardinality(Over) + 1 /\ i # 0 /\ \A b \in backups : b.id < i
  <2>1. i = Max(ids) + 1
    BY <1>1
  <2>2. PICK m : m = Max(ids)
    OBVIOUS
  <2>3. m \in Nat /\ m <= Cardinality(Over) /\ \A n \in ids : n \in Nat /\ n <= m
    BY <1>2, <1>3, <2>2
  <2>4. \A b \in backups : b.id \in ids
    BY <1>1
  <2>5. i = m + 1
    BY <2>1, <2>2
  <2>6. PICK c \in Nat : c = Cardinality(Over)
    BY OverBound
  <2>7. i \in Nat /\ i <= c + 1 /\ i # 0
    BY <2>3, <2>5, <2>6
  <2>8. \A b \in backups : b.id < i
    BY <2>3, <2>4, <2>5
  <2> QED
    BY <2>6, <2>7, <2>8
<1>5. taker[t].made \notin Over /\ taker[t].made \in 1 .. backupPast.made
  BY TakerFacts DEF Over
<1>6. taker[t].made \in Over' /\ Over \subseteq Over' /\ IsFiniteSet(Over')
  <2>1. \A u \in Takers : Making(u)' => taker'[u].made # taker[t].made
    <3>1. TAKE u \in Takers
    <3>2. SUFFICES ASSUME Making(u)', taker'[u].made = taker[t].made  PROVE FALSE
      OBVIOUS
    <3>3. Making(u) /\ taker[u].made = taker[t].made
      BY <3>2 DEF NoneBegins
    <3>4. u = t
      BY <3>3 DEF BackupInv, TakerOK
    <3> QED
      BY <3>2, <3>4
  <2>2. taker[t].made \in Over'
    BY <1>5, <2>1 DEF Over, NoneBegins
  <2> QED
    BY <2>2, RowsKeep
<1>7. PICK o : o = Over
  OBVIOUS
<1>8. PICK oo : oo = Over'
  OBVIOUS
<1>9. PICK m : m = taker[t].made
  OBVIOUS
<1>10. IsFiniteSet(o) /\ Cardinality(o) \in Nat /\ m \notin o /\ IsFiniteSet(oo) /\ (o \cup {m}) \in SUBSET oo
  BY <1>5, <1>6, <1>7, <1>8, <1>9, OverBound
<1>11. Cardinality(o \cup {m}) = Cardinality(o) + 1 /\ IsFiniteSet(o \cup {m})
  BY <1>10, FS_AddElement
<1>12. Cardinality(o \cup {m}) <= Cardinality(oo)
  BY <1>10, FS_Subset
<1>13. Cardinality(oo) \in Nat
  BY <1>10, FS_CardinalityType
<1>14. Cardinality(oo) <= backupPast.made
  <2>1. oo \in SUBSET (1 .. backupPast.made)
    BY <1>8 DEF Over, NoneBegins
  <2>2. backupPast.made \in Nat
    BY BackupFacts
  <2>3. /\ IsFiniteSet(1 .. backupPast.made)
        /\ Cardinality(1 .. backupPast.made) = IF 1 > backupPast.made THEN 0 ELSE backupPast.made - 1 + 1
    BY <2>2, FS_Interval
  <2>4. Cardinality(1 .. backupPast.made) = backupPast.made
    BY <2>2, <2>3
  <2> QED
    BY <2>1, <2>3, <2>4, FS_Subset
<1>15. i <= Cardinality(oo)
  BY <1>4, <1>7, <1>10, <1>11, <1>12, <1>13
<1>16. i \in Made
  BY <1>4, <1>13, <1>14, <1>15, BackupFacts DEF Made
<1> QED
  BY <1>4, <1>8, <1>15, <1>16

\* A row that is added is newer than none, or one more.
LEMMA NewerGrow ==
    ASSUME BackupInv, NEW x, NEW r, backups' = backups \cup {r},
           Cardinality({b \in backups : b.id > x}) >= Keep
    PROVE  Cardinality({b \in backups' : b.id > x}) >= Keep
<1>1. PICK a : a = {b \in backups : b.id > x}
  OBVIOUS
<1>2. PICK n : n = {b \in backups' : b.id > x}
  OBVIOUS
<1>3. IsFiniteSet(backups \cup {r})
  BY BackupFacts, FS_AddElement
<1>4. a \in SUBSET n /\ n \in SUBSET (backups \cup {r})
  BY <1>1, <1>2
<1>5. IsFiniteSet(n) /\ IsFiniteSet(a) /\ Cardinality(a) <= Cardinality(n)
  BY <1>3, <1>4, FS_Subset
<1>6. Cardinality(n) \in Nat /\ Cardinality(a) \in Nat
  BY <1>5, FS_CardinalityType
<1> QED
  BY <1>1, <1>2, <1>5, <1>6, BackupFacts

LEMMA RecordsKeeps == ASSUME BackupInv, NEW t \in Takers, Records(t)  PROVE BackupInv'
<1>1. PICK p : p = taker[t].path
  OBVIOUS
<1>2. PICK i : i = Max({b.id : b \in backups} \cup {0}) + 1
  OBVIOUS
<1>3. PICK r : r = [id |-> i, path |-> p, uploaded |-> taker[t].up, at |-> today, made |-> taker[t].made, back |-> FALSE]
  OBVIOUS
<1>4. PICK e \in TakerType : e = Then(t)
  BY ThenIs
<1>5. /\ taker[t].pc = "row" /\ Making(t) /\ p \in Path /\ p \in backupPast.chosen /\ taker[t].todo = {}
      /\ taker[t].made \in Made /\ taker[t].up \in BOOLEAN
  BY <1>1, TakerFacts DEF Records, Making, Makers
<1>6. /\ backups' = backups \cup {r} /\ snapshotTmp' = snapshotTmp \ {p} /\ taker' = [taker EXCEPT ![t] = e]
      /\ UNCHANGED <<today, archive, remote, held, backupPast>>
  BY <1>1, <1>2, <1>3, <1>4 DEF Records
<1>7. /\ e.pc \in {"idle", "list"} /\ e.pc \notin Makers /\ e.path = NoPath /\ e.todo = {} /\ ~ e.up
      /\ taker'[t] = e /\ \A u \in Takers : u # t => taker'[u] = taker[u]
  BY <1>4, <1>6, ThenIs, BackupFacts
<1>8. NoneBegins /\ ~ Making(t)' /\ \A u \in Takers : Making(u)' => u # t /\ taker'[u] = taker[u]
  <2>1. ~ Making(t)' /\ \A u \in Takers : Making(u)' => u # t /\ taker'[u] = taker[u]
    BY <1>7 DEF Making
  <2>2. \A u \in Takers : Making(u)' => Making(u)
    BY <2>1 DEF Making
  <2> QED
    BY <1>6, <2>1, <2>2 DEF NoneBegins
<1>9. i \in Made /\ i \in Nat /\ i <= Cardinality(Over') /\ \A b \in backups : b.id < i
  BY <1>2, <1>5, <1>8, NextBackupId
<1>10. r \in Backup /\ r.id = i /\ r.path = p /\ r.uploaded = taker[t].up /\ r.at = today
       /\ r.made = taker[t].made /\ r.back = FALSE
  BY <1>3, <1>5, <1>9, BackupFacts DEF Backup
<1>11. /\ Undisturbed' = Undisturbed /\ (\A k : Struck(k)' <=> Struck(k))
       /\ \A u \in Takers : taker'[u].todo = taker[u].todo /\ NextVictim(u)' = NextVictim(u)
                            /\ (taker'[u].pc = "unrow" <=> taker[u].pc = "unrow")
  BY <1>5, <1>6, <1>7 DEF Undisturbed, Struck, NextVictim
<1>12. p \in Undisturbed =>
           /\ archive[p] = [of |-> taker[t].made, state |-> "whole"]
           /\ IF taker[t].up THEN remote[p] = [of |-> taker[t].made, state |-> "whole"] ELSE remote[p].state = "none"
           /\ \A u \in Takers : Making(u) /\ taker[u].path = p => u = t
  BY <1>1, <1>5 DEF BackupInv, MakingOK, AsMade
<1>13. BackupShape'
  <2>1. IsFiniteSet(backups')
    BY <1>6, BackupFacts, FS_AddElement
  <2>2. taker' \in [Takers -> TakerType] /\ snapshotTmp' \subseteq Path
    BY <1>6, BackupFacts
  <2> QED
    BY <1>6, <1>10, <2>1, <2>2, BackupFacts DEF BackupShape
<1>14. \A u \in Takers : TakerOK(u)'
  <2>1. TAKE u \in Takers
  <2>2. CASE u # t
    <3>1. taker'[u] = taker[u] /\ TakerOK(u)
      BY <1>7, <2>2 DEF BackupInv
    <3>2. \A v \in Takers : Making(v)' /\ Making(u)' /\ taker'[v].made = taker'[u].made => v = u
      BY <1>8 DEF NoneBegins, BackupInv, TakerOK
    <3> QED
      BY <1>6, <3>1, <3>2 DEF TakerOK, Making
  <2>3. CASE u = t
    BY <1>7, <1>8, <2>3 DEF TakerOK
  <2> QED
    BY <2>2, <2>3
<1>15. RowsOK'
  <2>1. \A b \in Backup : RowOK(b) => RowOK(b)'
    BY <1>8, RowsKeep
  <2>2. RowOK(r)'
    <3>1. r.path \in Undisturbed' => \A u \in Takers : Making(u)' => taker'[u].path # r.path
      BY <1>8, <1>10, <1>11, <1>12 DEF NoneBegins
    <3> QED
      BY <1>5, <1>6, <1>9, <1>10, <3>1 DEF RowOK
  <2>3. \A b \in backups : RowOK(b)'
    BY <2>1, BackupFacts DEF BackupInv, RowsOK
  <2>4. \A m \in Made : \A b \in held[m] : RowOK(b)'
    BY <2>1, BackupFacts DEF BackupInv, RowsOK
  <2>5. \A u \in Takers : \A b \in taker[u].todo : RowOK(b)'
    BY <2>1, TakerFacts DEF BackupInv, RowsOK
  <2> QED
    BY <1>6, <1>11, <2>2, <2>3, <2>4, <2>5 DEF RowsOK
<1>16. \A u \in Takers : \A v \in taker[u].todo : v.id < i
  <2>1. SUFFICES ASSUME NEW u \in Takers, NEW v \in taker[u].todo  PROVE v.id < i
    OBVIOUS
  <2>2. PICK n : n = {b \in backups : b.id > v.id}
    OBVIOUS
  <2>3. Cardinality(n) >= Keep /\ n # {}
    BY <2>1, <2>2, FS_EmptySet, BackupFacts DEF BackupInv, NewestStay
  <2>4. PICK c \in backups : c.id > v.id
    BY <2>2, <2>3
  <2>5. c.id \in Nat /\ v.id \in Nat
    BY <2>1, <2>4, TakerFacts, BackupFacts, BackupFields
  <2> QED
    BY <1>9, <2>4, <2>5
<1>17. IdsOK'
  <2>1. OneOfEach(backups')
    BY <1>6, <1>9, <1>10, BackupFacts, BackupFields DEF BackupInv, IdsOK, OneOfEach
  <2>2. \A u \in Takers : \A v \in taker'[u].todo : \A c \in backups' : c.id = v.id => c = v
    BY <1>6, <1>9, <1>10, <1>11, <1>16, TakerFacts, BackupFields DEF BackupInv, IdsOK
  <2>3. \A m \in Made : OneOfEach(held'[m])
    BY <1>6 DEF BackupInv, IdsOK
  <2> QED
    BY <2>1, <2>2, <2>3 DEF IdsOK, OneOfEach
<1>18. /\ \A b \in backups : b.path \in Undisturbed => b.path # p
       /\ \A u \in Takers : \A v \in taker[u].todo : v.path \in Undisturbed => v.path # p
  BY <1>1, <1>5 DEF BackupInv, RowsOK, RowOK
<1>19. AloneOK'
  <2>1. SUFFICES ASSUME NEW b \in backups', b.path \in Undisturbed, ~ b.back
                 PROVE  /\ \A c \in backups' : c.path = b.path => c = b
                        /\ \A u \in Takers : \A v \in taker[u].todo : v.path = b.path => v = b
    BY <1>11 DEF AloneOK
  <2>2. CASE b = r
    BY <1>6, <1>10, <1>18, <2>1, <2>2
  <2>3. CASE b \in backups
    BY <1>6, <1>10, <1>18, <2>1, <2>3 DEF BackupInv, AloneOK
  <2> QED
    BY <1>6, <2>2, <2>3
<1>20. \A u \in Takers : MakingOK(u)'
  <2>1. SUFFICES ASSUME NEW u \in Takers, Making(u)', taker'[u].path \in Undisturbed
                 PROVE  /\ AsMade(u, taker[u].path, taker[u].made)'
                        /\ \A v \in Takers : Making(v)' /\ taker'[v].path = taker'[u].path => v = u
    BY <1>11 DEF MakingOK
  <2>2. Making(u) /\ taker'[u] = taker[u]
    BY <1>8, <2>1 DEF NoneBegins
  <2>3. AsMade(u, taker[u].path, taker[u].made)
        /\ \A v \in Takers : Making(v) /\ taker[v].path = taker[u].path => v = u
    BY <2>1, <2>2 DEF BackupInv, MakingOK
  <2>4. \A v \in Takers : Making(v)' /\ taker'[v].path = taker'[u].path => v = u
    BY <1>8, <2>2, <2>3 DEF NoneBegins
  <2> QED
    BY <1>6, <2>2, <2>3, <2>4 DEF AsMade
<1>21. TraceOK'
  BY <1>6 DEF BackupInv, TraceOK
<1>22. RowsStand'
  <2>1. SUFFICES ASSUME NEW b \in backups', b.path \in Undisturbed, ~ b.back, ~ Removing(b)',
                        ~ (b \in Victims' /\ Struck({"crash"}))
                 PROVE  /\ archive[b.path] = [of |-> b.made, state |-> "whole"]
                        /\ b.uploaded => remote[b.path] = [of |-> b.made, state |-> "whole"]
    BY <1>6, <1>11 DEF RowsStand, RowStands
  <2>2. CASE b = r
    BY <1>10, <1>12, <2>1, <2>2
  <2>3. CASE b \in backups
    <3>1. ~ Removing(b)
      BY <1>11, <2>1 DEF Removing
    <3>2. b \in Victims => b \in Victims'
      <4>1. SUFFICES ASSUME Cardinality({c \in backups : c.id > b.id}) >= Keep
                     PROVE  Cardinality({c \in backups' : c.id > b.id}) >= Keep
        BY <2>1 DEF Victims
      <4> QED
        BY <1>6, <1>10, <4>1, NewerGrow
    <3> QED
      BY <2>1, <2>3, <3>1, <3>2 DEF BackupInv, RowsStand, RowStands
  <2> QED
    BY <1>6, <2>2, <2>3
<1>23. NoneBack'
  BY <1>6, <1>10, <1>11 DEF BackupInv, NoneBack
<1>24. NotUploaded'
  <2>1. r.path \in Undisturbed /\ ~ r.uploaded => remote[r.path].state = "none"
    BY <1>10, <1>12
  <2> QED
    BY <1>6, <1>11, <2>1 DEF BackupInv, NotUploaded
<1>25. RemovedGone'
  BY <1>6, <1>11 DEF BackupInv, RemovedGone
<1>26. ArchivesHaveRows'
  <2>1. SUFFICES ASSUME ~ Struck({"remove", "crash", "restore", "disk"}), NEW q \in Undisturbed,
                        "whole" \in {archive[q].state, remote[q].state}
                 PROVE  (\E b \in backups' : b.path = q) \/ \E u \in Takers : taker'[u].path = q
    BY <1>6, <1>11 DEF ArchivesHaveRows
  <2>2. (\E b \in backups : b.path = q) \/ \E u \in Takers : taker[u].path = q
    BY <2>1 DEF BackupInv, ArchivesHaveRows, Undisturbed
  <2> QED
    BY <1>1, <1>6, <1>7, <1>10, <2>2
<1>27. NewestStay'
  <2>1. SUFFICES ASSUME NEW u \in Takers, NEW v \in taker[u].todo
                 PROVE  Cardinality({b \in backups' : b.id > v.id}) >= Keep
    BY <1>11 DEF NewestStay
  <2>2. Cardinality({b \in backups : b.id > v.id}) >= Keep
    BY DEF BackupInv, NewestStay
  <2> QED
    BY <1>6, <1>10, <2>2, NewerGrow
<1>28. DayOK'
  <2>1. SUFFICES ASSUME backupPast.faults = {}
                 PROVE  /\ \A b \in backups' : b.at <= today
                        /\ \A b, c \in backups' : b.id < c.id => b.at <= c.at
                        /\ \E b \in backups' : b.at = today
    BY <1>6 DEF DayOK
  <2>2. /\ \A b \in backups : b.at <= today
        /\ \A b, c \in backups : b.id < c.id => b.at <= c.at
        /\ today \in Nat
    BY <2>1, BackupFacts DEF BackupInv, DayOK
  <2>3. \A b \in backups : ~ (i < b.id)
    BY <1>9, BackupFacts, BackupFields
  <2> QED
    BY <1>6, <1>9, <1>10, <2>2, <2>3
<1> QED
  BY <1>13, <1>14, <1>15, <1>17, <1>19, <1>20, <1>21, <1>22, <1>23, <1>24, <1>25, <1>26, <1>27, <1>28 DEF BackupInv

--------------------------------
\* A backup begins.

\* The second has a name that no file has.
LEMMA FreeName ==
    ASSUME BackupInv, backupPast.made < MaxMade
    PROVE  FreePath \in Path /\ archive[FreePath].state = "none" /\ FreePath.day = today
<1>1. PICK f : f = [n \in Made |-> [day |-> today, n |-> n]]
  OBVIOUS
<1>2. \A n \in Made : f[n] \in Path /\ f[n].n = n
  BY <1>1, BackupFacts DEF Path, Made
<1>3. \E n \in Made : archive[f[n]].state = "none"
  <2>1. SUFFICES ASSUME \A n \in Made : archive[f[n]].state # "none"  PROVE FALSE
    OBVIOUS
  <2>2. \A n \in Made : f[n] \in backupPast.chosen
    BY <1>2, <2>1 DEF BackupInv, TraceOK
  <2>3. PICK S : S = backupPast.chosen
    OBVIOUS
  <2>4. f \in Injection(Made, S)
    BY <1>1, <1>2, <2>2, <2>3 DEF Injection, IsInjective
  <2>5. IsFiniteSet(S) /\ Cardinality(S) <= backupPast.made
    BY <2>3, BackupFacts
  <2>6. Cardinality(Made) <= Cardinality(S)
    BY <2>4, <2>5, FS_Injection
  <2>7. Cardinality(Made) = MaxMade
    BY BackupFacts, FS_Interval DEF Made
  <2>8. Cardinality(S) \in Nat
    BY <2>5, FS_CardinalityType
  <2> QED
    BY <2>5, <2>6, <2>7, <2>8, BackupFacts
<1>4. PICK S : S = {n \in Made : archive[[day |-> today, n |-> n]].state = "none"}
  OBVIOUS
<1>5. S \in SUBSET Nat /\ S # {}
  BY <1>1, <1>3, <1>4 DEF Made
<1>6. Min(S) \in S
  BY <1>5, MinPicks
<1>7. FreePath = f[Min(S)]
  BY <1>1, <1>4, <1>6 DEF FreePath
<1>8. archive[f[Min(S)]].state = "none" /\ Min(S) \in Made /\ f[Min(S)].day = today
  BY <1>1, <1>4, <1>6
<1> QED
  BY <1>2, <1>7, <1>8

LEMMA BeginsKeeps ==
    ASSUME BackupInv, NEW t \in Takers, NEW upload \in BOOLEAN, taker[t].pc = "idle",
           t = Keeper \/ backupPast.calls < MaxAdminCalls, Begins(t, upload)
    PROVE  BackupInv'
<1>1. PICK p : p = FreePath
  OBVIOUS
<1>2. PICK m : m = backupPast.made + 1
  OBVIOUS
<1>3. backupPast.made < MaxMade /\ p \in Path /\ archive[p].state = "none" /\ m \in 1 .. MaxMade /\ m \in Nat
  BY <1>1, <1>2, FreeName, BackupFacts DEF Begins
<1>4. PICK e : e = [Idle EXCEPT !.pc = "open", !.path = p, !.made = m, !.upload = upload]
  OBVIOUS
<1>5. e \in TakerType /\ e.pc = "open" /\ e.path = p /\ e.made = m /\ e.todo = {} /\ ~ e.up
  <2>1. Idle \in TakerType /\ Idle.todo = {} /\ Idle.up = FALSE
    BY ThenIs
  <2>2. "open" \in TakerPCs /\ m \in 0 .. MaxMade
    BY <1>3, BackupFacts DEF TakerPCs
  <2> QED
    BY <1>3, <1>4, <2>1, <2>2 DEF TakerType
<1>6. /\ backupPast'.made = m /\ backupPast'.chosen = backupPast.chosen \cup {p}
      /\ backupPast'.contested = backupPast.contested \cup (backupPast.chosen \cap {p})
      /\ backupPast'.faults = backupPast.faults
      /\ backupPast'.ticked = (backupPast.ticked \/ t = Keeper)
      /\ backupPast'.calls = (IF t = Keeper THEN backupPast.calls ELSE backupPast.calls + 1)
      /\ DOMAIN backupPast' = DOMAIN backupPast
  BY <1>1, <1>2, BackupFacts DEF Begins, PastType
<1>7. /\ taker' = [taker EXCEPT ![t] = e]
      /\ UNCHANGED <<today, archive, snapshotTmp, remote, backups, held>>
  BY <1>1, <1>2, <1>4 DEF Begins
<1>8. taker'[t] = e /\ (\A u \in Takers : u # t => taker'[u] = taker[u]) /\ ~ Making(t) /\ taker[t].todo = {} /\ Making(t)'
  BY <1>5, <1>7, TakerFacts, BackupFacts DEF Making, Makers
<1>9. /\ \A q \in Undisturbed' : q \in Undisturbed /\ q \in Path
      /\ p \in Undisturbed' => p \notin backupPast.chosen
      /\ \A k : Struck(k)' <=> Struck(k)
      /\ \A u \in Takers : taker'[u].todo = taker[u].todo /\ NextVictim(u)' = NextVictim(u)
                           /\ (taker'[u].pc = "unrow" <=> taker[u].pc = "unrow")
  <2>1. \A u \in Takers : taker'[u].todo = taker[u].todo /\ (taker'[u].pc = "unrow" <=> taker[u].pc = "unrow")
    BY <1>5, <1>8
  <2> QED
    BY <1>6, <2>1 DEF Undisturbed, Struck, NextVictim
<1>10. BackupShape'
  <2>1. backupPast' \in PastType
    <3>1. backupPast'.chosen \subseteq Path /\ backupPast'.contested \subseteq Path
      BY <1>3, <1>6, BackupFacts
    <3>2. backupPast'.calls \in 0 .. MaxAdminCalls
      BY <1>6, BackupFacts
    <3>3. backupPast'.made \in 0 .. MaxMade /\ backupPast'.faults \subseteq BackupFaults /\ backupPast'.ticked \in BOOLEAN
      BY <1>3, <1>6, BackupFacts
    <3>4. backupPast' = [chosen |-> backupPast'.chosen, contested |-> backupPast'.contested, made |-> backupPast'.made,
                         calls |-> backupPast'.calls, faults |-> backupPast'.faults, ticked |-> backupPast'.ticked]
      BY BackupFacts DEF Begins, PastType
    <3> QED
      BY <3>1, <3>2, <3>3, <3>4 DEF PastType
  <2>2. IsFiniteSet(backupPast'.chosen) /\ Cardinality(backupPast'.chosen) <= backupPast'.made
    <3>1. PICK S : S = backupPast.chosen
      OBVIOUS
    <3>2. IsFiniteSet(S) /\ Cardinality(S) <= backupPast.made
      BY <3>1, BackupFacts
    <3>3. IsFiniteSet(S \cup {p}) /\ Cardinality(S \cup {p}) = IF p \in S THEN Cardinality(S) ELSE Cardinality(S) + 1
      BY <3>2, FS_AddElement
    <3>4. Cardinality(S) \in Nat
      BY <3>2, FS_CardinalityType
    <3>5. Cardinality(S \cup {p}) <= backupPast.made + 1
      BY <3>2, <3>3, <3>4, BackupFacts
    <3> QED
      BY <1>2, <1>6, <3>1, <3>3, <3>5
  <2>3. taker' \in [Takers -> TakerType]
    BY <1>5, <1>7, BackupFacts
  <2> QED
    BY <1>7, <2>1, <2>2, <2>3, BackupFacts DEF BackupShape
<1>11. \A u \in Takers : Making(u) => /\ u # t /\ taker'[u] = taker[u] /\ taker[u].made \in 1 .. backupPast.made
                                      /\ taker[u].path \in backupPast.chosen
  BY <1>8, TakerFacts
<1>12. \A u \in Takers : Making(u)' => u = t \/ (Making(u) /\ taker'[u] = taker[u])
  BY <1>8 DEF Making
<1>13. \A u \in Takers : TakerOK(u)'
  <2>1. TAKE u \in Takers
  <2>2. ASSUME NEW v \in Takers, Making(v)', Making(u)', taker'[v].made = taker'[u].made  PROVE v = u
    <3>1. CASE u = t /\ v # t
      <4>1. taker'[u].made = m /\ taker'[v].made \in 1 .. backupPast.made
        BY <1>5, <1>8, <1>11, <1>12, <2>2, <3>1
      <4> QED
        BY <1>2, <2>2, <4>1, BackupFacts
    <3>2. CASE v = t /\ u # t
      <4>1. taker'[v].made = m /\ taker'[u].made \in 1 .. backupPast.made
        BY <1>5, <1>8, <1>11, <1>12, <2>2, <3>2
      <4> QED
        BY <1>2, <2>2, <4>1, BackupFacts
    <3>3. CASE v # t /\ u # t
      BY <1>12, <2>2, <3>3 DEF BackupInv, TakerOK
    <3> QED
      BY <3>1, <3>2, <3>3
  <2>3. CASE u = t
    <3>1. taker'[u] = e /\ m \in 1 .. m
      BY <1>3, <1>8, <2>3
    <3> QED
      BY <1>5, <1>6, <1>8, <2>2, <2>3, <3>1 DEF TakerOK
  <2>4. CASE u # t
    <3>1. taker'[u] = taker[u] /\ TakerOK(u)
      BY <1>8, <2>4 DEF BackupInv
    <3>2. Making(u)' => taker'[u].path \in backupPast'.chosen /\ taker'[u].made \in 1 .. backupPast'.made
      BY <1>2, <1>6, <1>11, <1>12, <2>4, BackupFacts
    <3> QED
      BY <2>2, <3>1, <3>2 DEF TakerOK, Making
  <2> QED
    BY <2>3, <2>4
<1>14. RowsOK'
  <2>1. Over' = Over
    <3>1. \A n \in 1 .. m : n \in 1 .. backupPast.made \/ n = m
      BY <1>2, BackupFacts
    <3>2. \A n \in 1 .. backupPast.made : n \in 1 .. m /\ n # m
      BY <1>2, BackupFacts
    <3>3. m \notin Over'
      BY <1>5, <1>8 DEF Over
    <3>4. ASSUME NEW n \in 1 .. backupPast.made
          PROVE  (\A u \in Takers : Making(u)' => taker'[u].made # n) <=> (\A u \in Takers : Making(u) => taker[u].made # n)
      <4>1. taker'[t].made # n
        BY <1>5, <1>8, <3>2
      <4>2. \A u \in Takers : Making(u) => Making(u)'
        BY <1>11 DEF Making
      <4> QED
        BY <1>11, <1>12, <4>1, <4>2
    <3>5. \A n : n \in Over' <=> n \in Over
      BY <1>6, <3>1, <3>2, <3>3, <3>4 DEF Over
    <3>6. Over' \subseteq Over /\ Over \subseteq Over'
      BY <3>5
    <3> QED
      BY <3>6
  <2>2. ASSUME NEW b \in Backup, RowOK(b)  PROVE RowOK(b)'
    <3>1. ASSUME b.path \in Undisturbed', NEW u \in Takers, Making(u)'  PROVE taker'[u].path # b.path
      BY <1>5, <1>8, <1>9, <1>12, <2>2, <3>1 DEF RowOK
    <3> QED
      BY <1>6, <2>1, <2>2, <3>1 DEF RowOK
  <2>3. \A b \in backups : RowOK(b)'
    BY <2>2, BackupFacts DEF BackupInv, RowsOK
  <2>4. \A n \in Made : \A b \in held[n] : RowOK(b)'
    BY <2>2, BackupFacts DEF BackupInv, RowsOK
  <2>5. \A u \in Takers : \A b \in taker[u].todo : RowOK(b)'
    BY <2>2, TakerFacts DEF BackupInv, RowsOK
  <2> QED
    BY <1>7, <1>9, <2>3, <2>4, <2>5 DEF RowsOK
<1>15. IdsOK'
  BY <1>7, <1>9 DEF BackupInv, IdsOK, OneOfEach
<1>16. AloneOK'
  BY <1>7, <1>9 DEF BackupInv, AloneOK
<1>17. \A u \in Takers : MakingOK(u)'
  <2>1. SUFFICES ASSUME NEW u \in Takers, Making(u)', taker'[u].path \in Undisturbed'
                 PROVE  /\ AsMade(u, taker[u].path, taker[u].made)'
                        /\ \A v \in Takers : Making(v)' /\ taker'[v].path = taker'[u].path => v = u
    BY DEF MakingOK
  <2>2. CASE u = t
    <3>1. p \notin backupPast.chosen /\ taker'[u] = e
      BY <1>5, <1>8, <1>9, <2>1, <2>2
    <3>2. remote[p].state = "none" /\ p \notin snapshotTmp
      BY <1>3, <3>1 DEF BackupInv, TraceOK
    <3>3. \A v \in Takers : Making(v)' /\ taker'[v].path = taker'[u].path => v = u
      BY <1>5, <1>11, <1>12, <2>2, <3>1
    <3> QED
      BY <1>3, <1>5, <1>7, <3>1, <3>2, <3>3 DEF AsMade
  <2>3. CASE u # t
    <3>1. Making(u) /\ taker'[u] = taker[u] /\ taker[u].path \in Undisturbed
      BY <1>9, <1>12, <2>1, <2>3
    <3>2. AsMade(u, taker[u].path, taker[u].made)
          /\ \A v \in Takers : Making(v) /\ taker[v].path = taker[u].path => v = u
      BY <3>1 DEF BackupInv, MakingOK
    <3>3. taker'[t].path # taker'[u].path
      BY <1>5, <1>8, <1>9, <1>11, <2>1, <3>1
    <3>4. \A v \in Takers : Making(v)' /\ taker'[v].path = taker'[u].path => v = u
      BY <1>12, <3>1, <3>2, <3>3
    <3> QED
      BY <1>7, <3>1, <3>2, <3>4 DEF AsMade
  <2> QED
    BY <2>2, <2>3
<1>18. TraceOK'
  BY <1>6, <1>7 DEF BackupInv, TraceOK
<1>19. RowsStand'
  <2>1. Victims' = Victims
    BY <1>7 DEF Victims
  <2>2. \A b : Removing(b)' <=> Removing(b)
    BY <1>9 DEF Removing
  <2>3. ASSUME NEW b \in backups  PROVE RowStands(b)'
    BY <1>7, <1>9, <2>1, <2>2 DEF BackupInv, RowsStand, RowStands
  <2> QED
    BY <1>7, <2>3 DEF RowsStand
<1>20. NoneBack'
  BY <1>7, <1>9 DEF BackupInv, NoneBack
<1>21. NotUploaded'
  BY <1>7, <1>9 DEF BackupInv, NotUploaded
<1>22. RemovedGone'
  BY <1>7, <1>9 DEF BackupInv, RemovedGone
<1>23. ArchivesHaveRows'
  <2>1. SUFFICES ASSUME ~ Struck({"remove", "crash", "restore", "disk"}), NEW q \in Undisturbed',
                        "whole" \in {archive[q].state, remote[q].state}
                 PROVE  (\E b \in backups : b.path = q) \/ \E u \in Takers : taker'[u].path = q
    BY <1>7, <1>9 DEF ArchivesHaveRows
  <2>2. q \in Path /\ NoPath \notin Path /\ taker[t].path = NoPath
    BY <1>8, <1>9, TakerFacts, BackupAssumption DEF NoPath, Path, BackupAssumption
  <2>3. (\E b \in backups : b.path = q) \/ \E u \in Takers : taker[u].path = q
    BY <1>9, <2>1, <2>2 DEF BackupInv, ArchivesHaveRows
  <2> QED
    BY <1>8, <2>2, <2>3
<1>24. NewestStay'
  BY <1>7, <1>9 DEF BackupInv, NewestStay
<1>25. DayOK'
  <2>1. backupPast'.ticked /\ ~ Making(Keeper)' /\ backupPast'.contested = {} =>
            backupPast.ticked /\ ~ Making(Keeper) /\ backupPast.contested = {}
    <3>1. CASE t = Keeper
      BY <1>8, <3>1
    <3>2. CASE t # Keeper
      BY <1>6, <1>11, <3>2, BackupFacts DEF Making
    <3> QED
      BY <3>1, <3>2
  <2> QED
    BY <1>6, <1>7, <2>1 DEF BackupInv, DayOK
<1> QED
  BY <1>10, <1>13, <1>14, <1>15, <1>16, <1>17, <1>18, <1>19, <1>20, <1>21, <1>22, <1>23, <1>24, <1>25 DEF BackupInv

--------------------------------
\* Time and disasters, and the theorems about backups.

\* Only the clock and what is remembered of it change.
LEMMA StillKeeps ==
    ASSUME BackupInv, UNCHANGED <<archive, snapshotTmp, remote, backups, held, taker>>, today' \in 0 .. MaxTime,
           backupPast' \in PastType,
           backupPast'.chosen = backupPast.chosen, backupPast'.contested = backupPast.contested,
           backupPast'.made = backupPast.made, backupPast'.faults = backupPast.faults, DayOK'
    PROVE  BackupInv'
<1>1. Undisturbed' = Undisturbed /\ (\A k : Struck(k)' <=> Struck(k)) /\ Victims' = Victims /\ Over' = Over
  BY DEF Undisturbed, Struck, Victims, Over, Making
<1>2. \A t \in Takers : (Making(t)' <=> Making(t)) /\ NextVictim(t)' = NextVictim(t)
  BY DEF Making, NextVictim
<1>3. BackupShape'
  BY BackupFacts DEF BackupShape
<1>4. \A t \in Takers : TakerOK(t)'
  BY <1>2 DEF BackupInv, TakerOK
<1>5. \A b : RowOK(b) => RowOK(b)'
  BY <1>1, <1>2 DEF RowOK
<1>6. RowsOK' /\ IdsOK' /\ AloneOK'
  BY <1>1, <1>5 DEF BackupInv, RowsOK, IdsOK, OneOfEach, AloneOK
<1>7. (\A t \in Takers : MakingOK(t)') /\ TraceOK'
  BY <1>1, <1>2 DEF BackupInv, MakingOK, AsMade, TraceOK
<1>8. RowsStand'
  <2>1. \A b : Removing(b)' <=> Removing(b)
    BY <1>2 DEF Removing
  <2> QED
    BY <1>1, <2>1 DEF BackupInv, RowsStand, RowStands
<1>9. NoneBack' /\ NotUploaded' /\ RemovedGone' /\ ArchivesHaveRows' /\ NewestStay'
  BY <1>1, <1>2 DEF BackupInv, NoneBack, NotUploaded, RemovedGone, ArchivesHaveRows, NewestStay
<1> QED
  BY <1>3, <1>4, <1>6, <1>7, <1>8, <1>9 DEF BackupInv

LEMMA ScheduleTicksKeeps == ASSUME BackupInv, ScheduleTicks  PROVE BackupInv'
<1>1. taker[Keeper].pc = "idle" /\ Keeper \in Takers /\ ~ backupPast.ticked
  BY BackupFacts DEF ScheduleTicks
<1>2. CASE \E b \in backups : b.id = Max({c.id : c \in backups}) /\ b.at = today
  <2>1. /\ backupPast' = [backupPast EXCEPT !.ticked = TRUE]
        /\ UNCHANGED <<today, archive, snapshotTmp, remote, backups, held, taker>>
    BY <1>2 DEF ScheduleTicks
  <2>2. /\ backupPast' \in PastType
        /\ backupPast'.chosen = backupPast.chosen /\ backupPast'.contested = backupPast.contested
        /\ backupPast'.made = backupPast.made /\ backupPast'.faults = backupPast.faults
    BY <2>1, BackupFacts DEF PastType
  <2>3. \E b \in backups' : b.at = today'
    BY <1>2, <2>1
  <2>4. DayOK'
    BY <2>1, <2>2, <2>3 DEF BackupInv, DayOK
  <2> QED
    BY <2>1, <2>2, <2>4, StillKeeps, BackupFacts
<1>3. CASE ~ \E b \in backups : b.id = Max({c.id : c \in backups}) /\ b.at = today
  <2>1. Begins(Keeper, TRUE)
    BY <1>3 DEF ScheduleTicks
  <2> QED
    BY <1>1, <2>1, BeginsKeeps
<1> QED
  BY <1>2, <1>3

LEMMA DayTurnsKeeps == ASSUME BackupInv, DayTurns  PROVE BackupInv'
<1>1. /\ today' = today + 1 /\ today' \in 0 .. MaxTime /\ backupPast' = [backupPast EXCEPT !.ticked = FALSE]
      /\ UNCHANGED <<archive, snapshotTmp, remote, backups, held, taker>>
  BY BackupFacts DEF DayTurns
<1>2. /\ backupPast' \in PastType
      /\ backupPast'.chosen = backupPast.chosen /\ backupPast'.contested = backupPast.contested
      /\ backupPast'.made = backupPast.made /\ backupPast'.faults = backupPast.faults
      /\ backupPast'.ticked = FALSE
  BY <1>1, BackupFacts DEF PastType
<1>3. DayOK'
  <2>1. \A b \in backups : b.at <= today => b.at <= today + 1
    BY BackupFacts, BackupFields
  <2> QED
    BY <1>1, <1>2, <2>1 DEF BackupInv, DayOK
<1> QED
  BY <1>1, <1>2, <1>3, StillKeeps

\* The server stops, and the database is as it was, empty, or an older one.
StartsAgain ==
    /\ taker' = [t \in Takers |-> Idle] /\ UNCHANGED <<today, remote, held>>
    /\ backups' \subseteq Backup /\ IsFiniteSet(backups') /\ OneOfEach(backups')
    /\ \A b \in backups' : RowOK(b)
    /\ archive' \in [Path -> FileType] /\ snapshotTmp' \subseteq snapshotTmp
    /\ \A q \in Path : archive'[q].state # "none" => archive'[q] = archive[q]
    /\ backupPast' \in PastType
    /\ backupPast'.chosen = backupPast.chosen /\ backupPast'.contested = backupPast.contested
    /\ backupPast'.made = backupPast.made
    /\ backupPast'.faults \cap {"crash", "disk", "restore"} # {}
    /\ backupPast.faults \subseteq backupPast'.faults

LEMMA StartsAgainKeeps ==
    ASSUME BackupInv, StartsAgain,
           \/ backups' = {}
           \/ "restore" \in backupPast'.faults /\ \A b \in backups' : b.back
           \/ backups' = backups /\ archive' = archive /\ "crash" \in backupPast'.faults
    PROVE  BackupInv'
<1>1. \A t \in Takers : taker'[t] = Idle /\ ~ Making(t)' /\ taker'[t].todo = {} /\ taker'[t].path = NoPath
                        /\ taker'[t].pc = "idle" /\ ~ taker'[t].up
  BY ThenIs DEF StartsAgain, Making, Makers
<1>2. NoneBegins
  BY <1>1 DEF StartsAgain, NoneBegins
<1>3. /\ Undisturbed' = Undisturbed /\ backupPast'.faults # {}
      /\ \A k : Struck(k) => Struck(k)'
  BY DEF StartsAgain, Undisturbed, Struck
<1>4. BackupShape'
  <2>1. taker' \in [Takers -> TakerType]
    BY ThenIs DEF StartsAgain
  <2> QED
    BY <2>1, BackupFacts DEF StartsAgain, BackupShape
<1>5. \A t \in Takers : TakerOK(t)'
  BY <1>1 DEF TakerOK
<1>6. RowsOK'
  <2>1. \A b \in Backup : RowOK(b) => RowOK(b)'
    BY <1>2, RowsKeep
  <2>2. \A b \in backups' : RowOK(b)'
    BY <2>1 DEF StartsAgain
  <2>3. \A m \in Made : \A b \in held[m] : RowOK(b)'
    BY <2>1, BackupFacts DEF BackupInv, RowsOK
  <2> QED
    BY <1>1, <2>2, <2>3 DEF RowsOK, StartsAgain
<1>7. IdsOK'
  BY <1>1 DEF StartsAgain, BackupInv, IdsOK, OneOfEach
<1>8. AloneOK'
  <2>1. \A t \in Takers : \A v \in taker'[t].todo : FALSE
    BY <1>1
  <2>2. CASE backups' = {}
    BY <2>1, <2>2 DEF AloneOK
  <2>3. CASE \A b \in backups' : b.back
    BY <2>1, <2>3 DEF AloneOK
  <2>4. CASE backups' = backups
    BY <1>3, <2>1, <2>4 DEF BackupInv, AloneOK
  <2> QED
    BY <2>2, <2>3, <2>4
<1>9. \A t \in Takers : MakingOK(t)'
  BY <1>1 DEF MakingOK
<1>10. TraceOK'
  BY DEF BackupInv, TraceOK, StartsAgain
<1>11. RowsStand'
  <2>1. CASE backups' = {}
    BY <2>1 DEF RowsStand
  <2>2. CASE \A b \in backups' : b.back
    BY <2>2 DEF RowsStand, RowStands
  <2>3. CASE backups' = backups /\ archive' = archive /\ "crash" \in backupPast'.faults
    <3>1. Victims' = Victims /\ Struck({"crash"})'
      BY <2>3 DEF Victims, Struck
    <3>2. SUFFICES ASSUME NEW b \in backups, b.path \in Undisturbed, ~ b.back, b \notin Victims
                   PROVE  /\ archive[b.path] = [of |-> b.made, state |-> "whole"]
                          /\ b.uploaded => remote[b.path] = [of |-> b.made, state |-> "whole"]
      BY <1>3, <2>3, <3>1 DEF RowsStand, RowStands, StartsAgain
    <3>3. ~ Removing(b)
      <4>1. SUFFICES ASSUME NEW t \in Takers, taker[t].pc = "unrow", NextVictim(t) = b  PROVE FALSE
        BY DEF Removing
      <4>2. b \in taker[t].todo
        BY <4>1, VictimListed
      <4> QED
        BY <3>2, <4>2 DEF BackupInv, NewestStay, Victims
    <3> QED
      BY <3>2, <3>3 DEF BackupInv, RowsStand, RowStands
  <2> QED
    BY <2>1, <2>2, <2>3
<1>12. NoneBack'
  <2>1. \A t \in Takers : \A v \in taker'[t].todo : FALSE
    BY <1>1
  <2>2. CASE backups' = {}
    BY <2>1, <2>2 DEF NoneBack
  <2>3. CASE "restore" \in backupPast'.faults
    BY <2>3 DEF NoneBack, Struck
  <2>4. CASE backups' = backups
    BY <1>3, <2>1, <2>4 DEF BackupInv, NoneBack
  <2> QED
    BY <2>2, <2>3, <2>4
<1>13. NotUploaded'
  <2>1. \A t \in Takers : \A v \in taker'[t].todo : FALSE
    BY <1>1
  <2>2. CASE backups' = {}
    BY <2>1, <2>2 DEF NotUploaded
  <2>3. CASE \A b \in backups' : b.back
    BY <2>1, <2>3 DEF NotUploaded
  <2>4. CASE backups' = backups
    BY <1>3, <2>1, <2>4 DEF BackupInv, NotUploaded, StartsAgain
  <2> QED
    BY <2>2, <2>3, <2>4
<1>14. RemovedGone' /\ ArchivesHaveRows'
  BY <1>3 DEF StartsAgain, RemovedGone, ArchivesHaveRows, Struck
<1>15. NewestStay' /\ DayOK'
  BY <1>1, <1>3 DEF NewestStay, DayOK
<1> QED
  BY <1>4, <1>5, <1>6, <1>7, <1>8, <1>9, <1>10, <1>11, <1>12, <1>13, <1>14, <1>15 DEF BackupInv

LEMMA BackupCrashKeeps == ASSUME BackupInv, BackupCrash  PROVE BackupInv'
<1>1. StartsAgain /\ "crash" \in backupPast'.faults /\ backups' = backups /\ archive' = archive
  BY StruckOnce, BackupFacts DEF BackupCrash, StartsAgain, BackupInv, RowsOK, IdsOK
<1> QED
  BY <1>1, StartsAgainKeeps

LEMMA DiskLostKeeps == ASSUME BackupInv, DiskLost  PROVE BackupInv'
<1>1. NoFile \in FileType /\ NoFile.state = "none"
  BY BackupAssumption DEF NoFile, FileType, BackupAssumption
<1>2. archive' \in [Path -> FileType] /\ \A q \in Path : archive'[q].state = "none"
  BY <1>1 DEF DiskLost
<1>3. StartsAgain /\ backups' = {}
  BY <1>2, StruckOnce, BackupFacts, FS_EmptySet DEF DiskLost, StartsAgain, OneOfEach
<1> QED
  BY <1>3, StartsAgainKeeps

LEMMA RestoresKeeps == ASSUME BackupInv, Restores  PROVE BackupInv'
<1>1. /\ backupPast' \in PastType
      /\ backupPast'.chosen = backupPast.chosen /\ backupPast'.contested = backupPast.contested
      /\ backupPast'.made = backupPast.made
      /\ "restore" \in backupPast'.faults /\ backupPast.faults \subseteq backupPast'.faults
  <2>1. CASE Mars("restore")
    BY <2>1, StruckOnce
  <2>2. CASE backupPast.faults = {"disk"} /\ backupPast' = [backupPast EXCEPT !.faults = {"disk", "restore"}] /\ "restore" \in BackupFaults
    <3>1. {"disk", "restore"} \subseteq BackupFaults
      BY <2>2, BackupFacts
    <3> QED
      BY <2>2, <3>1, BackupFacts DEF PastType
  <2> QED
    BY <2>1, <2>2 DEF Restores
<1>2. PICK p \in Path : \E f \in {archive[p], remote[p]} :
          f.state = "whole" /\ backups' = {[b EXCEPT !.back = TRUE] : b \in held[f.of]}
  BY DEF Restores
<1>0. PICK f \in {archive[p], remote[p]} :
          f.state = "whole" /\ backups' = {[b EXCEPT !.back = TRUE] : b \in held[f.of]}
  BY <1>2
<1>3. f.of \in Made
  BY <1>0, BackupFacts DEF FileType, NoFile
<1>4. PICK H \in SUBSET Backup : H = held[f.of]
  BY <1>3, BackupFacts
<1>5. \A b \in Backup : LET c == [b EXCEPT !.back = TRUE] IN
          c \in Backup /\ c.id = b.id /\ c.path = b.path /\ c.back
  BY DEF Backup
<1>6. backups' \subseteq Backup /\ (\A c \in backups' : c.back /\ \E b \in H : c = [b EXCEPT !.back = TRUE])
  BY <1>0, <1>4, <1>5
<1>7. IsFiniteSet(backups')
  <2>1. PICK g : g = [b \in H |-> [b EXCEPT !.back = TRUE]]
    OBVIOUS
  <2>2. PICK R : R = backups'
    OBVIOUS
  <2>3. g \in Surjection(H, R)
    BY <1>0, <1>4, <2>1, <2>2 DEF Surjection
  <2>4. IsFiniteSet(H)
    BY <1>3, <1>4, BackupFacts
  <2>5. IsFiniteSet(R)
    BY <2>3, <2>4, FS_Surjection
  <2> QED
    BY <2>2, <2>5
<1>8. OneOfEach(backups')
  <2>1. OneOfEach(H)
    BY <1>3, <1>4 DEF BackupInv, IdsOK
  <2>2. ASSUME NEW c \in backups', NEW d \in backups', c.id = d.id  PROVE c = d
    <3>1. PICK b \in H : c = [b EXCEPT !.back = TRUE]
      BY <1>6
    <3>2. PICK a \in H : d = [a EXCEPT !.back = TRUE]
      BY <1>6
    <3>3. a.id = b.id
      BY <1>5, <2>2, <3>1, <3>2
    <3>4. a = b
      BY <2>1, <3>3 DEF OneOfEach
    <3> QED
      BY <3>1, <3>2, <3>4
  <2> QED
    BY <1>5, <1>6, <2>1, <2>2 DEF OneOfEach
<1>9. \A c \in backups' : RowOK(c)
  <2>1. \A b \in H : RowOK(b)
    BY <1>3, <1>4 DEF BackupInv, RowsOK
  <2> QED
    <3>1. TAKE c \in backups'
    <3>2. PICK b \in H : c = [b EXCEPT !.back = TRUE]
      BY <1>6
    <3>3. c.id = b.id /\ c.path = b.path /\ RowOK(b)
      BY <1>5, <2>1, <3>2
    <3> QED
      BY <3>3 DEF RowOK
<1>10. StartsAgain
  BY <1>1, <1>6, <1>7, <1>8, <1>9, BackupFacts DEF Restores, StartsAgain
<1> QED
  BY <1>1, <1>6, <1>10, StartsAgainKeeps

LEMMA BackupStarts == BackupInit => BackupInv
<1>1. SUFFICES ASSUME BackupInit  PROVE BackupInv
  OBVIOUS
<1>2. /\ today = 0 /\ archive = [p \in Path |-> NoFile] /\ snapshotTmp = {}
      /\ remote = [p \in Path |-> NoFile] /\ backups = {} /\ held = [m \in Made |-> {}]
      /\ taker = [t \in Takers |-> Idle] /\ backupPast = NoPast
  BY <1>1 DEF BackupInit
<1>3. BackupShape
  <2>1. NoPast \in PastType /\ NoPast.chosen = {} /\ NoPast.made = 0
    BY BackupAssumption DEF NoPast, PastType, BackupAssumption
  <2>2. taker \in [Takers -> TakerType]
    BY <1>2, ThenIs
  <2>3. archive \in [Path -> FileType] /\ remote \in [Path -> FileType]
    BY <1>2 DEF FileType
  <2>4. today \in 0 .. MaxTime /\ held \in [Made -> SUBSET Backup] /\ \A m \in Made : IsFiniteSet(held[m])
    BY <1>2, FS_EmptySet, BackupAssumption DEF BackupAssumption
  <2>5. IsFiniteSet(backups) /\ IsFiniteSet(backupPast.chosen) /\ Cardinality(backupPast.chosen) <= backupPast.made
    BY <1>2, <2>1, FS_EmptySet
  <2> QED
    BY <1>2, <2>1, <2>2, <2>3, <2>4, <2>5 DEF BackupShape
<1>4. \A t \in Takers : /\ ~ Making(t) /\ taker[t].todo = {} /\ taker[t].path = NoPath
                        /\ taker[t].pc = "idle" /\ ~ taker[t].up
  BY <1>2, ThenIs DEF Making, Makers
<1>5. (\A t \in Takers : TakerOK(t)) /\ \A t \in Takers : MakingOK(t)
  BY <1>4 DEF TakerOK, MakingOK
<1>6. RowsOK /\ IdsOK /\ AloneOK /\ RowsStand /\ NoneBack /\ NotUploaded /\ NewestStay
  BY <1>2, <1>4 DEF RowsOK, IdsOK, OneOfEach, AloneOK, RowsStand, NoneBack, NotUploaded, NewestStay
<1>7. \A p \in Path : archive[p].state = "none" /\ remote[p].state = "none"
  BY <1>2 DEF NoFile
<1>8. TraceOK /\ ArchivesHaveRows /\ RemovedGone
  BY <1>2, <1>4, <1>7 DEF TraceOK, ArchivesHaveRows, RemovedGone, Undisturbed
<1>9. DayOK
  BY <1>2 DEF DayOK, NoPast
<1> QED
  BY <1>3, <1>5, <1>6, <1>8, <1>9 DEF BackupInv

LEMMA BackupNextKeeps == ASSUME BackupInv, [BackupNext]_backupVars  PROVE BackupInv'
<1>1. ASSUME NEW t \in Takers, TakerStep(t)  PROVE BackupInv'
  <2>1. CASE CreateAsked(t)
    BY <2>1, BeginsKeeps DEF CreateAsked
  <2>2. CASE FileMade(t)
    BY <2>2, FileMadeKeeps
  <2>3. CASE Snapshots(t)
    BY <2>3, SnapshotsKeeps
  <2>4. CASE Writes(t)
    BY <2>4, WritesKeeps
  <2>5. CASE WriteFails(t)
    BY <2>5, WriteFailsKeeps
  <2>6. CASE Uploads(t)
    BY <2>6, UploadsKeeps
  <2>7. CASE Records(t)
    BY <2>7, RecordsKeeps
  <2>8. CASE PruneAsked(t)
    BY <2>8, PruneAskedKeeps
  <2>9. CASE ListsVictims(t)
    BY <2>9, ListsVictimsKeeps
  <2>10. CASE Unlinks(t)
    BY <2>10, UnlinksKeeps
  <2>11. CASE Unrows(t)
    BY <2>11, UnrowsKeeps
  <2> QED
    BY <1>1, <2>1, <2>2, <2>3, <2>4, <2>5, <2>6, <2>7, <2>8, <2>9, <2>10, <2>11 DEF TakerStep
<1>2. CASE ScheduleTicks
  BY <1>2, ScheduleTicksKeeps
<1>3. CASE DayTurns
  BY <1>3, DayTurnsKeeps
<1>4. CASE BackupCrash
  BY <1>4, BackupCrashKeeps
<1>5. CASE DiskLost
  BY <1>5, DiskLostKeeps
<1>6. CASE Restores
  BY <1>6, RestoresKeeps
<1>7. CASE UNCHANGED backupVars
  <2>1. /\ UNCHANGED <<archive, snapshotTmp, remote, backups, held, taker>> /\ today' \in 0 .. MaxTime
        /\ backupPast' = backupPast /\ backupPast' \in PastType
    BY <1>7, BackupFacts DEF backupVars
  <2>2. DayOK'
    BY <1>7 DEF backupVars, BackupInv, DayOK, Making
  <2> QED
    BY <2>1, <2>2, StillKeeps
<1> QED
  BY <1>1, <1>2, <1>3, <1>4, <1>5, <1>6, <1>7 DEF BackupNext

LEMMA BackupAlways == BackupSpec => []BackupInv
<1>1. BackupInv /\ [BackupNext]_backupVars => BackupInv'
  BY BackupNextKeeps
<1> QED
  BY BackupStarts, <1>1, PTL DEF BackupSpec

\* Every variable of the backups keeps the shape its comment gives, for any number of
\* administrators and backups: in particular there is never a row more than a backup done.
THEOREM BackupsTyped == BackupSpec => []BackupTypeOK
<1>1. BackupInv => BackupTypeOK
  <2>1. SUFFICES ASSUME BackupInv  PROVE BackupTypeOK
    OBVIOUS
  <2>2. \A p \in Path : {archive[p], remote[p]} \subseteq
            [of : 0 .. MaxMade, state : {"none", "part", "torn", "whole"}]
    <3>1. \A f \in FileType : f \in [of : 0 .. MaxMade, state : {"none", "part", "torn", "whole"}]
      BY <2>1, BackupFacts DEF FileType, NoFile, Made
    <3> QED
      BY <2>1, <3>1, BackupFacts
  <2>3. \A b, c \in backups : b.id = c.id => b = c
    BY <2>1 DEF BackupInv, IdsOK, OneOfEach
  <2> QED
    BY <2>1, <2>2, <2>3, BackupFacts, TakerFacts DEF BackupTypeOK
<1> QED
  BY BackupAlways, <1>1, PTL

\* What the table of backups says can be restored is there, what is there is in the table,
\* the newest stay and the day has its backup, however backups, prunes, failures, restarts
\* and restores are mixed (createBackup, pruneBackups, runBackupSchedule, restoreArchive).
THEOREM BackupsKept == BackupSpec => []BackupsWhole
<1>1. BackupInv => BackupsWhole
  <2>1. SUFFICES ASSUME BackupInv  PROVE BackupsWhole
    OBVIOUS
  <2>2. RowsHaveArchives
    <3>1. SUFFICES ASSUME NEW b \in backups, b.path \in Undisturbed, ~ b.back,
                          \A t \in Takers : b \notin taker[t].todo, ~ (b \in Victims /\ Struck({"crash"}))
                   PROVE  /\ archive[b.path] = [of |-> b.made, state |-> "whole"]
                          /\ b.uploaded => remote[b.path] = [of |-> b.made, state |-> "whole"]
      BY DEF RowsHaveArchives
    <3>2. ~ Removing(b)
      BY <2>1, <3>1, VictimListed DEF Removing
    <3> QED
      BY <2>1, <3>1, <3>2 DEF BackupInv, RowsStand, RowStands
  <2>3. DayHasBackup
    BY <2>1 DEF BackupInv, DayOK, DayHasBackup, Making, Makers
  <2> QED
    BY <2>1, <2>2, <2>3 DEF BackupInv, BackupsWhole
<1> QED
  BY BackupAlways, <1>1, PTL

--------------------------------
\* Schedules: what the holder of the mutex and the requests rely on.

WorkerType == [pc : WorkerPCs, pipe : Pipes \cup {Blank}, cron : CronCols, trigger : Triggers,
               delivery : Deliveries \cup {Blank}, run : RunNos, listed : RunNos, found : Jobs]
CronRow    == [pipe : Pipes, cron : Crons]
TickType   == [now : Minutes, crons : SUBSET CronRow, runs : SUBSET RunNos]

ScheduleShape ==
    /\ minute \in Minutes /\ ticked \in BOOLEAN /\ looks \subseteq Look
    /\ cronOf \in [Pipes -> CronCols \cup {"none"}]
    /\ starts \in Seq(Start) /\ Len(starts) <= MaxStarts /\ seen \subseteq Deliveries
    /\ workers \in [Workers -> WorkerType] /\ tick \in TickType
    /\ scheduleTally \in [calls : 0 .. MaxAskings, faults : SUBSET ScheduleFaults]

\* pipelineMu has one holder.
OneHolder == \A v, w \in Workers : Holds(v) /\ Holds(w) => v = w

\* What a goroutine relies on: its pipeline has an id, its run is there, and, with the mutex,
\* the Job it has read is as it read it.
WorkerOK(w) ==
    LET k == workers[w] IN
    /\ k.run <= Len(starts) /\ k.listed <= Len(starts)
    /\ w = Ticker => k.pc \in {"idle", "cron", "insert", "read", "act", "drive"}
    /\ w # Ticker => k.pc \in {"idle", "insert", "read", "act", "delete", "update"}
    /\ k.pc \in {"insert", "delete", "update"} => k.pipe \in Pipes
    /\ k.pc \in {"read", "act"} => k.run # 0
    /\ k.pc = "act" /\ k.found = "none" =>
           starts[k.run].status = "running" /\ starts[k.run].job = "none"
    /\ k.pc = "act" /\ k.found = "ended" => starts[k.run].job = "ended"
    /\ k.pc = "insert" => (w = Ticker <=> k.trigger = "cron")

\* A delivery under way is on record, is alone, and has started nothing.
DeliveryOK(w) ==
    LET k == workers[w] IN
    k.pc = "insert" /\ k.delivery # Blank =>
        /\ k.delivery \in seen
        /\ \A v \in Workers : workers[v].pc = "insert" /\ workers[v].delivery = k.delivery => v = w
        /\ \A r \in DOMAIN starts : starts[r].delivery # k.delivery

\* The runs of a pipeline that is being deleted, or is gone, escaped its look for runs.
Leaving(p) == p \notin Existing \/ \E c \in Callers : workers[c].pc = "delete" /\ workers[c].pipe = p

\* A run that is over has no Job at work; one that a schedule started had its reason.
RunOK(r) ==
    LET s == starts[r] IN
    /\ s.job = "alive" => s.status = "running"
    /\ s.status = "running" => s.to = MaxMinute /\ (Leaving(s.pipe) => s.dodged)
    /\ s.from <= minute
    /\ s.trigger = "cron" => s.due <= s.from /\ s.listed \notin s.beside
    /\ s.delivery # Blank =>
           /\ s.delivery \in seen
           /\ \A q \in DOMAIN starts : starts[q].delivery = s.delivery => q = r
    /\ \A q \in DOMAIN starts :
           /\ q <= r => starts[q].from <= s.from
           /\ (/\ starts[q].trigger = "cron" /\ s.trigger = "cron"
               /\ starts[q].pipe = s.pipe /\ starts[q].due = s.due) => q = r

\* Is the tick still at its crons?
AtCrons ==
    \/ workers[Ticker].pc \in {"cron", "insert"}
    \/ workers[Ticker].pc \in {"read", "act"} /\ workers[Ticker].trigger = "cron"

FiredAt(p, due) == {r \in StartsOf(p) : starts[r].trigger = "cron" /\ starts[r].due = due}

\* Runs that come while the tick is at its crons go on, since it holds the mutex; the
\* pipelines it has still to look at got nothing from this tick.
TickOK ==
    /\ tick.now <= minute
    /\ tick.runs \subseteq DOMAIN starts
    /\ workers[Ticker].pc = "idle" => tick = NoTick
    /\ \A c, d \in tick.crons : c.pipe = d.pipe => c = d
    /\ AtCrons => \A r \in DOMAIN starts : starts[r].from <= tick.now \/ starts[r].status = "running"
    /\ \A c \in tick.crons : \A r \in FiredAt(c.pipe, tick.now) : starts[r].from = tick.now
    /\ tick.crons # {} => AtCrons
    /\ workers[Ticker].pc = "insert" =>
           /\ FiredAt(workers[Ticker].pipe, tick.now) = {}
           /\ workers[Ticker].delivery = Blank
           /\ \A c \in tick.crons : c.pipe # workers[Ticker].pipe
           /\ workers[Ticker].listed # 0 => starts[workers[Ticker].listed].status # "running"
    /\ workers[Ticker].pc \in {"idle", "cron", "drive"} => workers[Ticker].trigger # "cron"
    /\ workers[Ticker].pc = "read" =>
           workers[Ticker].trigger = "cron" /\ starts[workers[Ticker].run].job = "none"
    /\ workers[Ticker].pc = "act" /\ workers[Ticker].trigger = "cron" =>
           workers[Ticker].found # "ended"

\* Why a due minute that was looked at has no run of its own.
Answered(l) ==
    \E r \in StartsOf(l.pipe) :
        \/ starts[r].trigger = "cron" /\ starts[r].due = l.due
        \/ starts[r].from = l.due
        \/ starts[r].from <= l.at /\ l.at <= starts[r].to

LooksOK ==
    \A l \in looks :
        /\ l.at <= minute
        /\ \/ Answered(l)
           \/ /\ workers[Ticker].pc = "insert" /\ workers[Ticker].pipe = l.pipe
              /\ l.due = tick.now

\* The inductive invariant.
ScheduleInv ==
    /\ ScheduleShape /\ OneHolder /\ TickOK /\ LooksOK
    /\ \A w \in Workers : WorkerOK(w) /\ DeliveryOK(w)
    /\ \A r \in DOMAIN starts : RunOK(r)

LEMMA ScheduleBounds ==
    RunsListed \in Nat /\ MaxMinute \in Nat /\ MaxStarts \in Nat /\ MaxAskings \in Nat
BY ScheduleAssumption

\* The loop is no client, and no cron is the word for a pipeline that is gone.
LEMMA ScheduleNames == Ticker \notin Callers /\ "none" \notin CronCols /\ Blank \notin Crons
<1>1. /\ "loop" \notin Callers /\ Crons \cap {Blank, "none"} = {}
  BY ScheduleAssumption
<1>2. Blank # "none"
  BY Zenon DEF Blank
<1> QED
  BY <1>1, <1>2 DEF Ticker, CronCols

LEMMA NoWorkTyped ==
    /\ NoWork \in WorkerType /\ NoWork.pc = "idle" /\ NoWork.run = 0 /\ NoWork.listed = 0
    /\ NoWork.trigger = "manual" /\ NoWork.delivery = Blank /\ NoWork.found = "none" /\ NoWork.pipe = Blank
<1>1. 0 \in RunNos
  BY ScheduleBounds DEF RunNos
<1>2. Blank \in CronCols /\ "manual" \in Triggers /\ "idle" \in WorkerPCs /\ "none" \in Jobs
  BY DEF CronCols, Triggers, WorkerPCs, Jobs
<1> QED
  BY <1>1, <1>2 DEF NoWork, WorkerType

\* A goroutine that has come to rest at a place of its own.
LEMMA RestTyped ==
    ASSUME NEW pc \in WorkerPCs, NEW e, e = [NoWork EXCEPT !.pc = pc]
    PROVE  /\ e \in WorkerType /\ e.pc = pc /\ e.run = 0 /\ e.listed = 0
           /\ e.trigger = "manual" /\ e.delivery = Blank /\ e.pipe = Blank
<1>1. e \in WorkerType
  BY NoWorkTyped DEF WorkerType
<1> QED
  BY <1>1, NoWorkTyped DEF WorkerType, NoWork

LEMMA NoTickTyped == NoTick \in TickType /\ NoTick.now = 0 /\ NoTick.crons = {} /\ NoTick.runs = {}
BY ScheduleBounds DEF NoTick, TickType, Minutes

\* The fields of the rows of runs, of goroutines and of the tick.
LEMMA StartFields ==
    ASSUME NEW s \in Start
    PROVE  /\ s.pipe \in Pipes /\ s.trigger \in Triggers /\ s.from \in Minutes /\ s.to \in Minutes
           /\ s.due \in Minutes /\ s.delivery \in Deliveries \cup {Blank} /\ s.job \in Jobs
           /\ s.listed \in RunNos /\ s.beside \in SUBSET RunNos /\ s.dodged \in BOOLEAN
           /\ s.status \in {"running", "done", "stopped"}
BY DEF Start

LEMMA WorkerFields ==
    ASSUME NEW k \in WorkerType
    PROVE  /\ k.pc \in WorkerPCs /\ k.pipe \in Pipes \cup {Blank} /\ k.cron \in CronCols
           /\ k.trigger \in Triggers /\ k.delivery \in Deliveries \cup {Blank} /\ k.run \in RunNos
           /\ k.listed \in RunNos /\ k.found \in Jobs
BY DEF WorkerType

LEMMA TickFields ==
    ASSUME NEW t \in TickType
    PROVE  t.now \in Minutes /\ t.crons \in SUBSET CronRow /\ t.runs \in SUBSET RunNos
BY DEF TickType

LEMMA ShapeFacts ==
    ASSUME ScheduleShape
    PROVE  /\ minute \in Nat /\ minute <= MaxMinute /\ Len(starts) \in Nat
           /\ DOMAIN starts = 1 .. Len(starts) /\ tick \in TickType
           /\ tick.now \in Minutes /\ tick.now \in Nat
           /\ \A r \in DOMAIN starts :
                 /\ starts[r] \in Start /\ starts[r].from \in Nat /\ starts[r].to \in Nat
                 /\ starts[r].due \in Nat
           /\ \A w \in Workers :
                 /\ workers[w] \in WorkerType /\ workers[w].run \in Nat /\ workers[w].listed \in Nat
<1>1. minute \in Nat /\ minute <= MaxMinute /\ \A m \in Minutes : m \in Nat
  BY ScheduleBounds DEF ScheduleShape, Minutes
<1>2. \A n \in RunNos : n \in Nat
  BY ScheduleBounds DEF RunNos
<1>3. tick \in TickType /\ tick.now \in Minutes
  BY TickFields DEF ScheduleShape
<1>4. Len(starts) \in Nat /\ DOMAIN starts = 1 .. Len(starts) /\ \A r \in DOMAIN starts : starts[r] \in Start
  BY DEF ScheduleShape
<1>5. \A r \in DOMAIN starts : starts[r].from \in Minutes /\ starts[r].to \in Minutes
                              /\ starts[r].due \in Minutes
  BY <1>4, StartFields
<1>6. \A w \in Workers : workers[w] \in WorkerType
  BY DEF ScheduleShape
<1>7. \A w \in Workers : workers[w].run \in RunNos /\ workers[w].listed \in RunNos
  BY <1>6, WorkerFields
<1> QED
  BY <1>1, <1>2, <1>3, <1>4, <1>5, <1>6, <1>7

LEMMA ScheduleInitially == ScheduleInit => ScheduleInv
<1> SUFFICES ASSUME ScheduleInit  PROVE ScheduleInv
  OBVIOUS
<1>1. /\ starts = <<>> /\ looks = {} /\ seen = {} /\ minute = 0 /\ tick = NoTick
      /\ workers = [w \in Workers |-> NoWork] /\ Ticker \in Workers
  BY DEF ScheduleInit, Workers
<1>2. /\ starts \in Seq(Start) /\ Len(starts) = 0 /\ DOMAIN starts = {}
  BY <1>1
<1>3. \A w \in Workers : workers[w] = NoWork
  BY <1>1
<1>4. ScheduleShape
  <2>1. minute \in Minutes /\ 0 \in 0 .. MaxAskings
    BY <1>1, ScheduleBounds DEF Minutes
  <2>2. workers \in [Workers -> WorkerType] /\ tick \in TickType
    BY <1>1, NoWorkTyped, NoTickTyped
  <2>3. scheduleTally \in [calls : 0 .. MaxAskings, faults : SUBSET ScheduleFaults]
    BY <2>1 DEF ScheduleInit
  <2>4. cronOf \in [Pipes -> CronCols \cup {"none"}] /\ ticked \in BOOLEAN
    BY DEF ScheduleInit
  <2>5. looks \subseteq Look /\ seen \subseteq Deliveries /\ Len(starts) <= MaxStarts
    BY <1>1, <1>2, ScheduleBounds
  <2> QED
    BY <1>2, <2>1, <2>2, <2>3, <2>4, <2>5 DEF ScheduleShape
<1>5. OneHolder
  BY <1>3, NoWorkTyped DEF OneHolder, Holds
<1>6. \A w \in Workers : WorkerOK(w) /\ DeliveryOK(w)
  <2>1. TAKE w \in Workers
  <2>2. workers[w] = NoWork
    BY <1>3
  <2>3. WorkerOK(w)
    BY <1>2, <2>2, NoWorkTyped DEF WorkerOK
  <2>4. DeliveryOK(w)
    BY <2>2, NoWorkTyped DEF DeliveryOK
  <2> QED
    BY <2>3, <2>4
<1>7. TickOK
  <2>1. workers[Ticker] = NoWork
    BY <1>1, <1>3
  <2>2. ~ AtCrons
    BY <2>1, NoWorkTyped DEF AtCrons
  <2> QED
    BY <1>1, <1>2, <2>1, <2>2, NoWorkTyped, NoTickTyped DEF TickOK
<1> QED
  BY <1>1, <1>2, <1>4, <1>5, <1>6, <1>7 DEF ScheduleInv, LooksOK

--------------------------------
\* What stands when rows of runs change.

\* How the row of a run may change: it keeps what it says of its start, and never runs again.
Follows(r) ==
    LET s == starts[r]
        t == starts'[r]
    IN  /\ t.pipe = s.pipe /\ t.trigger = s.trigger /\ t.from = s.from /\ t.due = s.due
        /\ t.delivery = s.delivery /\ t.listed = s.listed /\ t.beside = s.beside
        /\ t.status = "running" => s.status = "running"
        /\ t.to = s.to \/ (t.to = minute /\ t.status # "running")
        /\ s.dodged => t.dodged
        /\ t.job = "alive" => t.status = "running"

SameRuns ==
    /\ starts' \in Seq(Start) /\ Len(starts') = Len(starts) /\ DOMAIN starts' = DOMAIN starts
    /\ \A r \in DOMAIN starts : Follows(r)

\* A row whose Job, if it is not at work, stays as it was read.
RowStays(r) ==
    /\ starts'[r].status = starts[r].status
    /\ starts[r].job # "alive" => starts'[r].job = starts[r].job

LEMMA RunsUntouched ==
    ASSUME ScheduleInv, UNCHANGED starts
    PROVE  SameRuns /\ \A r \in DOMAIN starts : RowStays(r)
BY DEF ScheduleInv, ScheduleShape, RunOK, SameRuns, Follows, RowStays

LEMMA RunsFollow ==
    ASSUME ScheduleInv, SameRuns, minute' \in Minutes, minute <= minute', seen \subseteq seen',
           \A r \in DOMAIN starts, p \in Pipes :
               starts[r].pipe = p /\ starts'[r].status = "running" /\ Leaving(p)' =>
                   Leaving(p) \/ starts'[r].dodged
    PROVE  \A r \in DOMAIN starts' : RunOK(r)'
<1> SUFFICES ASSUME NEW r \in DOMAIN starts  PROVE RunOK(r)'
  BY DEF SameRuns
<1>1. RunOK(r) /\ Follows(r) /\ DOMAIN starts' = DOMAIN starts
  BY DEF ScheduleInv, SameRuns
<1>2. \A q \in DOMAIN starts : Follows(q)
  BY DEF SameRuns
<1>3. starts[r].from \in Nat /\ minute \in Nat /\ minute' \in Nat
  <2>1. minute' \in Nat
    BY ScheduleBounds DEF Minutes
  <2> QED
    BY <2>1, ShapeFacts DEF ScheduleInv
<1>4. starts'[r].from <= minute'
  BY <1>1, <1>3 DEF RunOK, Follows
<1>5. starts'[r].status = "running" => starts'[r].to = MaxMinute /\ (Leaving(starts[r].pipe)' => starts'[r].dodged)
  <2>1. ASSUME starts'[r].status = "running"  PROVE starts'[r].to = MaxMinute
    BY <1>1, <2>1 DEF RunOK, Follows
  <2>2. ASSUME starts'[r].status = "running", Leaving(starts[r].pipe)'  PROVE starts'[r].dodged
    <3>1. starts[r].status = "running" /\ (starts[r].dodged => starts'[r].dodged)
      BY <1>1, <2>2 DEF Follows
    <3>2. PICK p \in Pipes : p = starts[r].pipe
      BY ShapeFacts, StartFields DEF ScheduleInv
    <3>3. Leaving(p) => starts[r].dodged
      BY <1>1, <3>1, <3>2 DEF RunOK
    <3>4. Leaving(p)'
      BY <1>1, <2>2, <3>2 DEF Leaving, Follows
    <3> QED
      BY <2>2, <3>1, <3>2, <3>3, <3>4
  <2>3. starts'[r].pipe = starts[r].pipe
    BY <1>1 DEF Follows
  <2> QED
    BY <2>1, <2>2, <2>3
<1>6. \A q \in DOMAIN starts :
        /\ starts'[q].from = starts[q].from /\ starts'[q].pipe = starts[q].pipe
        /\ starts'[q].due = starts[q].due /\ starts'[q].trigger = starts[q].trigger
        /\ starts'[q].delivery = starts[q].delivery
  BY <1>2 DEF Follows
<1> QED
  BY <1>1, <1>4, <1>5, <1>6 DEF RunOK, Follows

LEMMA FiredStay ==
    ASSUME SameRuns, NEW p, NEW due  PROVE FiredAt(p, due)' = FiredAt(p, due)
BY DEF SameRuns, Follows, FiredAt, StartsOf

LEMMA AnsweredStays ==
    ASSUME ScheduleInv, SameRuns, NEW l \in looks, Answered(l)  PROVE Answered(l)'
<1>1. PICK r \in StartsOf(l.pipe) :
          \/ starts[r].trigger = "cron" /\ starts[r].due = l.due
          \/ starts[r].from = l.due
          \/ starts[r].from <= l.at /\ l.at <= starts[r].to
  BY DEF Answered
<1>2. r \in DOMAIN starts /\ Follows(r) /\ l.at <= minute
  BY DEF StartsOf, SameRuns, ScheduleInv, LooksOK
<1>3. r \in StartsOf(l.pipe)'
  BY <1>2 DEF StartsOf, SameRuns, Follows
<1>4. l.at \in Nat /\ starts[r].to \in Nat /\ minute \in Nat
  <2>1. l.at \in Minutes /\ ScheduleShape
    BY DEF ScheduleInv, ScheduleShape, Look
  <2> QED
    BY <1>2, <2>1, ShapeFacts, ScheduleBounds DEF Minutes
<1> QED
  BY <1>1, <1>2, <1>3, <1>4 DEF Answered, Follows

\* A goroutine that does nothing relies on what it did.
LEMMA WorkerStands ==
    ASSUME ScheduleInv, NEW w \in Workers, workers'[w] = workers[w], Len(starts') \in Nat,
           Len(starts) <= Len(starts'), workers[w].pc = "act" => RowStays(workers[w].run)
    PROVE  WorkerOK(w)'
<1>1. WorkerOK(w) /\ workers[w] \in WorkerType /\ Len(starts) \in Nat
  BY DEF ScheduleInv, ScheduleShape
<1>2. workers[w].run \in Nat /\ workers[w].listed \in Nat
  BY <1>1, ScheduleBounds DEF WorkerType, RunNos
<1>3. workers'[w].run <= Len(starts') /\ workers'[w].listed <= Len(starts')
  BY <1>1, <1>2 DEF WorkerOK
<1> QED
  BY <1>1, <1>3 DEF WorkerOK, RowStays

\* No delivery begins.
LEMMA DeliveriesStand ==
    ASSUME ScheduleInv, DOMAIN starts' = DOMAIN starts,
           \A r \in DOMAIN starts : starts'[r].delivery = starts[r].delivery,
           seen \subseteq seen',
           \A w \in Workers : \/ workers'[w] = workers[w]
                              \/ workers'[w].pc # "insert" \/ workers'[w].delivery = Blank
    PROVE  \A w \in Workers : DeliveryOK(w)'
BY DEF ScheduleInv, DeliveryOK

\* The tick does nothing.
LEMMA TickStands ==
    ASSUME ScheduleInv, SameRuns, UNCHANGED tick, workers'[Ticker] = workers[Ticker],
           minute' \in Minutes, minute <= minute',
           workers[Ticker].pc = "idle" \/ \A r \in DOMAIN starts : RowStays(r)
    PROVE  TickOK'
<1> DEFINE k == workers[Ticker]
<1>1. TickOK /\ WorkerOK(Ticker) /\ Ticker \in Workers /\ ScheduleShape
  BY DEF ScheduleInv, Workers
<1>2. /\ tick' = tick /\ workers'[Ticker] = k /\ (AtCrons' <=> AtCrons)
      /\ DOMAIN starts' = DOMAIN starts
  BY DEF AtCrons, SameRuns
<1>3. \A r \in DOMAIN starts : /\ starts'[r].from = starts[r].from
                               /\ k.pc # "idle" => RowStays(r)
  BY DEF SameRuns, Follows
<1>4. \A p, due : FiredAt(p, due)' = FiredAt(p, due)
  BY FiredStay
<1>5. tick.now <= minute'
  <2>1. tick.now \in Nat /\ minute \in Nat /\ minute' \in Nat
    BY <1>1, ShapeFacts, ScheduleBounds DEF Minutes
  <2> QED
    BY <1>1, <2>1 DEF TickOK
<1>6. AtCrons => k.pc # "idle"
  BY DEF AtCrons
<1>7. AtCrons => \A r \in DOMAIN starts : starts'[r].from <= tick.now \/ starts'[r].status = "running"
  <2>1. AtCrons => \A r \in DOMAIN starts : starts[r].from <= tick.now \/ starts[r].status = "running"
    BY <1>1 DEF TickOK
  <2> QED
    BY <1>3, <1>6, <2>1 DEF RowStays
<1>8. \A c \in tick.crons : \A r \in FiredAt(c.pipe, tick.now) : starts'[r].from = tick.now
  <2>1. \A p, due : FiredAt(p, due) \subseteq DOMAIN starts
    BY DEF FiredAt, StartsOf
  <2>2. \A c \in tick.crons : \A r \in FiredAt(c.pipe, tick.now) : starts[r].from = tick.now
    BY <1>1 DEF TickOK
  <2> QED
    BY <1>3, <2>1, <2>2
<1>9. k.pc = "insert" /\ k.listed # 0 => starts'[k.listed].status # "running"
  <2>1. k.listed \in Nat /\ k.listed <= Len(starts) /\ DOMAIN starts = 1 .. Len(starts)
    BY <1>1, ShapeFacts DEF WorkerOK
  <2> QED
    BY <1>1, <1>3, <2>1 DEF TickOK, RowStays
<1>10. k.pc = "read" => starts'[k.run].job = "none"
  <2>1. k.run \in Nat /\ k.run <= Len(starts) /\ DOMAIN starts = 1 .. Len(starts)
    BY <1>1, ShapeFacts DEF WorkerOK
  <2>2. k.pc = "read" => k.run \in DOMAIN starts
    BY <1>1, <2>1 DEF WorkerOK
  <2> QED
    BY <1>1, <1>3, <2>2 DEF TickOK, RowStays
<1> HIDE DEF k
<1> QED
  BY <1>1, <1>2, <1>4, <1>5, <1>7, <1>8, <1>9, <1>10 DEF TickOK, k

LEMMA LooksStand ==
    ASSUME ScheduleInv, SameRuns, looks' \subseteq looks, minute' \in Minutes, minute <= minute',
           \A l \in looks' :
               workers[Ticker].pc = "insert" /\ workers[Ticker].pipe = l.pipe /\ l.due = tick.now =>
                   /\ workers'[Ticker].pc = "insert" /\ workers'[Ticker].pipe = l.pipe
                   /\ l.due = tick'.now
    PROVE  LooksOK'
<1> SUFFICES ASSUME NEW l \in looks'
             PROVE  /\ l.at <= minute'
                    /\ \/ Answered(l)'
                       \/ /\ workers'[Ticker].pc = "insert" /\ workers'[Ticker].pipe = l.pipe
                          /\ l.due = tick'.now
  BY DEF LooksOK
<1>1. l \in looks /\ l.at <= minute /\ l.at \in Nat /\ minute \in Nat /\ minute' \in Nat
  <2>1. l \in looks /\ LooksOK /\ ScheduleShape
    BY DEF ScheduleInv
  <2>2. l.at \in Minutes
    BY <2>1 DEF ScheduleShape, Look
  <2> QED
    BY <2>1, <2>2, ShapeFacts, ScheduleBounds DEF LooksOK, Minutes
<1>2. Answered(l) => Answered(l)'
  BY <1>1, AnsweredStays
<1>3. \/ Answered(l)
      \/ workers[Ticker].pc = "insert" /\ workers[Ticker].pipe = l.pipe /\ l.due = tick.now
  BY <1>1 DEF ScheduleInv, LooksOK
<1>4. l.at <= minute'
  BY <1>1
<1> QED
  BY <1>2, <1>3, <1>4

\* The row of one run changes.
LEMMA RowChanged ==
    ASSUME ScheduleInv, NEW r \in DOMAIN starts, NEW e \in Start, starts' = [starts EXCEPT ![r] = e],
           e.pipe = starts[r].pipe, e.trigger = starts[r].trigger, e.from = starts[r].from,
           e.due = starts[r].due, e.delivery = starts[r].delivery, e.listed = starts[r].listed,
           e.beside = starts[r].beside, e.dodged = starts[r].dodged,
           e.status = "running" => starts[r].status = "running",
           e.to = starts[r].to \/ (e.to = minute /\ e.status # "running"),
           e.job = "alive" => e.status = "running"
    PROVE  SameRuns /\ starts'[r] = e /\ \A q \in DOMAIN starts : q # r => RowStays(q)
<1>1. starts \in Seq(Start)
  BY DEF ScheduleInv, ScheduleShape
<1>2. /\ starts' \in Seq(Start) /\ Len(starts') = Len(starts) /\ DOMAIN starts' = DOMAIN starts
      /\ starts'[r] = e /\ \A q \in DOMAIN starts : q # r => starts'[q] = starts[q]
  BY <1>1, PutRow
<1>3. Follows(r)
  BY <1>2 DEF Follows
<1>4. \A q \in DOMAIN starts : q # r => Follows(q) /\ RowStays(q)
  BY <1>2 DEF ScheduleInv, RunOK, Follows, RowStays
<1> QED
  BY <1>2, <1>3, <1>4 DEF SameRuns

LEMMA JobChanged ==
    ASSUME NEW s \in Start, NEW j \in Jobs, NEW e, e = [s EXCEPT !.job = j]
    PROVE  /\ e \in Start /\ e.pipe = s.pipe /\ e.trigger = s.trigger /\ e.from = s.from
           /\ e.due = s.due /\ e.delivery = s.delivery /\ e.listed = s.listed
           /\ e.beside = s.beside /\ e.dodged = s.dodged
           /\ e.status = s.status /\ e.to = s.to /\ e.job = j
BY DEF Start

\* One goroutine does something.
LEMMA WorkerPut ==
    ASSUME ScheduleInv, NEW w \in Workers, NEW e \in WorkerType,
           workers' = [workers EXCEPT ![w] = e]
    PROVE  /\ workers' \in [Workers -> WorkerType] /\ workers'[w] = e
           /\ \A v \in Workers : v # w => workers'[v] = workers[v]
BY DEF ScheduleInv, ScheduleShape

\* A request is counted; a fault is noted.
LEMMA AskingTyped ==
    ASSUME ScheduleShape, Asking
    PROVE  scheduleTally' \in [calls : 0 .. MaxAskings, faults : SUBSET ScheduleFaults]
<1>1. scheduleTally.calls \in 0 .. MaxAskings /\ scheduleTally.faults \in SUBSET ScheduleFaults
  BY DEF ScheduleShape
<1>2. scheduleTally.calls + 1 \in 0 .. MaxAskings
  BY <1>1, ScheduleBounds DEF Asking
<1> QED
  BY <1>1, <1>2 DEF Asking, ScheduleShape

\* Rows of runs change and nothing else does.
LEMMA RunsAlone ==
    ASSUME ScheduleInv, SameRuns, UNCHANGED <<minute, seen, workers, tick, ticked, looks>>,
           scheduleTally' = scheduleTally \/ Asking, cronOf' \in [Pipes -> CronCols \cup {"none"}],
           \A p \in Pipes : cronOf'[p] = "none" => cronOf[p] = "none",
           workers[Ticker].pc = "idle" \/ \A r \in DOMAIN starts : RowStays(r),
           \A w \in Workers : workers[w].pc = "act" => \A r \in DOMAIN starts : RowStays(r)
    PROVE  ScheduleInv'
<1>1. ScheduleShape /\ minute \in Minutes /\ minute <= minute
  BY ShapeFacts DEF ScheduleInv, ScheduleShape
<1>2. ASSUME NEW p \in Pipes, Leaving(p)'  PROVE Leaving(p)
  BY <1>2 DEF Leaving, Existing
<1>3. \A w \in Workers : WorkerOK(w)'
  <2>1. TAKE w \in Workers
  <2>2. workers[w].pc = "act" => workers[w].run \in DOMAIN starts
    <3>1. WorkerOK(w) /\ workers[w].run \in Nat /\ DOMAIN starts = 1 .. Len(starts)
      BY <1>1, ShapeFacts DEF ScheduleInv
    <3> QED
      BY <3>1, ShapeFacts, <1>1 DEF WorkerOK
  <2>3. Len(starts') \in Nat /\ Len(starts) <= Len(starts')
    BY <1>1, ShapeFacts DEF SameRuns
  <2> QED
    BY <2>2, <2>3, WorkerStands
<1>4. \A w \in Workers : DeliveryOK(w)'
  <2>1. \A r \in DOMAIN starts : starts'[r].delivery = starts[r].delivery
    BY DEF SameRuns, Follows
  <2> QED
    BY <2>1, DeliveriesStand DEF SameRuns
<1>5. OneHolder'
  BY DEF ScheduleInv, OneHolder, Holds
<1>6. TickOK'
  BY <1>1, TickStands
<1>7. LooksOK'
  BY <1>1, LooksStand
<1>8. \A r \in DOMAIN starts' : RunOK(r)'
  BY <1>1, <1>2, RunsFollow
<1>9. ScheduleShape'
  <2>1. scheduleTally' \in [calls : 0 .. MaxAskings, faults : SUBSET ScheduleFaults]
    BY <1>1, AskingTyped DEF ScheduleShape
  <2> QED
    BY <1>1, <2>1 DEF ScheduleShape, SameRuns
<1> QED
  BY <1>3, <1>4, <1>5, <1>6, <1>7, <1>8, <1>9 DEF ScheduleInv

--------------------------------
\* Schedules, one action at a time.

LEMMA WorkEndsKeeps == ASSUME ScheduleInv, NEW r \in DOMAIN starts, WorkEnds(r)  PROVE ScheduleInv'
<1>1. /\ starts[r].job = "alive" /\ starts' = [starts EXCEPT ![r] = [starts[r] EXCEPT !.job = "ended"]]
      /\ UNCHANGED <<minute, cronOf, seen, workers, tick, ticked, looks, scheduleTally>>
  BY DEF WorkEnds
<1>2. PICK e : e = [starts[r] EXCEPT !.job = "ended"]
  OBVIOUS
<1>3. starts[r] \in Start /\ "ended" \in Jobs
  BY ShapeFacts DEF ScheduleInv, Jobs
<1>4. /\ e \in Start /\ e.pipe = starts[r].pipe /\ e.trigger = starts[r].trigger
      /\ e.from = starts[r].from /\ e.due = starts[r].due /\ e.delivery = starts[r].delivery
      /\ e.listed = starts[r].listed /\ e.beside = starts[r].beside /\ e.dodged = starts[r].dodged
      /\ e.status = starts[r].status /\ e.to = starts[r].to /\ e.job = "ended"
  BY <1>2, <1>3, JobChanged
<1>5. SameRuns /\ \A q \in DOMAIN starts : RowStays(q)
  <2>1. starts' = [starts EXCEPT ![r] = e]
    BY <1>1, <1>2
  <2>2. /\ e.status = "running" => starts[r].status = "running"
        /\ e.to = starts[r].to \/ (e.to = minute /\ e.status # "running")
        /\ e.job = "alive" => e.status = "running"
    BY <1>4
  <2>3. SameRuns /\ starts'[r] = e /\ \A q \in DOMAIN starts : q # r => RowStays(q)
    BY <1>4, <2>1, <2>2, RowChanged
  <2> QED
    BY <1>1, <1>4, <2>3 DEF RowStays
<1>6. cronOf' \in [Pipes -> CronCols \cup {"none"}]
  BY <1>1 DEF ScheduleInv, ScheduleShape
<1> QED
  BY <1>1, <1>5, <1>6, RunsAlone

LEMMA StopsRunKeeps == ASSUME ScheduleInv, NEW r \in DOMAIN starts, StopsRun(r)  PROVE ScheduleInv'
<1>1. PICK j : j = IF starts[r].job = "alive" THEN "ended" ELSE starts[r].job
  OBVIOUS
<1>2. PICK e : e = [starts[r] EXCEPT !.status = "stopped", !.to = minute, !.job = j]
  OBVIOUS
<1>3. /\ starts' = [starts EXCEPT ![r] = e] /\ MutexFree /\ Asking
      /\ UNCHANGED <<minute, cronOf, seen, workers, tick, ticked, looks>>
  BY <1>1, <1>2 DEF StopsRun
<1>4. starts[r] \in Start /\ starts[r].job \in Jobs /\ minute \in Minutes
  BY ShapeFacts, StartFields DEF ScheduleInv, ScheduleShape
<1>5. j \in Jobs /\ j # "alive" /\ "stopped" \in {"running", "done", "stopped"}
  BY <1>1, <1>4 DEF Jobs
<1>6. /\ e \in Start /\ e.pipe = starts[r].pipe /\ e.trigger = starts[r].trigger
      /\ e.from = starts[r].from /\ e.due = starts[r].due /\ e.delivery = starts[r].delivery
      /\ e.listed = starts[r].listed /\ e.beside = starts[r].beside /\ e.dodged = starts[r].dodged
      /\ e.status = "stopped" /\ e.to = minute /\ e.job = j
  BY <1>2, <1>4, <1>5 DEF Start
<1>7. SameRuns
  BY <1>3, <1>5, <1>6, RowChanged
<1>8. \A w \in Workers : workers[w].pc # "act"
  BY <1>3 DEF MutexFree, Holds
<1>9. workers[Ticker].pc = "idle"
  BY <1>3 DEF MutexFree, Holds, Workers
<1>10. cronOf' \in [Pipes -> CronCols \cup {"none"}]
  BY <1>3 DEF ScheduleInv, ScheduleShape
<1> QED
  BY <1>3, <1>7, <1>8, <1>9, <1>10, RunsAlone

\* The goroutine of a request does something; rows of runs may follow.
LEMMA CallerMoves ==
    ASSUME ScheduleInv, SameRuns, NEW c \in Callers, NEW e \in WorkerType,
           workers' = [workers EXCEPT ![c] = e], UNCHANGED <<minute, tick, ticked, looks>>,
           cronOf' \in [Pipes -> CronCols \cup {"none"}], seen \subseteq seen', seen' \subseteq Deliveries,
           scheduleTally' = scheduleTally \/ Asking,
           e.pc = "act" => MutexFree, WorkerOK(c)', \A w \in Workers : DeliveryOK(w)',
           workers[Ticker].pc = "idle" \/ \A r \in DOMAIN starts : RowStays(r),
           \A w \in Workers : w # c /\ workers[w].pc = "act" => \A r \in DOMAIN starts : RowStays(r),
           \A r \in DOMAIN starts, p \in Pipes :
               starts[r].pipe = p /\ starts'[r].status = "running" /\ Leaving(p)' =>
                   Leaving(p) \/ starts'[r].dodged
    PROVE  ScheduleInv'
<1>1. ScheduleShape /\ minute \in Minutes /\ minute <= minute /\ Ticker \in Workers /\ c \in Workers
  BY ShapeFacts DEF ScheduleInv, ScheduleShape, Workers
<1>2. c # Ticker
  BY ScheduleNames
<1>3. /\ workers' \in [Workers -> WorkerType] /\ workers'[c] = e
      /\ \A v \in Workers : v # c => workers'[v] = workers[v]
  BY <1>1, WorkerPut
<1>4. \A w \in Workers : WorkerOK(w)'
  <2>1. TAKE w \in Workers
  <2>2. CASE w = c
    BY <2>2
  <2>3. CASE w # c
    <3>1. workers[w].pc = "act" => workers[w].run \in DOMAIN starts
      <4>1. WorkerOK(w) /\ workers[w].run \in Nat /\ DOMAIN starts = 1 .. Len(starts)
        BY <1>1, ShapeFacts DEF ScheduleInv
      <4> QED
        BY <4>1, ShapeFacts, <1>1 DEF WorkerOK
    <3>2. Len(starts') \in Nat /\ Len(starts) <= Len(starts')
      BY <1>1, ShapeFacts DEF SameRuns
    <3> QED
      BY <1>3, <2>3, <3>1, <3>2, WorkerStands
  <2> QED
    BY <2>2, <2>3
<1>5. OneHolder'
  <2>1. \A v \in Workers : v # c => (Holds(v)' <=> Holds(v))
    BY <1>3 DEF Holds
  <2>2. Holds(c)' => MutexFree
    BY <1>2, <1>3 DEF Holds
  <2> QED
    BY <1>1, <2>1, <2>2 DEF ScheduleInv, OneHolder, MutexFree
<1>6. workers'[Ticker] = workers[Ticker]
  BY <1>1, <1>2, <1>3
<1>7. TickOK'
  BY <1>1, <1>6, TickStands
<1>8. LooksOK'
  BY <1>1, <1>6, LooksStand
<1>9. \A r \in DOMAIN starts' : RunOK(r)'
  BY <1>1, RunsFollow
<1>10. ScheduleShape'
  <2>1. scheduleTally' \in [calls : 0 .. MaxAskings, faults : SUBSET ScheduleFaults]
    BY <1>1, AskingTyped DEF ScheduleShape
  <2> QED
    BY <1>1, <1>3, <2>1 DEF ScheduleShape, SameRuns
<1> QED
  BY <1>4, <1>5, <1>7, <1>8, <1>9, <1>10 DEF ScheduleInv

\* A request reads the row of a pipeline.
LEMMA AsksTyped ==
    ASSUME ScheduleInv, NEW c \in Callers, NEW p \in Pipes, NEW pc \in WorkerPCs, AsksPipe(c, p, pc)
    PROVE  \E e \in WorkerType :
               /\ workers' = [workers EXCEPT ![c] = e]
               /\ e.pc = pc /\ e.pipe = p /\ e.cron = cronOf[p]
               /\ e.run = 0 /\ e.listed = 0 /\ e.trigger = "manual" /\ e.delivery = Blank
<1>1. PICK e : e = [NoWork EXCEPT !.pc = pc, !.pipe = p, !.cron = cronOf[p]]
  OBVIOUS
<1>2. workers' = [workers EXCEPT ![c] = e]
  BY <1>1 DEF AsksPipe
<1>3. p \in Pipes /\ cronOf[p] \in CronCols
  BY DEF AsksPipe, ScheduleInv, ScheduleShape, Existing
<1>4. e \in WorkerType
  BY <1>1, <1>3, NoWorkTyped DEF WorkerType
<1>5. /\ e.pc = pc /\ e.pipe = p /\ e.cron = cronOf[p]
      /\ e.run = 0 /\ e.listed = 0 /\ e.trigger = "manual" /\ e.delivery = Blank
  BY <1>1, NoWorkTyped DEF NoWork
<1> QED
  BY <1>2, <1>4, <1>5

LEMMA AsksKeeps ==
    ASSUME ScheduleInv, NEW c \in Callers, NEW p \in Pipes, NEW pc \in {"insert", "update"},
           AsksPipe(c, p, pc), UNCHANGED starts
    PROVE  ScheduleInv'
<1>1. pc \in WorkerPCs /\ p \in Existing /\ Asking /\ UNCHANGED <<minute, cronOf, seen, tick, ticked, looks>>
  BY DEF AsksPipe, WorkerPCs
<1>2. PICK e \in WorkerType :
          /\ workers' = [workers EXCEPT ![c] = e]
          /\ e.pc = pc /\ e.pipe = p /\ e.cron = cronOf[p]
          /\ e.run = 0 /\ e.listed = 0 /\ e.trigger = "manual" /\ e.delivery = Blank
  BY <1>1, AsksTyped
<1>4. SameRuns /\ \A r \in DOMAIN starts : RowStays(r)
  BY RunsUntouched
<1>5. c \in Workers /\ c # Ticker /\ ScheduleShape /\ Len(starts) \in Nat
  BY ScheduleNames, ShapeFacts DEF Workers, ScheduleInv
<1>6. workers'[c] = e /\ \A v \in Workers : v # c => workers'[v] = workers[v]
  BY <1>2, <1>5, WorkerPut
<1>7. WorkerOK(c)'
  BY <1>2, <1>5, <1>6 DEF WorkerOK
<1>8. \A w \in Workers : DeliveryOK(w)'
  BY <1>1, <1>2, <1>6, DeliveriesStand
<1>9. ASSUME NEW q \in Pipes, Leaving(q)'  PROVE Leaving(q)
  BY <1>1, <1>2, <1>5, <1>6, <1>9 DEF Leaving, Existing, Workers
<1>10. cronOf' \in [Pipes -> CronCols \cup {"none"}] /\ seen \subseteq seen' /\ seen' \subseteq Deliveries
  BY <1>1, <1>5 DEF ScheduleShape
<1> QED
  BY <1>1, <1>2, <1>4, <1>7, <1>8, <1>9, <1>10, CallerMoves

LEMMA AsksDeleteKeeps ==
    ASSUME ScheduleInv, NEW c \in Callers, NEW p \in Pipes, AsksDelete(c, p)  PROVE ScheduleInv'
<1>1. /\ AsksPipe(c, p, "delete") /\ p \in Existing /\ Asking
      /\ UNCHANGED <<minute, cronOf, seen, tick, ticked, looks>>
  BY DEF AsksDelete, AsksPipe
<1>2. PICK e \in WorkerType :
          /\ workers' = [workers EXCEPT ![c] = e]
          /\ e.pc = "delete" /\ e.pipe = p /\ e.cron = cronOf[p]
          /\ e.run = 0 /\ e.listed = 0 /\ e.trigger = "manual" /\ e.delivery = Blank
  <2>1. "delete" \in WorkerPCs
    BY DEF WorkerPCs
  <2> QED
    BY <1>1, <2>1, AsksTyped
<1>3. c \in Workers /\ c # Ticker /\ ScheduleShape /\ Len(starts) \in Nat /\ DOMAIN starts = 1 .. Len(starts)
  BY ScheduleNames, ShapeFacts DEF Workers, ScheduleInv
<1>4. SameRuns /\ \A r \in DOMAIN starts : RowStays(r) /\ (r \in UnderWay(p) => starts'[r].dodged)
  <2>1. starts' = [r \in DOMAIN starts |->
                     IF r \in UnderWay(p) THEN [starts[r] EXCEPT !.dodged = TRUE] ELSE starts[r]]
    BY DEF AsksDelete
  <2>2. DOMAIN starts' = 1 .. Len(starts)
    BY <1>3, <2>1
  <2>3. ASSUME NEW r \in DOMAIN starts
        PROVE  starts'[r] \in Start /\ Follows(r) /\ RowStays(r) /\ (r \in UnderWay(p) => starts'[r].dodged)
    <3>1. starts[r] \in Start /\ RunOK(r)
      BY <1>3, ShapeFacts DEF ScheduleInv
    <3>2. CASE r \in UnderWay(p)
      <4>1. PICK e1 : e1 = [starts[r] EXCEPT !.dodged = TRUE]
        OBVIOUS
      <4>2. /\ e1 \in Start /\ e1.pipe = starts[r].pipe /\ e1.trigger = starts[r].trigger
            /\ e1.from = starts[r].from /\ e1.due = starts[r].due /\ e1.delivery = starts[r].delivery
            /\ e1.listed = starts[r].listed /\ e1.beside = starts[r].beside
            /\ e1.status = starts[r].status /\ e1.to = starts[r].to /\ e1.job = starts[r].job /\ e1.dodged
        BY <3>1, <4>1 DEF Start
      <4>3. starts'[r] = e1
        BY <2>1, <3>2, <4>1
      <4> QED
        BY <3>1, <4>2, <4>3 DEF Follows, RowStays, RunOK
    <3>3. CASE r \notin UnderWay(p)
      <4>1. starts'[r] = starts[r]
        BY <2>1, <3>3
      <4> QED
        BY <3>1, <3>3, <4>1 DEF Follows, RowStays, RunOK
    <3> QED
      BY <3>2, <3>3
  <2>4. starts' \in Seq(Start) /\ Len(starts') = Len(starts)
    <3>1. starts' = [r \in 1 .. Len(starts) |-> starts'[r]]
      BY <1>3, <2>1
    <3>2. \A r \in 1 .. Len(starts) : starts'[r] \in Start
      BY <1>3, <2>3
    <3> QED
      BY <1>3, <3>1, <3>2
  <2> QED
    BY <1>3, <2>2, <2>3, <2>4 DEF SameRuns
<1>5. workers'[c] = e /\ \A v \in Workers : v # c => workers'[v] = workers[v]
  BY <1>2, <1>3, WorkerPut
<1>6. WorkerOK(c)'
  <2>1. Len(starts') \in Nat
    BY <1>3, <1>4 DEF SameRuns
  <2> QED
    BY <1>2, <1>3, <1>5, <2>1 DEF WorkerOK
<1>7. \A w \in Workers : DeliveryOK(w)'
  <2>1. DOMAIN starts' = DOMAIN starts /\ \A r \in DOMAIN starts : starts'[r].delivery = starts[r].delivery
    BY <1>4 DEF SameRuns, Follows
  <2> QED
    BY <1>1, <1>2, <1>5, <2>1, DeliveriesStand
<1>8. ASSUME NEW q \in Pipes, Leaving(q)'  PROVE Leaving(q) \/ q = p
  BY <1>1, <1>2, <1>3, <1>5, <1>8 DEF Leaving, Existing, Workers
<1>9. \A r \in DOMAIN starts, q \in Pipes :
          starts[r].pipe = q /\ starts'[r].status = "running" /\ Leaving(q)' => Leaving(q) \/ starts'[r].dodged
  <2>1. \A r \in DOMAIN starts : starts[r].pipe = p /\ starts'[r].status = "running" => r \in UnderWay(p)
    BY <1>4 DEF RowStays, UnderWay, StartsOf
  <2> QED
    BY <1>4, <1>8, <2>1
<1>10. cronOf' \in [Pipes -> CronCols \cup {"none"}] /\ seen \subseteq seen' /\ seen' \subseteq Deliveries
  BY <1>1, <1>3 DEF ScheduleShape
<1> QED
  BY <1>1, <1>2, <1>4, <1>6, <1>7, <1>9, <1>10, CallerMoves

LEMMA DeliveredKeeps ==
    ASSUME ScheduleInv, NEW c \in Callers, NEW p \in Pipes, NEW d \in Deliveries, Delivered(c, p, d)
    PROVE  ScheduleInv'
<1>1. /\ p \in Existing /\ Asking /\ d \notin seen /\ seen' = seen \cup {d}
      /\ UNCHANGED <<minute, cronOf, starts, tick, ticked, looks>>
  BY DEF Delivered
<1>2. PICK e : e = [NoWork EXCEPT !.pc = "insert", !.pipe = p, !.trigger = "webhook", !.delivery = d]
  OBVIOUS
<1>3. workers' = [workers EXCEPT ![c] = e]
  BY <1>2 DEF Delivered
<1>4. e \in WorkerType
  <2>1. "insert" \in WorkerPCs /\ "webhook" \in Triggers
    BY DEF WorkerPCs, Triggers
  <2> QED
    BY <1>2, <2>1, NoWorkTyped DEF WorkerType
<1>5. /\ e.pc = "insert" /\ e.pipe = p /\ e.run = 0 /\ e.listed = 0 /\ e.trigger = "webhook"
      /\ e.delivery = d
  BY <1>2, NoWorkTyped DEF NoWork
<1>6. c \in Workers /\ c # Ticker /\ ScheduleShape /\ Len(starts) \in Nat
  BY ScheduleNames, ShapeFacts DEF Workers, ScheduleInv
<1>7. workers'[c] = e /\ \A v \in Workers : v # c => workers'[v] = workers[v]
  BY <1>3, <1>4, <1>6, WorkerPut
<1>8. SameRuns /\ \A r \in DOMAIN starts : RowStays(r)
  BY <1>1, RunsUntouched
<1>9. WorkerOK(c)'
  BY <1>1, <1>5, <1>6, <1>7 DEF WorkerOK
<1>10. \A w \in Workers : DeliveryOK(w)'
  <2>1. TAKE w \in Workers
  <2>2. \A v \in Workers : workers[v].pc = "insert" /\ workers[v].delivery # Blank => workers[v].delivery # d
    BY <1>1 DEF ScheduleInv, DeliveryOK
  <2>3. \A r \in DOMAIN starts : starts[r].delivery # Blank => starts[r].delivery # d
    BY <1>1 DEF ScheduleInv, RunOK
  <2>4. CASE w = c
    BY <1>1, <1>5, <1>6, <1>7, <2>2, <2>3, <2>4 DEF DeliveryOK
  <2>5. CASE w # c
    BY <1>1, <1>5, <1>6, <1>7, <2>2, <2>3, <2>5 DEF DeliveryOK, ScheduleInv
  <2> QED
    BY <2>4, <2>5
<1>11. ASSUME NEW q \in Pipes, Leaving(q)'  PROVE Leaving(q)
  BY <1>1, <1>5, <1>6, <1>7, <1>11 DEF Leaving, Existing, Workers
<1>12. cronOf' \in [Pipes -> CronCols \cup {"none"}] /\ seen \subseteq seen' /\ seen' \subseteq Deliveries
  BY <1>1, <1>6 DEF ScheduleShape
<1> QED
  BY <1>1, <1>3, <1>4, <1>5, <1>8, <1>9, <1>10, <1>11, <1>12, CallerMoves

\* A request that is over.
LEMMA RestsKeeps ==
    ASSUME ScheduleInv, NEW c \in Callers, Rests(c),
           UNCHANGED <<minute, starts, seen, tick, ticked, looks, scheduleTally>>,
           cronOf' \in [Pipes -> CronCols \cup {"none"}],
           \A q \in Pipes : Leaving(q)' => Leaving(q)
    PROVE  ScheduleInv'
<1>1. c \in Workers /\ c # Ticker /\ ScheduleShape /\ Len(starts) \in Nat
  BY ScheduleNames, ShapeFacts DEF Workers, ScheduleInv
<1>2. workers' = [workers EXCEPT ![c] = NoWork] /\ NoWork \in WorkerType /\ NoWork.pc = "idle"
  BY NoWorkTyped DEF Rests
<1>3. workers'[c] = NoWork /\ \A v \in Workers : v # c => workers'[v] = workers[v]
  BY <1>1, <1>2, WorkerPut
<1>4. SameRuns /\ \A r \in DOMAIN starts : RowStays(r)
  BY RunsUntouched
<1>5. WorkerOK(c)'
  BY <1>1, <1>3, NoWorkTyped DEF WorkerOK
<1>6. \A w \in Workers : DeliveryOK(w)'
  BY <1>2, <1>3, DeliveriesStand
<1>7. seen \subseteq seen' /\ seen' \subseteq Deliveries
  BY <1>1 DEF ScheduleShape
<1> QED
  BY <1>2, <1>4, <1>5, <1>6, <1>7, CallerMoves

LEMMA UpdatesKeeps == ASSUME ScheduleInv, NEW c \in Callers, Updates(c)  PROVE ScheduleInv'
<1>1. PICK cron \in CronCols \cup {workers[c].cron} :
          cronOf' = IF workers[c].pipe \in Existing THEN [cronOf EXCEPT ![workers[c].pipe] = cron] ELSE cronOf
  BY DEF Updates
<1>2. /\ workers[c].pc = "update" /\ Rests(c)
      /\ UNCHANGED <<minute, starts, seen, tick, ticked, looks, scheduleTally>>
  BY DEF Updates
<1>3. c \in Workers /\ c # Ticker /\ ScheduleShape /\ workers[c] \in WorkerType
  BY ScheduleNames, ShapeFacts DEF Workers, ScheduleInv
<1>4. cron \in CronCols
  BY <1>3, WorkerFields
<1>5. cronOf' \in [Pipes -> CronCols \cup {"none"}] /\ \A q \in Pipes : cronOf'[q] = "none" => cronOf[q] = "none"
  BY <1>1, <1>3, <1>4, ScheduleNames DEF ScheduleShape, Existing
<1>6. \A v \in Workers : workers'[v] = NoWork \/ workers'[v] = workers[v]
  BY <1>2, <1>3, NoWorkTyped, WorkerPut DEF Rests
<1>7. ASSUME NEW q \in Pipes, Leaving(q)'  PROVE Leaving(q)
  BY <1>5, <1>6, <1>7, NoWorkTyped DEF Leaving, Existing, Workers
<1> QED
  BY <1>2, <1>5, <1>7, RestsKeeps

LEMMA DeletesKeeps == ASSUME ScheduleInv, NEW c \in Callers, Deletes(c)  PROVE ScheduleInv'
<1>1. /\ workers[c].pc = "delete" /\ Rests(c) /\ cronOf' = [cronOf EXCEPT ![workers[c].pipe] = "none"]
      /\ UNCHANGED <<minute, starts, seen, tick, ticked, looks, scheduleTally>>
  BY DEF Deletes
<1>2. c \in Workers /\ c # Ticker /\ ScheduleShape /\ WorkerOK(c)
  BY ScheduleNames, ShapeFacts DEF Workers, ScheduleInv
<1>3. workers[c].pipe \in Pipes
  BY <1>1, <1>2 DEF WorkerOK
<1>4. /\ cronOf' \in [Pipes -> CronCols \cup {"none"}]
      /\ \A q \in Pipes : cronOf'[q] = "none" => cronOf[q] = "none" \/ q = workers[c].pipe
  BY <1>1, <1>2, <1>3 DEF ScheduleShape
<1>5. \A v \in Workers : workers'[v] = NoWork \/ workers'[v] = workers[v]
  BY <1>1, <1>2, NoWorkTyped, WorkerPut DEF Rests
<1>6. ASSUME NEW q \in Pipes, Leaving(q)'  PROVE Leaving(q)
  BY <1>1, <1>4, <1>5, <1>6, NoWorkTyped DEF Leaving, Existing, Workers
<1> QED
  BY <1>1, <1>4, <1>6, RestsKeeps

LEMMA CreatesPipeKeeps ==
    ASSUME ScheduleInv, NEW p \in Pipes, NEW cron \in CronCols, CreatesPipe(p, cron)  PROVE ScheduleInv'
<1>1. /\ cronOf' = [cronOf EXCEPT ![p] = cron] /\ Asking
      /\ UNCHANGED <<minute, starts, seen, workers, tick, ticked, looks>>
  BY DEF CreatesPipe
<1>2. SameRuns /\ \A r \in DOMAIN starts : RowStays(r)
  BY <1>1, RunsUntouched
<1>3. /\ cronOf' \in [Pipes -> CronCols \cup {"none"}]
      /\ \A q \in Pipes : cronOf'[q] = "none" => cronOf[q] = "none"
  BY <1>1, ScheduleNames DEF ScheduleInv, ScheduleShape
<1> QED
  BY <1>1, <1>2, <1>3, RunsAlone

--------------------------------
\* Schedules: runs are driven.

\* A goroutine reads the rows of a run.
LEMMA ReadTyped ==
    ASSUME ScheduleInv, NEW w \in Workers, NEW r \in DOMAIN starts, ReadsRun(w, r)
    PROVE  \E e \in WorkerType :
               /\ workers' = [workers EXCEPT ![w] = e]
               /\ e.pc = "act" /\ e.run = r /\ e.listed = workers[w].listed
               /\ e.trigger = workers[w].trigger /\ e.delivery = workers[w].delivery
               /\ e.found = "none" => starts[r].status = "running" /\ starts[r].job = "none"
               /\ e.found = "ended" => starts[r].job = "ended"
<1>1. PICK f : f = IF starts[r].pipe \in Existing /\ starts[r].status = "running" THEN starts[r].job ELSE "alive"
  OBVIOUS
<1>2. PICK e : e = [workers[w] EXCEPT !.pc = "act", !.run = r, !.found = f]
  OBVIOUS
<1>3. workers' = [workers EXCEPT ![w] = e]
  BY <1>1, <1>2 DEF ReadsRun
<1>4. /\ workers[w] \in WorkerType /\ starts[r].job \in Jobs /\ r \in RunNos
      /\ "alive" \in Jobs /\ "act" \in WorkerPCs
  <2>1. ScheduleShape /\ Len(starts) <= MaxStarts
    BY DEF ScheduleInv, ScheduleShape
  <2>2. workers[w] \in WorkerType /\ starts[r] \in Start /\ r \in RunNos
    BY <2>1, ShapeFacts, ScheduleBounds DEF RunNos
  <2> QED
    BY <2>2, StartFields DEF Jobs, WorkerPCs
<1>5. f \in Jobs
  BY <1>1, <1>4
<1>6. e \in WorkerType
  BY <1>2, <1>4, <1>5 DEF WorkerType
<1>7. /\ e.pc = "act" /\ e.run = r /\ e.listed = workers[w].listed
      /\ e.trigger = workers[w].trigger /\ e.delivery = workers[w].delivery /\ e.found = f
  BY <1>2, <1>4 DEF WorkerType
<1> QED
  BY <1>1, <1>3, <1>6, <1>7

LEMMA ReadOK ==
    ASSUME ScheduleInv, UNCHANGED starts, NEW w \in Workers, NEW r \in DOMAIN starts,
           workers[w].pc # "idle", workers'[w].pc = "act", workers'[w].run = r,
           workers'[w].listed = workers[w].listed,
           workers'[w].found = "none" => starts[r].status = "running" /\ starts[r].job = "none",
           workers'[w].found = "ended" => starts[r].job = "ended"
    PROVE  WorkerOK(w)'
<1>1. ScheduleShape /\ Len(starts) \in Nat /\ r \in 1 .. Len(starts) /\ workers[w].listed <= Len(starts)
  BY ShapeFacts DEF ScheduleInv, WorkerOK
<1> QED
  BY <1>1 DEF WorkerOK

LEMMA CallerReadsKeeps == ASSUME ScheduleInv, NEW c \in Callers, TicksNewRun(c)  PROVE ScheduleInv'
<1>1. c \in Workers /\ c # Ticker /\ ScheduleShape /\ WorkerOK(c) /\ workers[c].run \in Nat
      /\ DOMAIN starts = 1 .. Len(starts) /\ Len(starts) \in Nat
  BY ScheduleNames, ShapeFacts DEF Workers, ScheduleInv
<1>2. /\ workers[c].pc = "read" /\ MutexFree /\ ReadsRun(c, workers[c].run)
      /\ UNCHANGED <<minute, cronOf, starts, seen, tick, ticked, looks, scheduleTally>>
  BY <1>1 DEF TicksNewRun
<1>3. workers[c].run \in DOMAIN starts
  BY <1>1, <1>2 DEF WorkerOK
<1>4. PICK e \in WorkerType :
          /\ workers' = [workers EXCEPT ![c] = e]
          /\ e.pc = "act" /\ e.run = workers[c].run /\ e.listed = workers[c].listed
          /\ e.trigger = workers[c].trigger /\ e.delivery = workers[c].delivery
          /\ e.found = "none" =>
                 starts[workers[c].run].status = "running" /\ starts[workers[c].run].job = "none"
          /\ e.found = "ended" => starts[workers[c].run].job = "ended"
  BY <1>1, <1>2, <1>3, ReadTyped
<1>5. workers'[c] = e /\ \A v \in Workers : v # c => workers'[v] = workers[v]
  BY <1>1, <1>4, WorkerPut
<1>6. WorkerOK(c)'
  BY <1>1, <1>2, <1>3, <1>4, <1>5, ReadOK
<1>7. SameRuns /\ \A r \in DOMAIN starts : RowStays(r)
  BY <1>2, RunsUntouched
<1>8. \A w \in Workers : DeliveryOK(w)'
  BY <1>2, <1>4, <1>5, DeliveriesStand
<1>9. ASSUME NEW q \in Pipes, Leaving(q)'  PROVE Leaving(q)
  BY <1>1, <1>2, <1>4, <1>5, <1>9 DEF Leaving, Existing, Workers
<1>10. cronOf' \in [Pipes -> CronCols \cup {"none"}] /\ seen \subseteq seen' /\ seen' \subseteq Deliveries
  BY <1>1, <1>2 DEF ScheduleShape
<1> QED
  BY <1>2, <1>4, <1>6, <1>7, <1>8, <1>9, <1>10, CallerMoves

\* What driving a run does to its row.
LEMMA RunDriven ==
    ASSUME ScheduleInv, NEW w \in Workers, NEW next, DrivesRun(w, next)
    PROVE  /\ SameRuns /\ workers[w].run \in DOMAIN starts
           /\ \A q \in DOMAIN starts :
                 /\ q # workers[w].run => RowStays(q)
                 /\ starts'[q].status = starts[q].status \/ workers[w].found = "ended"
<1> DEFINE r == workers[w].run
<1>1. ScheduleShape /\ WorkerOK(w) /\ workers[w].pc = "act" /\ r \in Nat
      /\ DOMAIN starts = 1 .. Len(starts) /\ Len(starts) \in Nat
  BY ShapeFacts DEF ScheduleInv, DrivesRun
<1>2. r \in DOMAIN starts
  BY <1>1 DEF WorkerOK
<1>3. starts[r] \in Start /\ minute \in Minutes /\ RunOK(r)
  BY <1>1, <1>2, ShapeFacts DEF ScheduleInv, ScheduleShape
<1>4. CASE UNCHANGED starts
  BY <1>2, <1>4, RunsUntouched
<1>5. CASE workers[w].found = "none"
  <2>1. starts[r].status = "running" /\ starts[r].job = "none"
    BY <1>1, <1>5 DEF WorkerOK
  <2>2. PICK job \in {"alive", "none"} : starts' = [starts EXCEPT ![r] = [starts[r] EXCEPT !.job = job]]
    BY <1>5 DEF DrivesRun
  <2>3. PICK e : e = [starts[r] EXCEPT !.job = job]
    OBVIOUS
  <2>4. job \in Jobs
    BY DEF Jobs
  <2>5. /\ e \in Start /\ e.pipe = starts[r].pipe /\ e.trigger = starts[r].trigger
        /\ e.from = starts[r].from /\ e.due = starts[r].due /\ e.delivery = starts[r].delivery
        /\ e.listed = starts[r].listed /\ e.beside = starts[r].beside /\ e.dodged = starts[r].dodged
        /\ e.status = starts[r].status /\ e.to = starts[r].to /\ e.job = job
    BY <1>3, <2>3, <2>4, JobChanged
  <2>6. starts' = [starts EXCEPT ![r] = e]
    BY <2>2, <2>3
  <2> HIDE DEF r
  <2>7. SameRuns /\ starts'[r] = e /\ \A q \in DOMAIN starts : q # r => RowStays(q)
    BY <1>2, <2>1, <2>5, <2>6, RowChanged
  <2> QED
    BY <1>2, <2>5, <2>7 DEF RowStays, r
<1>6. CASE workers[w].found = "ended" /\ starts[r].pipe \in Existing /\ starts[r].status = "running"
  <2>1. starts[r].job = "ended"
    BY <1>1, <1>6 DEF WorkerOK
  <2>2. PICK e : e = [starts[r] EXCEPT !.status = "done", !.to = minute]
    OBVIOUS
  <2>3. starts' = [starts EXCEPT ![r] = e]
    BY <1>6, <2>2 DEF DrivesRun
  <2>4. /\ e \in Start /\ e.pipe = starts[r].pipe /\ e.trigger = starts[r].trigger
        /\ e.from = starts[r].from /\ e.due = starts[r].due /\ e.delivery = starts[r].delivery
        /\ e.listed = starts[r].listed /\ e.beside = starts[r].beside /\ e.dodged = starts[r].dodged
        /\ e.status = "done" /\ e.to = minute /\ e.job = starts[r].job
    BY <1>3, <2>2 DEF Start
  <2> HIDE DEF r
  <2>5. SameRuns /\ starts'[r] = e /\ \A q \in DOMAIN starts : q # r => RowStays(q)
    BY <1>2, <2>1, <2>3, <2>4, RowChanged
  <2> QED
    BY <1>2, <1>6, <2>5 DEF r
<1> QED
  BY <1>4, <1>5, <1>6 DEF DrivesRun

LEMMA CallerDrivesKeeps == ASSUME ScheduleInv, NEW c \in Callers, DrivesRun(c, "idle")  PROVE ScheduleInv'
<1>1. c \in Workers /\ c # Ticker /\ Ticker \in Workers /\ ScheduleShape /\ Len(starts) \in Nat
  BY ScheduleNames, ShapeFacts DEF Workers, ScheduleInv
<1>2. /\ workers[c].pc = "act" /\ workers' = [workers EXCEPT ![c] = [NoWork EXCEPT !.pc = "idle"]]
      /\ UNCHANGED <<minute, cronOf, seen, tick, ticked, looks, scheduleTally>>
  BY DEF DrivesRun
<1>3. PICK e : e = [NoWork EXCEPT !.pc = "idle"]
  OBVIOUS
<1>4. /\ e \in WorkerType /\ e.pc = "idle" /\ e.run = 0 /\ e.listed = 0 /\ workers' = [workers EXCEPT ![c] = e]
  <2>1. "idle" \in WorkerPCs
    BY DEF WorkerPCs
  <2> QED
    BY <1>2, <1>3, <2>1, RestTyped
<1>5. workers'[c] = e /\ \A v \in Workers : v # c => workers'[v] = workers[v]
  BY <1>1, <1>4, WorkerPut
<1>6. SameRuns
  BY <1>1, RunDriven
<1>7. workers[Ticker].pc = "idle" /\ \A v \in Workers : v # c => workers[v].pc # "act"
  BY <1>1, <1>2 DEF ScheduleInv, OneHolder, Holds
<1>8. WorkerOK(c)'
  <2>1. Len(starts') \in Nat
    BY <1>1, <1>6 DEF SameRuns
  <2> QED
    BY <1>1, <1>4, <1>5, <2>1 DEF WorkerOK
<1>9. \A w \in Workers : DeliveryOK(w)'
  <2>1. DOMAIN starts' = DOMAIN starts /\ \A r \in DOMAIN starts : starts'[r].delivery = starts[r].delivery
    BY <1>6 DEF SameRuns, Follows
  <2> QED
    BY <1>2, <1>4, <1>5, <2>1, DeliveriesStand
<1>10. ASSUME NEW q \in Pipes, Leaving(q)'  PROVE Leaving(q)
  BY <1>1, <1>2, <1>4, <1>5, <1>10 DEF Leaving, Existing, Workers
<1>11. cronOf' \in [Pipes -> CronCols \cup {"none"}] /\ seen \subseteq seen' /\ seen' \subseteq Deliveries
  BY <1>1, <1>2 DEF ScheduleShape
<1> QED
  BY <1>2, <1>4, <1>6, <1>7, <1>8, <1>9, <1>10, <1>11, CallerMoves

--------------------------------
\* Schedules: the loop.

\* The goroutine of the loop does something, with the mutex, and rows of runs may follow.
LEMMA TickerMoves ==
    ASSUME ScheduleInv, SameRuns, NEW e \in WorkerType, workers' = [workers EXCEPT ![Ticker] = e],
           tick' \in TickType, ticked' \in BOOLEAN, looks' \subseteq Look,
           UNCHANGED <<minute, cronOf, seen, scheduleTally>>,
           workers[Ticker].pc # "idle" \/ MutexFree,
           e.pc # "insert" \/ e.delivery = Blank,
           WorkerOK(Ticker)', TickOK', LooksOK'
    PROVE  ScheduleInv'
<1>1. ScheduleShape /\ minute \in Minutes /\ minute <= minute /\ Ticker \in Workers /\ Ticker \notin Callers
  BY ShapeFacts, ScheduleNames DEF ScheduleInv, ScheduleShape, Workers
<1>2. /\ workers' \in [Workers -> WorkerType] /\ workers'[Ticker] = e
      /\ \A v \in Workers : v # Ticker => workers'[v] = workers[v]
  BY <1>1, WorkerPut
<1>3. \A v \in Workers : v # Ticker => ~ Holds(v)
  <2>1. Holds(Ticker) \/ MutexFree
    BY DEF Holds
  <2> QED
    BY <1>1, <2>1 DEF ScheduleInv, OneHolder, MutexFree
<1>4. \A w \in Workers : WorkerOK(w)'
  <2>1. TAKE w \in Workers
  <2>2. CASE w = Ticker
    BY <2>2
  <2>3. CASE w # Ticker
    <3>1. workers[w].pc # "act"
      BY <1>3, <2>3 DEF Holds
    <3>2. Len(starts') \in Nat /\ Len(starts) <= Len(starts')
      BY <1>1, ShapeFacts DEF SameRuns
    <3> QED
      BY <1>2, <2>3, <3>1, <3>2, WorkerStands
  <2> QED
    BY <2>2, <2>3
<1>5. OneHolder'
  BY <1>2, <1>3 DEF OneHolder, Holds
<1>6. \A w \in Workers : DeliveryOK(w)'
  <2>1. DOMAIN starts' = DOMAIN starts /\ \A r \in DOMAIN starts : starts'[r].delivery = starts[r].delivery
    BY DEF SameRuns, Follows
  <2> QED
    BY <1>2, <2>1, DeliveriesStand
<1>7. ASSUME NEW q \in Pipes, Leaving(q)'  PROVE Leaving(q)
  BY <1>1, <1>2, <1>7 DEF Leaving, Existing, Workers
<1>8. \A r \in DOMAIN starts' : RunOK(r)'
  BY <1>1, <1>7, RunsFollow
<1>9. ScheduleShape'
  BY <1>1, <1>2 DEF ScheduleShape, SameRuns
<1> QED
  BY <1>4, <1>5, <1>6, <1>8, <1>9 DEF ScheduleInv

\* The tick goes on.
LEMMA TickMoves ==
    ASSUME ScheduleInv, SameRuns, UNCHANGED minute, tick'.now = tick.now,
           tick'.crons \subseteq tick.crons, tick'.runs \subseteq DOMAIN starts,
           workers'[Ticker].pc # "idle",
           AtCrons' => AtCrons /\ \A r \in DOMAIN starts : starts'[r].status = starts[r].status,
           tick'.crons # {} => AtCrons',
           workers'[Ticker].pc \in {"cron", "drive"} => workers'[Ticker].trigger # "cron",
           workers'[Ticker].pc = "insert" =>
               /\ FiredAt(workers'[Ticker].pipe, tick.now) = {}
               /\ workers'[Ticker].delivery = Blank
               /\ \A c \in tick'.crons : c.pipe # workers'[Ticker].pipe
               /\ workers'[Ticker].listed # 0 => starts'[workers'[Ticker].listed].status # "running",
           workers'[Ticker].pc = "read" =>
               workers'[Ticker].trigger = "cron" /\ starts'[workers'[Ticker].run].job = "none",
           workers'[Ticker].pc = "act" /\ workers'[Ticker].trigger = "cron" =>
               workers'[Ticker].found # "ended"
    PROVE  TickOK'
<1> DEFINE k == workers'[Ticker]
<1>1. TickOK /\ minute' = minute /\ DOMAIN starts' = DOMAIN starts
  BY DEF ScheduleInv, SameRuns
<1>2. \A r \in DOMAIN starts : starts'[r].from = starts[r].from
  BY DEF SameRuns, Follows
<1>3. \A p, due : FiredAt(p, due)' = FiredAt(p, due) /\ FiredAt(p, due) \subseteq DOMAIN starts
  <2>1. \A p, due : FiredAt(p, due) \subseteq DOMAIN starts
    BY DEF FiredAt, StartsOf
  <2> QED
    BY <2>1, FiredStay
<1>4. tick'.now <= minute' /\ tick'.runs \subseteq DOMAIN starts'
  BY <1>1 DEF TickOK
<1>5. \A c, d \in tick'.crons : c.pipe = d.pipe => c = d
  BY <1>1 DEF TickOK
<1>6. AtCrons' => \A r \in DOMAIN starts' : starts'[r].from <= tick'.now \/ starts'[r].status = "running"
  <2>1. AtCrons => \A r \in DOMAIN starts : starts[r].from <= tick.now \/ starts[r].status = "running"
    BY <1>1 DEF TickOK
  <2> QED
    BY <1>1, <1>2, <2>1
<1>7. \A c \in tick'.crons : \A r \in FiredAt(c.pipe, tick.now) : starts'[r].from = tick.now
  <2>1. \A c \in tick.crons : \A r \in FiredAt(c.pipe, tick.now) : starts[r].from = tick.now
    BY <1>1 DEF TickOK
  <2> QED
    BY <1>2, <1>3, <2>1
<1>8. \A c \in tick'.crons : \A r \in FiredAt(c.pipe, tick.now)' : starts'[r].from = tick'.now
  <2>1. TAKE c \in tick'.crons
  <2>2. FiredAt(c.pipe, tick.now)' = FiredAt(c.pipe, tick.now)
    BY DEF FiredAt, StartsOf, SameRuns, Follows
  <2> QED
    BY <1>7, <2>2
<1>9. k.pc = "insert" => FiredAt(workers[Ticker].pipe, tick.now)' = {}
  BY DEF FiredAt, StartsOf, SameRuns, Follows
<1> QED
  BY <1>4, <1>5, <1>6, <1>8, <1>9 DEF TickOK

\* What the actions of the loop share.
LEMMA TickerFacts ==
    ASSUME ScheduleInv
    PROVE  /\ Ticker \in Workers /\ ScheduleShape /\ TickOK /\ WorkerOK(Ticker)
           /\ DOMAIN starts = 1 .. Len(starts) /\ Len(starts) \in Nat
           /\ workers[Ticker] \in WorkerType /\ workers[Ticker].run \in Nat
           /\ tick \in TickType /\ minute \in Minutes /\ minute <= minute
           /\ looks \subseteq Look /\ ticked \in BOOLEAN
           /\ (workers[Ticker].pc = "read" => workers[Ticker].run \in DOMAIN starts)
<1>1. Ticker \in Workers /\ ScheduleShape /\ TickOK
  BY DEF ScheduleInv, Workers
<1>2. WorkerOK(Ticker) /\ DOMAIN starts = 1 .. Len(starts) /\ Len(starts) \in Nat
      /\ workers[Ticker] \in WorkerType /\ workers[Ticker].run \in Nat /\ minute <= minute
  BY <1>1, ShapeFacts DEF ScheduleInv
<1>3. tick \in TickType /\ minute \in Minutes /\ looks \subseteq Look /\ ticked \in BOOLEAN
  BY <1>1 DEF ScheduleShape
<1>4. workers[Ticker].pc = "read" => workers[Ticker].run \in DOMAIN starts
  BY <1>2 DEF WorkerOK
<1> QED
  BY <1>1, <1>2, <1>3, <1>4

LEMMA TickerReadsKeeps == ASSUME ScheduleInv, TicksNewRun(Ticker)  PROVE ScheduleInv'
<1>1. /\ workers[Ticker].pc = "read" /\ ReadsRun(Ticker, workers[Ticker].run)
      /\ UNCHANGED <<minute, cronOf, starts, seen, tick, ticked, looks, scheduleTally>>
  BY DEF TicksNewRun
<1>2. workers[Ticker].run \in DOMAIN starts
  BY <1>1, TickerFacts
<1>3. PICK e \in WorkerType :
          /\ workers' = [workers EXCEPT ![Ticker] = e]
          /\ e.pc = "act" /\ e.run = workers[Ticker].run /\ e.listed = workers[Ticker].listed
          /\ e.trigger = workers[Ticker].trigger /\ e.delivery = workers[Ticker].delivery
          /\ e.found = "none" =>
                 starts[workers[Ticker].run].status = "running" /\ starts[workers[Ticker].run].job = "none"
          /\ e.found = "ended" => starts[workers[Ticker].run].job = "ended"
  BY <1>1, <1>2, TickerFacts, ReadTyped
<1>4. workers'[Ticker] = e
  BY <1>3, TickerFacts, WorkerPut
<1>5. WorkerOK(Ticker)'
  BY <1>1, <1>2, <1>3, <1>4, TickerFacts, ReadOK
<1>6. SameRuns /\ \A r \in DOMAIN starts : RowStays(r)
  BY <1>1, RunsUntouched
<1>7. workers[Ticker].trigger = "cron" /\ starts[workers[Ticker].run].job = "none"
  BY <1>1, TickerFacts DEF TickOK
<1>8. AtCrons /\ AtCrons'
  BY <1>1, <1>3, <1>4, <1>7 DEF AtCrons
<1>9. tick.runs \subseteq DOMAIN starts
  BY TickerFacts DEF TickOK
<1>10. TickOK'
  BY <1>1, <1>3, <1>4, <1>6, <1>7, <1>8, <1>9, TickMoves
<1>11. LooksOK'
  BY <1>1, <1>6, TickerFacts, LooksStand
<1> QED
  BY <1>1, <1>3, <1>5, <1>6, <1>10, <1>11, TickerFacts, TickerMoves

LEMMA TickerDrivesKeeps == ASSUME ScheduleInv, DrivesRun(Ticker, Back)  PROVE ScheduleInv'
<1>1. /\ workers[Ticker].pc = "act" /\ workers' = [workers EXCEPT ![Ticker] = [NoWork EXCEPT !.pc = Back]]
      /\ UNCHANGED <<minute, cronOf, seen, tick, ticked, looks, scheduleTally>>
  BY DEF DrivesRun
<1>2. PICK e : e = [NoWork EXCEPT !.pc = Back]
  OBVIOUS
<1>3. Back \in WorkerPCs /\ Back \in {"cron", "drive"} /\ (Back = "cron" <=> workers[Ticker].trigger = "cron")
  BY DEF Back, WorkerPCs
<1>4. /\ e \in WorkerType /\ e.pc = Back /\ e.run = 0 /\ e.listed = 0 /\ e.trigger = "manual"
      /\ workers' = [workers EXCEPT ![Ticker] = e]
  BY <1>1, <1>2, <1>3, RestTyped
<1>5. workers'[Ticker] = e
  BY <1>4, TickerFacts, WorkerPut
<1>6. SameRuns /\ \A q \in DOMAIN starts : starts'[q].status = starts[q].status \/ workers[Ticker].found = "ended"
  BY TickerFacts, RunDriven
<1>7. WorkerOK(Ticker)'
  <2>1. Len(starts') \in Nat
    BY <1>6, TickerFacts DEF SameRuns
  <2> QED
    BY <1>3, <1>4, <1>5, <2>1 DEF WorkerOK
<1>8. (AtCrons <=> AtCrons') /\ (AtCrons => workers[Ticker].found # "ended")
  <2>1. workers[Ticker].trigger = "cron" => workers[Ticker].found # "ended"
    BY <1>1, TickerFacts DEF TickOK
  <2> QED
    BY <1>1, <1>3, <1>4, <1>5, <2>1 DEF AtCrons
<1>9. tick.runs \subseteq DOMAIN starts /\ (tick.crons # {} => AtCrons)
  BY TickerFacts DEF TickOK
<1>10. TickOK'
  BY <1>1, <1>3, <1>4, <1>5, <1>6, <1>8, <1>9, TickMoves
<1>11. LooksOK'
  BY <1>1, <1>6, TickerFacts, LooksStand
<1> QED
  BY <1>1, <1>3, <1>4, <1>6, <1>7, <1>10, <1>11, TickerFacts, TickerMoves

LEMMA ListsActiveKeeps == ASSUME ScheduleInv, ListsActive  PROVE ScheduleInv'
<1>1. /\ workers[Ticker].pc = "cron" /\ tick.crons = {}
      /\ UNCHANGED <<minute, cronOf, starts, seen, ticked, looks, scheduleTally>>
  BY DEF ListsActive
<1>2. PICK R : R = UNION {UnderWay(p) : p \in Existing}
  OBVIOUS
<1>3. PICK t : t = [tick EXCEPT !.runs = R]
  OBVIOUS
<1>4. R \subseteq DOMAIN starts /\ R \in SUBSET RunNos
  <2>1. R \subseteq DOMAIN starts
    BY <1>2 DEF UnderWay, StartsOf
  <2>2. DOMAIN starts \subseteq RunNos
    BY TickerFacts, ScheduleBounds DEF RunNos, ScheduleShape
  <2> QED
    BY <2>1, <2>2
<1>5. t \in TickType /\ t.now = tick.now /\ t.crons = {} /\ t.runs = R /\ tick' = t
  <2>1. tick' = t
    BY <1>2, <1>3 DEF ListsActive
  <2> QED
    BY <1>1, <1>3, <1>4, <2>1, TickerFacts DEF TickType
<1>6. PICK e : e = [workers[Ticker] EXCEPT !.pc = "drive"]
  OBVIOUS
<1>7. /\ e \in WorkerType /\ e.pc = "drive" /\ e.run = workers[Ticker].run
      /\ e.listed = workers[Ticker].listed /\ e.trigger = workers[Ticker].trigger
  <2>1. "drive" \in WorkerPCs
    BY DEF WorkerPCs
  <2> QED
    BY <1>6, <2>1, TickerFacts DEF WorkerType
<1>8. workers' = [workers EXCEPT ![Ticker] = e]
  BY <1>6 DEF ListsActive, WorkerAt
<1>9. workers'[Ticker] = e
  BY <1>7, <1>8, TickerFacts, WorkerPut
<1>10. SameRuns
  BY <1>1, RunsUntouched
<1>11. WorkerOK(Ticker)'
  BY <1>1, <1>7, <1>9, TickerFacts DEF WorkerOK
<1>12. ~ AtCrons' /\ workers[Ticker].trigger # "cron"
  BY <1>1, <1>7, <1>9, TickerFacts DEF AtCrons, TickOK
<1>13. TickOK'
  BY <1>1, <1>4, <1>5, <1>7, <1>9, <1>10, <1>12, TickMoves
<1>14. LooksOK'
  BY <1>1, <1>10, TickerFacts, LooksStand
<1> QED
  BY <1>1, <1>5, <1>7, <1>8, <1>10, <1>11, <1>13, <1>14, TickerFacts, TickerMoves

LEMMA TakesRunKeeps == ASSUME ScheduleInv, TakesRun  PROVE ScheduleInv'
<1>1. /\ workers[Ticker].pc = "drive" /\ UNCHANGED <<minute, cronOf, starts, seen, ticked, looks, scheduleTally>>
  BY DEF TakesRun
<1>2. SameRuns /\ \A r \in DOMAIN starts : RowStays(r)
  BY <1>1, RunsUntouched
<1>3. LooksOK'
  BY <1>1, <1>2, TickerFacts, LooksStand
<1>4. CASE tick.runs = {}
  <2>1. workers' = [workers EXCEPT ![Ticker] = NoWork] /\ tick' = NoTick
    BY <1>4 DEF TakesRun, Rests
  <2>2. workers'[Ticker] = NoWork
    BY <2>1, TickerFacts, NoWorkTyped, WorkerPut
  <2>3. WorkerOK(Ticker)'
    BY <1>1, <2>2, NoWorkTyped, TickerFacts DEF WorkerOK
  <2>4. ~ AtCrons'
    BY <2>2, NoWorkTyped DEF AtCrons
  <2>5. 0 <= minute
    BY TickerFacts, ScheduleBounds DEF Minutes
  <2>6. TickOK'
    BY <1>1, <2>1, <2>2, <2>4, <2>5, NoWorkTyped, NoTickTyped DEF TickOK
  <2> QED
    BY <1>1, <1>2, <1>3, <2>1, <2>3, <2>6, TickerFacts, NoWorkTyped, NoTickTyped, TickerMoves
<1>5. CASE tick.runs # {}
  <2>1. PICK m : m = Min(tick.runs)
    OBVIOUS
  <2>2. ReadsRun(Ticker, m) /\ tick' = [tick EXCEPT !.runs = tick.runs \ {m}]
    BY <1>5, <2>1 DEF TakesRun
  <2>3. tick.runs \subseteq DOMAIN starts /\ m \in DOMAIN starts
    <3>1. tick.runs \subseteq DOMAIN starts
      BY TickerFacts DEF TickOK
    <3>2. tick.runs \in SUBSET Nat
      BY <3>1, TickerFacts
    <3> QED
      BY <1>5, <2>1, <3>1, <3>2, MinPicks
  <2>4. PICK e \in WorkerType :
            /\ workers' = [workers EXCEPT ![Ticker] = e]
            /\ e.pc = "act" /\ e.run = m /\ e.listed = workers[Ticker].listed
            /\ e.trigger = workers[Ticker].trigger /\ e.delivery = workers[Ticker].delivery
            /\ e.found = "none" => starts[m].status = "running" /\ starts[m].job = "none"
            /\ e.found = "ended" => starts[m].job = "ended"
    BY <2>2, <2>3, TickerFacts, ReadTyped
  <2>5. workers'[Ticker] = e
    BY <2>4, TickerFacts, WorkerPut
  <2>6. WorkerOK(Ticker)'
    BY <1>1, <2>3, <2>4, <2>5, TickerFacts, ReadOK
  <2>7. workers[Ticker].trigger # "cron" /\ ~ AtCrons /\ tick.crons = {}
    <3>1. workers[Ticker].trigger # "cron"
      BY <1>1, TickerFacts DEF TickOK
    <3>2. ~ AtCrons
      BY <1>1 DEF AtCrons
    <3>3. tick.crons # {} => AtCrons
      BY TickerFacts DEF TickOK
    <3> QED
      BY <3>1, <3>2, <3>3
  <2>8. ~ AtCrons'
    BY <2>4, <2>5, <2>7 DEF AtCrons
  <2>9. PICK t : t = [tick EXCEPT !.runs = tick.runs \ {m}]
    OBVIOUS
  <2>10. t \in TickType /\ t.now = tick.now /\ t.crons = tick.crons /\ t.runs = tick.runs \ {m} /\ tick' = t
    BY <2>2, <2>9, TickerFacts DEF TickType
  <2>11. TickOK'
    BY <1>1, <1>2, <2>3, <2>4, <2>5, <2>7, <2>8, <2>10, TickMoves
  <2> QED
    BY <1>1, <1>2, <1>3, <2>4, <2>6, <2>10, <2>11, TickerFacts, TickerMoves
<1> QED
  BY <1>4, <1>5

LEMMA NewestPicks ==
    ASSUME ScheduleInv, NEW p
    PROVE  /\ Newest(p) \in Nat /\ Newest(p) <= Len(starts)
           /\ Newest(p) # 0 => Newest(p) \in StartsOf(p)
           /\ \A r \in StartsOf(p) : r <= Newest(p) /\ Newest(p) # 0
<1>1. DOMAIN starts = 1 .. Len(starts) /\ Len(starts) \in Nat
  BY TickerFacts
<1>2. PICK S : S = StartsOf(p) \cup {0}
  OBVIOUS
<1>3. S \in SUBSET Nat /\ S # {} /\ \A m \in S : m <= Len(starts)
  BY <1>1, <1>2 DEF StartsOf
<1>4. Max(S) \in S /\ \A m \in S : m <= Max(S)
  BY <1>1, <1>3, MaxPicks
<1>5. Newest(p) = Max(S)
  BY <1>2 DEF Newest
<1> QED
  BY <1>1, <1>2, <1>3, <1>4, <1>5 DEF StartsOf

\* The newest run of a pipeline tells of all that this tick has started for it: were there
\* one, the newest would have come in this minute, or would be under way.
LEMMA FiringIsFirst ==
    ASSUME ScheduleInv, NEW c \in tick.crons, AtCrons, Fires(c)
    PROVE  FiredAt(c.pipe, tick.now) = {}
<1> SUFFICES ASSUME NEW r \in FiredAt(c.pipe, tick.now)  PROVE FALSE
  OBVIOUS
<1>1. PICK n : n = Newest(c.pipe)
  OBVIOUS
<1>2. r \in StartsOf(c.pipe) /\ starts[r].from = tick.now
  BY TickerFacts DEF TickOK, FiredAt
<1>3. n # 0 /\ n \in StartsOf(c.pipe) /\ r <= n
  BY <1>1, <1>2, NewestPicks
<1>4. n \in DOMAIN starts /\ r \in DOMAIN starts
  BY <1>2, <1>3 DEF StartsOf
<1>5. starts[r].from <= starts[n].from
  BY <1>3, <1>4 DEF ScheduleInv, RunOK
<1>6. starts[n].from <= tick.now \/ starts[n].status = "running"
  BY <1>4, TickerFacts DEF TickOK
<1>7. starts[n].status # "running" /\ starts[n].from # tick.now
  BY <1>1, <1>3 DEF Fires
<1>8. starts[n].from \in Nat /\ tick.now \in Nat
  BY <1>4, TickerFacts, ShapeFacts
<1> QED
  BY <1>2, <1>5, <1>6, <1>7, <1>8

LEMMA CronLooksKeeps ==
    ASSUME ScheduleInv, NEW c \in tick.crons, CronLooks(c)  PROVE ScheduleInv'
<1>1. /\ workers[Ticker].pc = "cron"
      /\ UNCHANGED <<minute, cronOf, starts, seen, ticked, scheduleTally>>
  BY DEF CronLooks
<1>2. SameRuns /\ \A r \in DOMAIN starts : RowStays(r)
  BY <1>1, RunsUntouched
<1>3. PICK t : t = [tick EXCEPT !.crons = tick.crons \ {c}]
  OBVIOUS
<1>4. t \in TickType /\ t.now = tick.now /\ t.crons = tick.crons \ {c} /\ t.runs = tick.runs /\ tick' = t
  <2>1. tick' = t
    BY <1>3 DEF CronLooks
  <2> QED
    BY <1>3, <2>1, TickerFacts DEF TickType
<1>5. PICK n : n = Newest(c.pipe)
  OBVIOUS
<1>6. n \in Nat /\ n <= Len(starts) /\ (n # 0 => n \in StartsOf(c.pipe) /\ n \in DOMAIN starts) /\ n \in RunNos
  <2>1. n \in Nat /\ n <= Len(starts) /\ (n # 0 => n \in StartsOf(c.pipe))
    BY <1>5, NewestPicks
  <2>2. Len(starts) <= MaxStarts /\ Len(starts) \in Nat
    BY TickerFacts DEF ScheduleShape
  <2> QED
    BY <2>1, <2>2, ScheduleBounds DEF StartsOf, RunNos
<1>7. c.pipe \in Pipes /\ \A d \in tick.crons : d.pipe = c.pipe => d = c
  BY TickerFacts, TickFields DEF CronRow, TickOK
<1>8. AtCrons /\ workers[Ticker].trigger # "cron" /\ tick.runs \subseteq DOMAIN starts
  BY <1>1, TickerFacts DEF AtCrons, TickOK
<1>9. PICK l \in Look : l.pipe = c.pipe /\ l.due = tick.now /\ l.at = minute
                        /\ looks' \subseteq looks \cup {l} /\ (~ Due(c) => looks' = looks)
  <2>1. PICK l : l = [pipe |-> c.pipe, due |-> tick.now, at |-> minute]
    OBVIOUS
  <2>2. l \in Look
    BY <1>7, <2>1, TickerFacts, TickFields DEF Look
  <2>3. l.pipe = c.pipe /\ l.due = tick.now /\ l.at = minute
    BY <2>1
  <2>4. looks' \subseteq looks \cup {l} /\ (~ Due(c) => looks' = looks)
    BY <2>1 DEF CronLooks
  <2> QED
    BY <2>2, <2>3, <2>4
<1>10. looks' \subseteq Look
  BY <1>9, TickerFacts
<1>11. \A k \in looks : k.at <= minute' /\ Answered(k)'
  <2>1. \A k \in looks : k.at <= minute /\ Answered(k)
    BY <1>1 DEF ScheduleInv, LooksOK
  <2> QED
    BY <1>1, <1>2, <2>1, AnsweredStays
<1>12. CASE Due(c) /\ Fires(c)
  <2>1. PICK e : e = [NoWork EXCEPT !.pc = "insert", !.pipe = c.pipe, !.trigger = "cron", !.listed = n]
    OBVIOUS
  <2>2. workers' = [workers EXCEPT ![Ticker] = e]
    BY <1>5, <1>12, <2>1 DEF CronLooks
  <2>3. e \in WorkerType
    <3>1. "insert" \in WorkerPCs /\ "cron" \in Triggers
      BY DEF WorkerPCs, Triggers
    <3> QED
      BY <1>6, <1>7, <2>1, <3>1, NoWorkTyped DEF WorkerType
  <2>4. /\ e.pc = "insert" /\ e.pipe = c.pipe /\ e.run = 0 /\ e.listed = n /\ e.trigger = "cron"
        /\ e.delivery = Blank
    BY <2>1, NoWorkTyped DEF NoWork
  <2>5. workers'[Ticker] = e
    BY <2>2, <2>3, TickerFacts, WorkerPut
  <2>6. WorkerOK(Ticker)'
    BY <1>1, <1>6, <1>7, <2>4, <2>5, TickerFacts DEF WorkerOK
  <2>7. FiredAt(c.pipe, tick.now) = {} /\ (n # 0 => starts[n].status # "running")
    BY <1>5, <1>8, <1>12, FiringIsFirst DEF Fires
  <2>8. AtCrons'
    BY <2>4, <2>5 DEF AtCrons
  <2>9. /\ FiredAt(workers'[Ticker].pipe, tick.now) = {}
        /\ workers'[Ticker].delivery = Blank
        /\ \A d \in tick'.crons : d.pipe # workers'[Ticker].pipe
        /\ workers'[Ticker].listed # 0 => starts'[workers'[Ticker].listed].status # "running"
    BY <1>1, <1>4, <1>7, <2>4, <2>5, <2>7
  <2>10. TickOK'
    BY <1>1, <1>2, <1>4, <1>8, <2>4, <2>5, <2>8, <2>9, TickMoves
  <2>11. LooksOK'
    BY <1>1, <1>4, <1>9, <1>11, <2>4, <2>5, TickerFacts DEF LooksOK
  <2> QED
    BY <1>1, <1>2, <1>4, <1>10, <2>2, <2>3, <2>4, <2>6, <2>10, <2>11, TickerFacts, TickerMoves
<1>13. CASE ~ (Due(c) /\ Fires(c))
  <2>1. workers' = workers
    BY <1>13 DEF CronLooks
  <2>2. workers' = [workers EXCEPT ![Ticker] = workers[Ticker]]
    BY <2>1, TickerFacts DEF ScheduleShape
  <2>3. WorkerOK(Ticker)'
    BY <1>1, <2>1, TickerFacts DEF WorkerOK
  <2>4. AtCrons'
    BY <1>1, <2>1 DEF AtCrons
  <2>5. TickOK'
    BY <1>1, <1>2, <1>4, <1>8, <2>1, <2>4, TickMoves
  <2>6. Due(c) => Answered(l)'
    <3>1. SUFFICES ASSUME Due(c)  PROVE Answered(l)'
      OBVIOUS
    <3>2. n # 0 /\ (starts[n].status = "running" \/ starts[n].from = tick.now)
      BY <1>5, <1>13, <3>1 DEF Fires
    <3>3. n \in StartsOf(l.pipe) /\ RunOK(n)
      BY <1>6, <1>9, <3>2 DEF ScheduleInv
    <3>4. n \in StartsOf(l.pipe)'
      BY <1>1, <3>3 DEF StartsOf
    <3>5. starts[n].status = "running" => starts[n].from <= l.at /\ l.at <= starts[n].to
      BY <1>9, <3>3, TickerFacts, ShapeFacts DEF RunOK
    <3> QED
      BY <1>1, <1>9, <3>2, <3>4, <3>5 DEF Answered
  <2>7. LooksOK'
    BY <1>1, <1>9, <1>11, <2>6, TickerFacts DEF LooksOK
  <2> QED
    BY <1>1, <1>2, <1>4, <1>10, <2>2, <2>3, <2>5, <2>7, TickerFacts, TickerMoves
<1> QED
  BY <1>12, <1>13

LEMMA TickStartsKeeps == ASSUME ScheduleInv, TickStarts  PROVE ScheduleInv'
<1>1. /\ workers[Ticker].pc = "idle" /\ MutexFree /\ ticked' = TRUE
      /\ UNCHANGED <<minute, cronOf, starts, seen, looks, scheduleTally>>
  BY DEF TickStarts
<1>2. PICK C : C = {[pipe |-> p, cron |-> cronOf[p]] : p \in {q \in Existing : cronOf[q] # Blank}}
  OBVIOUS
<1>3. PICK t : t = [now |-> minute, runs |-> {}, crons |-> C]
  OBVIOUS
<1>4. C \in SUBSET CronRow /\ \A c, d \in C : c.pipe = d.pipe => c = d
  <2>1. \A q \in Existing : q \in Pipes /\ cronOf[q] \in CronCols
    BY TickerFacts DEF ScheduleShape, Existing
  <2>2. \A q \in Existing : cronOf[q] # Blank => cronOf[q] \in Crons
    BY <2>1 DEF CronCols
  <2> QED
    BY <1>2, <2>1, <2>2 DEF CronRow
<1>5. t \in TickType /\ t.now = minute /\ t.crons = C /\ t.runs = {} /\ tick' = t
  <2>1. tick' = t
    BY <1>2, <1>3 DEF TickStarts
  <2> QED
    BY <1>3, <1>4, <2>1, TickerFacts DEF TickType
<1>6. PICK e : e = [workers[Ticker] EXCEPT !.pc = "cron"]
  OBVIOUS
<1>7. /\ e \in WorkerType /\ e.pc = "cron" /\ e.run = workers[Ticker].run
      /\ e.listed = workers[Ticker].listed /\ e.trigger = workers[Ticker].trigger
  <2>1. "cron" \in WorkerPCs
    BY DEF WorkerPCs
  <2> QED
    BY <1>6, <2>1, TickerFacts DEF WorkerType
<1>8. workers' = [workers EXCEPT ![Ticker] = e]
  BY <1>6 DEF TickStarts, WorkerAt
<1>9. workers'[Ticker] = e
  BY <1>7, <1>8, TickerFacts, WorkerPut
<1>10. SameRuns
  BY <1>1, RunsUntouched
<1>11. WorkerOK(Ticker)'
  BY <1>1, <1>7, <1>9, TickerFacts DEF WorkerOK
<1>12. workers[Ticker].trigger # "cron"
  BY <1>1, TickerFacts DEF TickOK
<1>13. \A r \in DOMAIN starts : starts[r].from <= minute /\ starts[r].from \in Nat
                               /\ (starts[r].trigger = "cron" => starts[r].due <= starts[r].from)
                               /\ starts[r].due \in Nat /\ minute \in Nat
  BY TickerFacts, ShapeFacts DEF ScheduleInv, RunOK
<1>14. \A p : \A r \in FiredAt(p, minute)' : starts[r].from = minute
  BY <1>1, <1>13 DEF FiredAt, StartsOf
<1>15. AtCrons'
  BY <1>7, <1>9 DEF AtCrons
<1>16. TickOK'
  <2>1. tick'.now = minute /\ minute' = minute /\ minute <= minute /\ tick'.crons = C /\ tick'.runs = {}
    BY <1>1, <1>5, TickerFacts
  <2>2. \A r \in DOMAIN starts' : starts'[r].from <= tick'.now
    BY <1>1, <1>13, <2>1
  <2>3. \A c \in C : \A r \in FiredAt(c.pipe, tick.now)' : starts'[r].from = tick'.now
    <3>1. TAKE c \in C
    <3>2. FiredAt(c.pipe, tick.now)' = FiredAt(c.pipe, minute)'
      BY <1>1, <2>1 DEF FiredAt, StartsOf
    <3> QED
      BY <1>1, <1>14, <2>1, <3>2
  <2> QED
    BY <1>4, <1>7, <1>9, <1>12, <1>15, <2>1, <2>2, <2>3 DEF TickOK
<1>17. LooksOK'
  BY <1>1, <1>10, TickerFacts, LooksStand
<1> QED
  BY <1>1, <1>5, <1>7, <1>8, <1>10, <1>11, <1>16, <1>17, TickerFacts, TickerMoves

LEMMA ClockTurnsKeeps == ASSUME ScheduleInv, ClockTurns  PROVE ScheduleInv'
<1>1. /\ minute < MaxMinute /\ minute' = minute + 1 /\ ticked' = FALSE
      /\ UNCHANGED <<cronOf, starts, seen, workers, tick, looks, scheduleTally>>
  BY DEF ClockTurns
<1>2. ScheduleShape /\ minute' \in Minutes /\ minute <= minute' /\ Ticker \in Workers
  BY <1>1, ScheduleBounds, TickerFacts DEF Minutes
<1>3. SameRuns /\ \A r \in DOMAIN starts : RowStays(r)
  BY <1>1, RunsUntouched
<1>4. \A w \in Workers : WorkerOK(w)'
  BY <1>1 DEF ScheduleInv, WorkerOK
<1>5. \A w \in Workers : DeliveryOK(w)'
  BY <1>1 DEF ScheduleInv, DeliveryOK
<1>6. OneHolder'
  BY <1>1 DEF ScheduleInv, OneHolder, Holds
<1>7. TickOK'
  BY <1>1, <1>2, <1>3, TickStands
<1>8. LooksOK'
  BY <1>1, <1>2, <1>3, LooksStand
<1>9. ASSUME NEW q \in Pipes, Leaving(q)'  PROVE Leaving(q)
  BY <1>1, <1>9 DEF Leaving, Existing
<1>10. \A r \in DOMAIN starts' : RunOK(r)'
  BY <1>1, <1>2, <1>3, <1>9, RunsFollow
<1>11. ScheduleShape'
  BY <1>1, <1>2 DEF ScheduleShape
<1> QED
  BY <1>4, <1>5, <1>6, <1>7, <1>8, <1>10, <1>11 DEF ScheduleInv

LEMMA ScheduleCrashKeeps == ASSUME ScheduleInv, ScheduleCrash  PROVE ScheduleInv'
<1>1. /\ Fault("crash") /\ workers' = [w \in Workers |-> NoWork] /\ tick' = NoTick /\ ticked' = TRUE
      /\ looks' = {l \in looks : workers[Ticker].pc = "idle" \/ l.due # tick.now}
      /\ UNCHANGED <<minute, cronOf, starts, seen>>
  BY DEF ScheduleCrash
<1>2. \A w \in Workers : workers'[w] = NoWork
  BY <1>1
<1>3. SameRuns
  BY <1>1, RunsUntouched
<1>4. \A w \in Workers : WorkerOK(w)'
  <2>1. TAKE w \in Workers
  <2>2. workers'[w] = NoWork
    BY <1>2
  <2> QED
    BY <1>1, <2>2, NoWorkTyped, TickerFacts DEF WorkerOK
<1>5. \A w \in Workers : DeliveryOK(w)'
  BY <1>2, NoWorkTyped DEF DeliveryOK
<1>6. OneHolder'
  BY <1>2, NoWorkTyped DEF OneHolder, Holds
<1>7. TickOK'
  <2>1. workers'[Ticker] = NoWork
    BY <1>2, TickerFacts
  <2>2. ~ AtCrons'
    BY <2>1, NoWorkTyped DEF AtCrons
  <2>3. 0 <= minute
    BY TickerFacts, ScheduleBounds DEF Minutes
  <2> QED
    BY <1>1, <2>1, <2>2, <2>3, NoWorkTyped, NoTickTyped DEF TickOK
<1>8. LooksOK'
  BY <1>1, <1>3, TickerFacts, LooksStand
<1>9. ASSUME NEW q \in Pipes, Leaving(q)'  PROVE Leaving(q)
  BY <1>1, <1>2, <1>9, NoWorkTyped DEF Leaving, Existing, Workers
<1>10. \A r \in DOMAIN starts' : RunOK(r)'
  BY <1>1, <1>3, <1>9, TickerFacts, RunsFollow
<1>11. ScheduleShape'
  <2>1. scheduleTally' \in [calls : 0 .. MaxAskings, faults : SUBSET ScheduleFaults]
    BY <1>1, TickerFacts DEF Fault, ScheduleShape
  <2>2. workers' \in [Workers -> WorkerType] /\ tick' \in TickType /\ looks' \subseteq Look
    BY <1>1, NoWorkTyped, NoTickTyped, TickerFacts
  <2> QED
    BY <1>1, <2>1, <2>2, TickerFacts DEF ScheduleShape
<1> QED
  BY <1>4, <1>5, <1>6, <1>7, <1>8, <1>10, <1>11 DEF ScheduleInv

--------------------------------
\* Schedules: runs are created.

\* A run there is no pipeline for, or that does not compile.
LEMMA NoRunKeeps ==
    ASSUME ScheduleInv, NEW w \in Workers, NEW next \in {"idle", "cron"}, next = "cron" <=> w = Ticker,
           workers[w].pc = "insert", workers' = [workers EXCEPT ![w] = [NoWork EXCEPT !.pc = next]],
           looks' = {l \in looks : w = Ticker => l.pipe # workers[w].pipe \/ l.due # tick.now},
           UNCHANGED <<minute, cronOf, starts, seen, tick, ticked, scheduleTally>>
    PROVE  ScheduleInv'
<1>1. PICK e : e = [NoWork EXCEPT !.pc = next]
  OBVIOUS
<1>2. /\ e \in WorkerType /\ e.pc = next /\ e.run = 0 /\ e.listed = 0 /\ e.trigger = "manual"
      /\ e.delivery = Blank /\ workers' = [workers EXCEPT ![w] = e]
  <2>1. next \in WorkerPCs
    BY DEF WorkerPCs
  <2> QED
    BY <1>1, <2>1, RestTyped
<1>3. workers'[w] = e /\ \A v \in Workers : v # w => workers'[v] = workers[v]
  BY <1>2, WorkerPut
<1>4. SameRuns /\ \A r \in DOMAIN starts : RowStays(r)
  BY RunsUntouched
<1>5. WorkerOK(w)'
  <2>1. (w = Ticker => next = "cron") /\ (w # Ticker => next = "idle")
    OBVIOUS
  <2>2. /\ workers'[w].run = 0 /\ workers'[w].listed = 0 /\ workers'[w].pc = next
        /\ Len(starts') \in Nat
    BY <1>2, <1>3, TickerFacts
  <2>3. CASE w = Ticker
    BY <2>1, <2>2, <2>3 DEF WorkerOK
  <2>4. CASE w # Ticker
    BY <2>1, <2>2, <2>4 DEF WorkerOK
  <2> QED
    BY <2>3, <2>4
<1>6. CASE w = Ticker
  <2>1. AtCrons /\ AtCrons'
    BY <1>2, <1>3, <1>6 DEF AtCrons
  <2>2. tick.runs \subseteq DOMAIN starts
    BY TickerFacts DEF TickOK
  <2>3. TickOK'
    BY <1>2, <1>3, <1>4, <1>6, <2>1, <2>2, TickMoves
  <2>4. LooksOK'
    BY <1>4, <1>6, TickerFacts, LooksStand
  <2>5. looks' \subseteq Look
    BY TickerFacts
  <2> QED
    BY <1>2, <1>4, <1>5, <1>6, <2>3, <2>4, <2>5, TickerFacts, TickerMoves
<1>7. CASE w # Ticker
  <2>1. w \in Callers
    BY <1>7 DEF Workers
  <2>2. looks' = looks
    BY <1>7
  <2>3. \A v \in Workers : DeliveryOK(v)'
    BY <1>2, <1>3, DeliveriesStand
  <2>4. ASSUME NEW q \in Pipes, Leaving(q)'  PROVE Leaving(q)
    BY <1>2, <1>3, <2>4 DEF Leaving, Existing, Workers
  <2>5. cronOf' \in [Pipes -> CronCols \cup {"none"}] /\ seen \subseteq seen' /\ seen' \subseteq Deliveries
    BY TickerFacts DEF ScheduleShape
  <2> QED
    BY <1>2, <1>4, <1>5, <2>1, <2>2, <2>3, <2>4, <2>5, CallerMoves
<1> QED
  BY <1>6, <1>7

\* A run comes at the end of the table, with all that its goroutine knows of it.
LEMMA RunAdded ==
    ASSUME ScheduleInv, NEW w \in Workers, workers[w].pc = "insert", NEW s \in Start, NEW e \in WorkerType,
           Len(starts) + 1 <= MaxStarts, starts' = Append(starts, s), workers' = [workers EXCEPT ![w] = e],
           UNCHANGED <<minute, cronOf, seen, tick, ticked, looks, scheduleTally>>,
           s.pipe = workers[w].pipe, s.pipe \in Existing, s.trigger = workers[w].trigger,
           s.status = "running", s.job = "none", s.from = minute, s.to = MaxMinute,
           w = Ticker => s.due = tick.now,
           s.delivery = workers[w].delivery, s.listed = workers[w].listed, s.beside = UnderWay(s.pipe),
           s.dodged <=> \E c \in Callers : workers[c].pc = "delete" /\ workers[c].pipe = s.pipe,
           e.pc = "read", e.run = Len(starts) + 1, e.listed = workers[w].listed,
           e.trigger = workers[w].trigger
    PROVE  ScheduleInv'
<1>0. PICK n : n = Len(starts) + 1
  OBVIOUS
<1>1. /\ ScheduleShape /\ DOMAIN starts = 1 .. Len(starts) /\ Len(starts) \in Nat /\ starts \in Seq(Start)
      /\ minute \in Nat /\ WorkerOK(w) /\ Ticker \in Workers /\ Ticker \notin Callers
  BY TickerFacts, ShapeFacts, ScheduleNames DEF ScheduleInv, ScheduleShape
<1>2. /\ starts' \in Seq(Start) /\ Len(starts') = n /\ DOMAIN starts' = DOMAIN starts \cup {n}
      /\ starts'[n] = s /\ \A r \in DOMAIN starts : starts'[r] = starts[r]
  BY <1>0, <1>1, AddRow
<1>3. n \in Nat /\ n \notin DOMAIN starts /\ \A r \in DOMAIN starts : r < n /\ r \in Nat
  BY <1>0, <1>1
<1>4. /\ workers' \in [Workers -> WorkerType] /\ workers'[w] = e
      /\ \A v \in Workers : v # w => workers'[v] = workers[v]
  BY WorkerPut
<1>5. w = Ticker <=> s.trigger = "cron"
  BY <1>1 DEF WorkerOK
<1>6. w = Ticker => FiredAt(s.pipe, tick.now) = {}
  BY <1>1, TickerFacts DEF TickOK
<1>7. \A r \in DOMAIN starts : s.delivery # Blank => starts[r].delivery # s.delivery
  BY DEF ScheduleInv, DeliveryOK
<1>8. s.delivery # Blank => s.delivery \in seen
  BY DEF ScheduleInv, DeliveryOK
<1>9. \A r \in DOMAIN starts : RunOK(r) /\ starts[r].from <= s.from
  BY DEF ScheduleInv, RunOK
<1>10. ASSUME NEW q, Leaving(q)'  PROVE Leaving(q)
  BY <1>4, <1>10 DEF Leaving, Existing, Workers
<1>11. \A r \in DOMAIN starts :
          s.trigger = "cron" /\ starts[r].trigger = "cron" => ~ (starts[r].pipe = s.pipe /\ starts[r].due = s.due)
  BY <1>5, <1>6 DEF FiredAt, StartsOf
<1>12. \A r \in DOMAIN starts : RunOK(r)'
  <2>1. TAKE r \in DOMAIN starts
  <2>2. starts'[r] = starts[r] /\ RunOK(r) /\ r \in Nat /\ r < n
    BY <1>2, <1>3, <1>9
  <2>3. /\ starts[r].job = "alive" => starts[r].status = "running"
        /\ starts[r].status = "running" => starts[r].to = MaxMinute
        /\ starts[r].from <= minute
        /\ starts[r].trigger = "cron" =>
               starts[r].due <= starts[r].from /\ starts[r].listed \notin starts[r].beside
        /\ starts[r].delivery # Blank => starts[r].delivery \in seen
    BY <2>2 DEF RunOK
  <2>4. starts[r].status = "running" /\ Leaving(starts[r].pipe)' => starts[r].dodged
    <3>1. PICK p : p = starts[r].pipe
      OBVIOUS
    <3>2. Leaving(starts[r].pipe)' => Leaving(p)'
      BY <2>2, <3>1 DEF Leaving
    <3> QED
      BY <1>10, <2>2, <3>1, <3>2 DEF RunOK
  <2>5. \A q \in DOMAIN starts' :
            /\ starts[r].delivery # Blank /\ starts'[q].delivery = starts[r].delivery => q = r
            /\ q <= r => starts'[q].from <= starts[r].from
            /\ (/\ starts'[q].trigger = "cron" /\ starts[r].trigger = "cron"
                /\ starts'[q].pipe = starts[r].pipe /\ starts'[q].due = starts[r].due) => q = r
    <3>1. TAKE q \in DOMAIN starts'
    <3>2. CASE q = n
      BY <1>2, <1>3, <1>7, <1>11, <2>2, <3>2
    <3>3. CASE q \in DOMAIN starts
      BY <1>2, <2>2, <3>3 DEF RunOK
    <3> QED
      BY <1>2, <3>2, <3>3
  <2> QED
    BY <2>2, <2>3, <2>4, <2>5 DEF RunOK
<1>13. RunOK(n)'
  <2>1. s.listed \notin s.beside \/ s.trigger # "cron"
    <3>1. s.trigger = "cron" /\ s.listed # 0 => starts[s.listed].status # "running"
      BY <1>1, <1>5, TickerFacts DEF TickOK
    <3> QED
      BY <1>1, <3>1 DEF UnderWay, StartsOf
  <2>2. s.trigger = "cron" => s.due <= s.from
    BY <1>5, TickerFacts DEF TickOK
  <2>3. Leaving(s.pipe) => s.dodged
    BY DEF Leaving
  <2>4. Leaving(starts[n].pipe)' => s.dodged
    <3>1. PICK p : p = s.pipe
      OBVIOUS
    <3>2. Leaving(starts[n].pipe)' => Leaving(p)'
      BY <1>2, <3>1 DEF Leaving
    <3> QED
      BY <1>10, <2>3, <3>1, <3>2
  <2>5. s.from <= minute
    BY <1>1
  <2>6. \A q \in DOMAIN starts' :
            /\ s.delivery # Blank /\ starts'[q].delivery = s.delivery => q = n
            /\ q <= n => starts'[q].from <= s.from
            /\ (/\ starts'[q].trigger = "cron" /\ s.trigger = "cron"
                /\ starts'[q].pipe = s.pipe /\ starts'[q].due = s.due) => q = n
    <3>1. TAKE q \in DOMAIN starts'
    <3>2. CASE q = n
      BY <1>1, <1>2, <3>2
    <3>3. CASE q \in DOMAIN starts
      BY <1>2, <1>7, <1>9, <1>11, <3>3
    <3> QED
      BY <1>2, <3>2, <3>3
  <2> QED
    BY <1>2, <1>8, <2>1, <2>2, <2>4, <2>5, <2>6 DEF RunOK
<1>14. \A v \in Workers : WorkerOK(v)'
  <2>1. TAKE v \in Workers
  <2>2. CASE v = w
    <3>1. /\ workers'[w].pc = "read" /\ workers'[w].run = n /\ workers'[w].listed = workers[w].listed
          /\ workers[w].listed <= Len(starts)
      BY <1>0, <1>1, <1>4 DEF WorkerOK
    <3>2. workers'[w].listed <= Len(starts') /\ workers'[w].run <= Len(starts') /\ workers'[w].run # 0
      <4>1. workers[w].listed \in Nat
        BY <1>1, ShapeFacts
      <4> QED
        BY <1>0, <1>1, <1>2, <3>1, <4>1
    <3> QED
      BY <2>2, <3>1, <3>2 DEF WorkerOK
  <2>3. CASE v # w
    <3>1. workers[v].pc = "act" => workers[v].run \in DOMAIN starts
      <4>1. WorkerOK(v) /\ workers[v].run \in Nat
        BY <1>1, ShapeFacts DEF ScheduleInv
      <4> QED
        BY <1>1, <4>1 DEF WorkerOK
    <3>2. workers[v].pc = "act" => RowStays(workers[v].run)
      BY <1>2, <3>1 DEF RowStays
    <3>3. Len(starts') \in Nat /\ Len(starts) <= Len(starts')
      BY <1>1, <1>2
    <3> QED
      BY <1>4, <2>3, <3>2, <3>3, WorkerStands
  <2> QED
    BY <2>2, <2>3
<1>15. \A v \in Workers : DeliveryOK(v)'
  <2>1. TAKE v \in Workers
  <2>2. CASE v = w
    BY <1>4, <2>2 DEF DeliveryOK
  <2>3. ASSUME v # w, workers[v].pc = "insert", workers[v].delivery # Blank
        PROVE  /\ workers[v].delivery \in seen /\ workers[v].delivery # s.delivery
               /\ \A u \in Workers : workers[u].pc = "insert" /\ workers[u].delivery = workers[v].delivery => u = v
               /\ \A r \in DOMAIN starts : starts[r].delivery # workers[v].delivery
    BY <2>3 DEF ScheduleInv, DeliveryOK
  <2>4. CASE v # w
    BY <1>2, <1>4, <2>3, <2>4 DEF DeliveryOK
  <2> QED
    BY <2>2, <2>4
<1>16. OneHolder'
  BY <1>4 DEF ScheduleInv, OneHolder, Holds
<1>17. LooksOK'
  <2>1. ASSUME NEW l \in looks  PROVE l.at <= minute /\ (Answered(l)' \/ (workers'[Ticker] = workers[Ticker]
                                       /\ workers[Ticker].pc = "insert" /\ workers[Ticker].pipe = l.pipe
                                       /\ l.due = tick.now))
    <3>1. l.at <= minute
      BY DEF ScheduleInv, LooksOK
    <3>2. CASE Answered(l)
      <4>1. PICK r \in StartsOf(l.pipe) :
                \/ starts[r].trigger = "cron" /\ starts[r].due = l.due
                \/ starts[r].from = l.due
                \/ starts[r].from <= l.at /\ l.at <= starts[r].to
        BY <3>2 DEF Answered
      <4>2. r \in StartsOf(l.pipe)' /\ starts'[r] = starts[r]
        BY <1>2 DEF StartsOf
      <4> QED
        BY <3>1, <4>1, <4>2 DEF Answered
    <3>3. CASE workers[Ticker].pc = "insert" /\ workers[Ticker].pipe = l.pipe /\ l.due = tick.now
      <4>1. CASE w = Ticker
        <5>1. n \in StartsOf(l.pipe)' /\ starts'[n].trigger = "cron" /\ starts'[n].due = l.due
          BY <1>2, <1>5, <3>3, <4>1 DEF StartsOf
        <5> QED
          BY <3>1, <5>1 DEF Answered
      <4>2. CASE w # Ticker
        BY <1>1, <1>4, <3>1, <3>3, <4>2
      <4> QED
        BY <4>1, <4>2
    <3> QED
      BY <3>2, <3>3 DEF ScheduleInv, LooksOK
  <2> QED
    BY <2>1 DEF LooksOK
<1>18. TickOK'
  <2>1. \A p : FiredAt(p, tick.now)' \subseteq FiredAt(p, tick.now) \cup (IF w = Ticker /\ p = s.pipe THEN {n} ELSE {})
    BY <1>2, <1>5 DEF FiredAt, StartsOf
  <2>2. \A p : FiredAt(p, tick.now) \subseteq DOMAIN starts
    BY DEF FiredAt, StartsOf
  <2>3. w = Ticker => \A c \in tick.crons : c.pipe # s.pipe
    BY TickerFacts DEF TickOK
  <2>4. \A c \in tick.crons : \A r \in FiredAt(c.pipe, tick.now)' : starts'[r].from = tick.now
    <3>1. \A c \in tick.crons : \A r \in FiredAt(c.pipe, tick.now) : starts[r].from = tick.now
      BY TickerFacts DEF TickOK
    <3> QED
      BY <1>2, <2>1, <2>2, <2>3, <3>1
  <2>5. tick.now <= minute /\ tick.runs \subseteq DOMAIN starts' /\ (workers[Ticker].pc = "idle" => tick = NoTick)
        /\ (\A c, d \in tick.crons : c.pipe = d.pipe => c = d) /\ (tick.crons # {} => AtCrons)
    BY <1>2, TickerFacts DEF TickOK
  <2>6. AtCrons <=> AtCrons'
    BY <1>1, <1>4, <1>5 DEF AtCrons
  <2>7. AtCrons => \A r \in DOMAIN starts' : starts'[r].from <= tick.now \/ starts'[r].status = "running"
    BY <1>2, TickerFacts DEF TickOK
  <2>8. CASE w = Ticker
    <3>1. workers'[Ticker].pc = "read" /\ workers'[Ticker].trigger = "cron" /\ starts'[workers'[Ticker].run].job = "none"
      BY <1>2, <1>4, <1>5, <2>8
    <3> QED
      BY <2>4, <2>5, <2>6, <2>7, <2>8, <3>1 DEF TickOK
  <2>9. CASE w # Ticker
    <3>1. workers'[Ticker] = workers[Ticker]
      BY <1>1, <1>4, <2>9
    <3>2. workers[Ticker].pc = "insert" =>
             /\ FiredAt(workers[Ticker].pipe, tick.now)' = {} /\ workers[Ticker].delivery = Blank
             /\ \A c \in tick.crons : c.pipe # workers[Ticker].pipe
             /\ workers[Ticker].listed # 0 => starts'[workers[Ticker].listed].status # "running"
      <4>1. FiredAt(workers[Ticker].pipe, tick.now)' = FiredAt(workers[Ticker].pipe, tick.now)
        BY <1>2, <1>5, <2>9, <3>1 DEF FiredAt, StartsOf
      <4>2. workers[Ticker].listed # 0 => workers[Ticker].listed \in DOMAIN starts
        BY <1>1, TickerFacts, ShapeFacts DEF WorkerOK
      <4> QED
        BY <1>2, <4>1, <4>2, TickerFacts DEF TickOK
    <3>3. workers[Ticker].pc = "read" =>
             workers[Ticker].trigger = "cron" /\ starts'[workers[Ticker].run].job = "none"
      BY <1>2, TickerFacts DEF TickOK
    <3>4. /\ workers[Ticker].pc \in {"idle", "cron", "drive"} => workers[Ticker].trigger # "cron"
          /\ workers[Ticker].pc = "act" /\ workers[Ticker].trigger = "cron" => workers[Ticker].found # "ended"
      BY TickerFacts DEF TickOK
    <3>5. workers'[Ticker].pc = "insert" => FiredAt(workers[Ticker].pipe, tick.now)' = {}
      BY <3>1, <3>2
    <3>6. /\ tick' = tick /\ minute' = minute
          /\ AtCrons' => \A r \in DOMAIN starts' : starts'[r].from <= tick'.now \/ starts'[r].status = "running"
      BY <2>6, <2>7
    <3>7. workers'[Ticker].pc = "insert" =>
             /\ FiredAt(workers[Ticker].pipe, tick.now)' = {} /\ workers'[Ticker].delivery = Blank
             /\ \A c \in tick'.crons : c.pipe # workers'[Ticker].pipe
             /\ workers'[Ticker].listed # 0 => starts'[workers'[Ticker].listed].status # "running"
      <4>1. workers'[Ticker].pc = "insert" => workers'[Ticker].delivery = Blank
        BY <3>1, <3>2
      <4>2. workers'[Ticker].pc = "insert" => \A c \in tick'.crons : c.pipe # workers'[Ticker].pipe
        <5>1. tick' = tick
          BY <3>6
        <5> QED
          BY <3>1, <3>2, <5>1
      <4>3. workers'[Ticker].pc = "insert" =>
               (workers'[Ticker].listed # 0 => starts'[workers'[Ticker].listed].status # "running")
        BY <3>1, <3>2
      <4> QED
        BY <3>5, <4>1, <4>2, <4>3
    <3>8. \A c \in tick'.crons : \A r \in FiredAt(c.pipe, tick.now)' : starts'[r].from = tick'.now
      BY <2>4, <3>6
    <3>9. /\ tick'.now <= minute' /\ tick'.runs \subseteq DOMAIN starts'
          /\ workers'[Ticker].pc = "idle" => tick' = NoTick
          /\ \A c, d \in tick'.crons : c.pipe = d.pipe => c = d
          /\ tick'.crons # {} => AtCrons'
      BY <2>5, <2>6, <3>1, <3>6
    <3>10. /\ workers'[Ticker].pc = "read" =>
                 workers'[Ticker].trigger = "cron" /\ starts'[workers'[Ticker].run].job = "none"
           /\ workers'[Ticker].pc \in {"idle", "cron", "drive"} => workers'[Ticker].trigger # "cron"
           /\ workers'[Ticker].pc = "act" /\ workers'[Ticker].trigger = "cron" =>
                 workers'[Ticker].found # "ended"
      BY <3>1, <3>3, <3>4
    <3> QED
      BY <3>6, <3>7, <3>8, <3>9, <3>10 DEF TickOK
  <2> QED
    BY <2>8, <2>9
<1>19. ScheduleShape'
  BY <1>1, <1>2, <1>4 DEF ScheduleShape
<1> QED
  BY <1>2, <1>12, <1>13, <1>14, <1>15, <1>16, <1>17, <1>18, <1>19 DEF ScheduleInv

LEMMA CreatesRunKeeps ==
    ASSUME ScheduleInv, NEW w \in Workers, NEW next \in {"idle", "cron"}, next = "cron" <=> w = Ticker,
           CreatesRun(w, next)
    PROVE  ScheduleInv'
<1> DEFINE p == workers[w].pipe
<1>1. workers[w].pc = "insert" /\ UNCHANGED <<minute, cronOf, seen, tick, ticked, scheduleTally>>
  BY DEF CreatesRun
<1>2. CASE /\ looks' = {l \in looks : w = Ticker => l.pipe # p \/ l.due # tick.now}
           /\ workers' = [workers EXCEPT ![w] = [NoWork EXCEPT !.pc = next]]
           /\ UNCHANGED starts
  BY <1>1, <1>2, NoRunKeeps
<1>3. CASE ~ UNCHANGED starts \/ ~ (workers' = [workers EXCEPT ![w] = [NoWork EXCEPT !.pc = next]])
           \/ ~ (looks' = {l \in looks : w = Ticker => l.pipe # p \/ l.due # tick.now})
  <2>1. PICK id : id = Len(starts) + 1
    OBVIOUS
  <2>2. PICK s : s = [pipe |-> workers[w].pipe, trigger |-> workers[w].trigger, status |-> "running",
                      from |-> minute, to |-> MaxMinute,
                      due |-> IF w = Ticker THEN tick.now ELSE 0,
                      delivery |-> workers[w].delivery, job |-> "none",
                      listed |-> workers[w].listed, beside |-> UnderWay(workers[w].pipe),
                      dodged |-> \E c \in Callers :
                          workers[c].pc = "delete" /\ workers[c].pipe = workers[w].pipe]
    OBVIOUS
  <2>3. PICK e : e = [workers[w] EXCEPT !.pc = "read", !.run = id]
    OBVIOUS
  <2>4. /\ p \in Existing /\ id <= MaxStarts /\ starts' = Append(starts, s)
        /\ workers' = [workers EXCEPT ![w].pc = "read", ![w].run = id] /\ UNCHANGED looks
    BY <1>3, <2>1, <2>2 DEF CreatesRun
  <2>5. workers' = [workers EXCEPT ![w] = e]
    BY <2>3, <2>4
  <2>6. /\ workers[w] \in WorkerType /\ minute \in Minutes /\ tick.now \in Minutes /\ 0 \in Minutes
        /\ MaxMinute \in Minutes /\ id \in Nat /\ id # 0
    BY <2>1, TickerFacts, TickFields, ShapeFacts, ScheduleBounds DEF Minutes
  <2>7. id \in RunNos
    BY <2>4, <2>6, ScheduleBounds DEF RunNos
  <2>8. UnderWay(p) \in SUBSET RunNos
    BY TickerFacts, ScheduleBounds DEF UnderWay, StartsOf, RunNos, ScheduleShape
  <2>9. /\ p \in Pipes /\ workers[w].trigger \in Triggers /\ workers[w].delivery \in Deliveries \cup {Blank}
        /\ workers[w].listed \in RunNos /\ "none" \in Jobs
    BY <2>4, <2>6, WorkerFields DEF Existing, Jobs
  <2>10. s \in Start
    <3>1. PICK d : d = IF w = Ticker THEN tick.now ELSE 0
      OBVIOUS
    <3>2. d \in Minutes
      BY <2>6, <3>1
    <3>3. PICK b \in BOOLEAN :
              b = \E c \in Callers : workers[c].pc = "delete" /\ workers[c].pipe = workers[w].pipe
      OBVIOUS
    <3>4. s = [pipe |-> workers[w].pipe, trigger |-> workers[w].trigger, status |-> "running",
               from |-> minute, to |-> MaxMinute, due |-> d, delivery |-> workers[w].delivery,
               job |-> "none", listed |-> workers[w].listed, beside |-> UnderWay(workers[w].pipe),
               dodged |-> b]
      BY <2>2, <3>1, <3>3
    <3> QED
      BY <2>6, <2>8, <2>9, <3>2, <3>4 DEF Start
  <2>11. /\ s.pipe = workers[w].pipe /\ s.trigger = workers[w].trigger /\ s.status = "running"
         /\ s.job = "none" /\ s.from = minute /\ s.to = MaxMinute /\ (w = Ticker => s.due = tick.now)
         /\ s.delivery = workers[w].delivery /\ s.listed = workers[w].listed
         /\ s.beside = UnderWay(workers[w].pipe)
    BY <2>2
  <2>12. s.dodged <=> \E c \in Callers : workers[c].pc = "delete" /\ workers[c].pipe = workers[w].pipe
    BY <2>2
  <2>13. e \in WorkerType
    <3>1. "read" \in WorkerPCs
      BY DEF WorkerPCs
    <3> QED
      BY <2>3, <2>6, <2>7, <3>1 DEF WorkerType
  <2>14. e.pc = "read" /\ e.run = id /\ e.listed = workers[w].listed /\ e.trigger = workers[w].trigger
    BY <2>3, <2>6 DEF WorkerType
  <2>15. /\ Len(starts) + 1 <= MaxStarts /\ starts' = Append(starts, s) /\ UNCHANGED looks
         /\ e.run = Len(starts) + 1 /\ s.pipe \in Existing /\ s.beside = UnderWay(s.pipe)
    BY <2>1, <2>4, <2>11, <2>14
  <2>16. s.dodged <=> \E c \in Callers : workers[c].pc = "delete" /\ workers[c].pipe = s.pipe
    BY <2>11, <2>12
  <2> QED
    BY <1>1, <2>5, <2>10, <2>11, <2>13, <2>14, <2>15, <2>16, RunAdded
<1> QED
  BY <1>2, <1>3

--------------------------------
\* Schedules: the invariant is inductive.

LEMMA TickerStepsKeep == ASSUME ScheduleInv, TickerSteps  PROVE ScheduleInv'
<1>1. CASE CreatesRun(Ticker, "cron")
  BY <1>1, TickerFacts, CreatesRunKeeps
<1> QED
  BY <1>1, TickStartsKeeps, ListsActiveKeeps, TakesRunKeeps, CronLooksKeeps, TickerReadsKeeps,
     TickerDrivesKeeps DEF TickerSteps

LEMMA CallerStepsKeep == ASSUME ScheduleInv, NEW c \in Callers, CallerSteps(c)  PROVE ScheduleInv'
<1>1. CASE CreatesRun(c, "idle")
  <2>1. c \in Workers /\ c # Ticker
    BY ScheduleNames DEF Workers
  <2> QED
    BY <1>1, <2>1, CreatesRunKeeps
<1>2. CASE \E p \in Pipes : AsksRun(c, p) \/ AsksUpdate(c, p)
  BY <1>2, AsksKeeps DEF AsksRun, AsksUpdate
<1>3. CASE \E p \in Pipes : AsksDelete(c, p) \/ \E d \in Deliveries : Delivered(c, p, d)
  BY <1>3, AsksDeleteKeeps, DeliveredKeeps
<1> QED
  BY <1>1, <1>2, <1>3, CallerReadsKeeps, CallerDrivesKeeps, UpdatesKeeps, DeletesKeeps DEF CallerSteps

LEMMA ScheduleStep == ScheduleInv /\ [ScheduleNext]_scheduleVars => ScheduleInv'
<1>1. ASSUME ScheduleInv, UNCHANGED scheduleVars  PROVE ScheduleInv'
  <2>1. /\ UNCHANGED <<minute, starts, seen, workers, tick, ticked, looks>>
        /\ scheduleTally' = scheduleTally /\ cronOf' = cronOf
    BY <1>1 DEF scheduleVars
  <2>2. SameRuns /\ \A r \in DOMAIN starts : RowStays(r)
    BY <1>1, <2>1, RunsUntouched
  <2>3. cronOf' \in [Pipes -> CronCols \cup {"none"}]
    BY <1>1, <2>1 DEF ScheduleInv, ScheduleShape
  <2> QED
    BY <1>1, <2>1, <2>2, <2>3, RunsAlone
<1> QED
  BY <1>1, TickerStepsKeep, ClockTurnsKeeps, ScheduleCrashKeeps, CallerStepsKeep, CreatesPipeKeeps,
     WorkEndsKeeps, StopsRunKeeps DEF ScheduleNext

LEMMA ScheduleInvSuffices == ScheduleInv => ScheduleTypeOK /\ SchedulesWhole
<1> SUFFICES ASSUME ScheduleInv  PROVE ScheduleTypeOK /\ SchedulesWhole
  OBVIOUS
<1>1. ScheduleTypeOK
  <2>1. \A r \in DOMAIN starts :
          starts[r] \in Start /\ (starts[r].job = "alive" => starts[r].status = "running")
    BY TickerFacts, ShapeFacts DEF ScheduleInv, RunOK
  <2>2. ASSUME NEW w \in Workers
        PROVE  /\ workers[w].pc \in WorkerPCs /\ workers[w].trigger \in Triggers
               /\ workers[w].run \in 0 .. Len(starts) /\ workers[w].listed \in 0 .. Len(starts)
    <3>1. workers[w] \in WorkerType /\ workers[w].run \in Nat /\ workers[w].listed \in Nat
      BY TickerFacts, ShapeFacts
    <3>2. workers[w].run <= Len(starts) /\ workers[w].listed <= Len(starts) /\ Len(starts) \in Nat
      BY TickerFacts DEF ScheduleInv, WorkerOK
    <3> QED
      BY <3>1, <3>2, WorkerFields
  <2>3. tick.now \in Minutes /\ tick.runs \subseteq DOMAIN starts
    BY TickerFacts, ShapeFacts DEF TickOK
  <2>4. scheduleTally.calls \in 0 .. MaxAskings /\ scheduleTally.faults \subseteq ScheduleFaults
    BY TickerFacts DEF ScheduleShape
  <2> QED
    BY <2>1, <2>2, <2>3, <2>4, TickerFacts DEF ScheduleTypeOK, ScheduleShape
<1>2. FiresOnce
  BY DEF FiresOnce, ScheduleInv, RunOK
<1>3. FiresAlone
  BY DEF FiresAlone, ScheduleInv, RunOK
<1>4. FiresWhenDue
  <2>1. workers[Ticker].pc \in {"idle", "drive"} => \A l \in looks : Answered(l)
    BY DEF ScheduleInv, LooksOK
  <2> QED
    BY <2>1 DEF FiresWhenDue, Answered
<1>5. StartsOnce
  BY DEF StartsOnce, ScheduleInv, RunOK
<1>6. LeavesNoJob
  BY DEF LeavesNoJob, ScheduleInv, RunOK, Leaving
<1> QED
  BY <1>1, <1>2, <1>3, <1>4, <1>5, <1>6 DEF SchedulesWhole

\* The shapes of rows, goroutines and the tick hold throughout, and a run that is over has no
\* Job at work (pipelines.go).
THEOREM SchedulesTyped == ScheduleSpec => []ScheduleTypeOK
BY ScheduleInitially, ScheduleStep, ScheduleInvSuffices, PTL DEF ScheduleSpec

\* For any number of pipelines, requests and minutes: a schedule fires once for a minute it is
\* due in, beside no run its look could show, and whenever it is due; a delivery starts one
\* run; a delete leaves no Job of a run it could see (pipelineTick, firePipelineCrons,
\* webhookReplay, handleDeletePipeline).
THEOREM SchedulesKept == ScheduleSpec => []SchedulesWhole
BY ScheduleInitially, ScheduleStep, ScheduleInvSuffices, PTL DEF ScheduleSpec

--------------------------------
\* Environments: what those at work on a name may rely on, unless a fault
\* hit it or two worked on it.

ActorRecord ==
    [pc : ActorPCs, kind : RequestKinds \cup {NoRow.kind, "reap"},
     branch : Branches \cup {Main, "none", "bare", NoRow.source}, id : 0 .. MaxId,
     row : EnvRow \cup {NoRow}]

EnvTypes ==
    /\ env \in [Ids -> EnvRow \cup {NoRow}]
    /\ envApp \in [Ids -> Branches \cup {Main, "none", "bare"}]
    /\ namespace \in [Names -> Branches \cup {Main, "none", "empty", "going"}]
    /\ defaultName \in Names /\ actor \in [Actors -> ActorRecord]
    /\ builds \subseteq [pc : {"build", "apply"}, id : Ids, row : EnvRow, branch : Branches \cup {Main}]
    /\ reapList \subseteq [id : Ids, row : EnvRow]
    /\ disturbed \subseteq Names /\ mishaps \subseteq EnvFaults

Engaged(q) == actor[q].pc \notin {"idle", "done"}

Creating  == {"source", "ensure", "clone", "insert"}
NewRow(n, k) == [NoRow EXCEPT !.name = n, !.kind = k]

\* Whatever its name has met.
ActorLegal(q) ==
    Engaged(q) =>
        /\ actor[q].row \in EnvRow
        /\ actor[q].pc # "create" => actor[q].id \in Ids
        /\ actor[q].pc = "create" => \E n \in Names : actor[q].row = NewRow(n, "preview")
        /\ actor[q].pc \in {"create"} \cup Creating =>
              actor[q].branch \in Branches /\ NameOf[actor[q].branch] = actor[q].row.name

\* UNIQUE (project_id, name).
EnvNamesOwn == \A i, j \in Rows : env[i].name = env[j].name => i = j

BuildsOf(n) == {x \in builds : x.row.name = n}
ListedOf(n) == {x \in reapList : x.row.name = n}

\* One at a time is at work on the name.
OneAtWork(n) ==
    /\ \A q, r \in AtWork(n) : q = r
    /\ AtWork(n) # {} => BuildsOf(n) = {} /\ ListedOf(n) = {}
    /\ BuildsOf(n) # {} => ListedOf(n) = {}
    /\ \A x, y \in BuildsOf(n) : x = y
    /\ \A x, y \in ListedOf(n) : x = y

\* Nobody else holds the id of its row.
IdOwn(n) ==
    \A i \in Named(n) :
        /\ \A q \in Actors : Engaged(q) /\ actor[q].id = i => actor[q].row.name = n
        /\ \A x \in builds \cup reapList : x.id = i => x.row.name = n

\* What the one at work finds.
Meets(n, q) ==
    /\ actor[q].pc = "create" => Named(n) = {}
    /\ actor[q].pc # "create" => actor[q].id \in Named(n)
    /\ actor[q].pc \in Creating =>
          /\ env[actor[q].id].kind = "preview" /\ envApp[actor[q].id] = "none"
          /\ namespace[n] \in {"none", "empty", "going"}
    /\ actor[q].pc \in Creating \ {"source"} => env[actor[q].id].source = actor[q].branch
    /\ actor[q].pc \in {"unapp", "unrow"} => namespace[n] \in {"none", "going"}
    /\ actor[q].pc \in {"unname", "unapp"} /\ actor[q].kind = "deleteEnv" =>
          actor[q].branch = envApp[actor[q].id]
    /\ actor[q].pc = "unrow" => envApp[actor[q].id] = "none"

BuildFits(n, x) ==
    /\ x.id \in Named(n)
    /\ env[x.id].kind = "preview" => x.branch = env[x.id].source

NameKept(n) ==
    /\ OneAtWork(n) /\ IdOwn(n)
    /\ (\A q \in AtWork(n) : actor[q].pc # "source") => Whole(n)
    /\ \A q \in AtWork(n) : Meets(n, q)
    /\ \A x \in BuildsOf(n) : BuildFits(n, x)
    /\ \A x \in ListedOf(n) : x.id \in Named(n)

NothingLeft == disturbed = {} => \A i \in Ids \ Rows : envApp[i] = "none"

EnvInv ==
    /\ EnvTypes /\ EnvNamesOwn /\ NothingLeft
    /\ \A q \in Actors : ActorLegal(q)
    /\ \A n \in Names \ disturbed : NameKept(n)

LEMMA EnvConstants ==
    /\ IsFiniteSet(EnvRequests) /\ Kinds \subseteq RequestKinds
    /\ MaxId \in Nat /\ MaxId # 0
    /\ Ids \in SUBSET Nat /\ 1 \in Ids /\ \A i \in Ids : i <= MaxId
    /\ Ids \subseteq 0 .. MaxId
<1>1. MaxId \in Nat \ {0}
  BY EnvironmentAssumption, Zenon
<1>2. IsFiniteSet(EnvRequests) /\ Kinds \subseteq RequestKinds
  BY EnvironmentAssumption, Zenon
<1>3. QED  BY <1>1, <1>2 DEF Ids

LEMMA EnvNames ==
    /\ Base \in Names /\ NewNames \subseteq Names
    /\ \A b \in Branches : NameOf[b] \in Names
  BY DEF Names, Previews

LEMMA NoRowIs ==
    /\ NoRow = [name |-> NoRow.name, kind |-> NoRow.kind, source |-> NoRow.source,
                default |-> FALSE, stale |-> FALSE]
    /\ NoRow.kind \notin {"standing", "preview"}
<1>1. NoRow = [name |-> "", kind |-> "", source |-> "", default |-> FALSE, stale |-> FALSE]
  BY Zenon DEF NoRow
<1>2. NoRow.kind = "" /\ NoRow.name = "" /\ NoRow.source = ""
  BY Zenon DEF NoRow
<1>3. "" # "standing" /\ "" # "preview"
  BY Zenon
<1>4. NoRow.kind \notin {"standing", "preview"}
  BY <1>2, <1>3, Zenon
<1>5. QED  BY <1>1, <1>2, <1>4, Zenon

LEMMA EnvRowIs ==
    /\ EnvRow = [name : Names, kind : {"standing", "preview"}, source : Branches \cup {NoRow.source},
                 default : BOOLEAN, stale : BOOLEAN]
    /\ NoRow \notin EnvRow
<1>1. NoRow.source = ""
  BY Zenon DEF NoRow
<1>2. EnvRow = [name : Names, kind : {"standing", "preview"}, source : Branches \cup {NoRow.source},
                 default : BOOLEAN, stale : BOOLEAN]
  BY <1>1, Zenon DEF EnvRow
<1>3. \A r \in EnvRow : r.kind \in {"standing", "preview"}
  BY <1>2
<1>4. QED  BY <1>2, <1>3, NoRowIs, Zenon

LEMMA RowsShape ==
    \A r \in EnvRow : /\ r.name \in Names /\ r.kind \in {"standing", "preview"} /\ r # NoRow
                      /\ r.source \in Branches \cup {NoRow.source}
  BY EnvRowIs

LEMMA NewRowIs ==
    ASSUME NEW n \in Names, NEW k \in {"standing", "preview"}
    PROVE  /\ NewRow(n, k) \in EnvRow /\ NewRow(n, k).name = n /\ NewRow(n, k).kind = k
<1> DEFINE S == Branches \cup {NoRow.source}
           Wide == [name : Names \cup {NoRow.name}, kind : {"standing", "preview", NoRow.kind},
                    source : S, default : BOOLEAN, stale : BOOLEAN]
<1>1. NoRow \in Wide
  <2>1. NoRow.source \in S
    OBVIOUS
  <2> HIDE DEF S
  <2>2. PICK a, b, c : NoRow = [name |-> a, kind |-> b, source |-> c, default |-> FALSE, stale |-> FALSE]
    BY NoRowIs, Zenon
  <2>3. NoRow.name = a /\ NoRow.kind = b /\ NoRow.source = c
    BY <2>2
  <2>4. [name |-> a, kind |-> b, source |-> c, default |-> FALSE, stale |-> FALSE] \in Wide
    BY <2>1, <2>3
  <2>5. QED  BY <2>2, <2>4
<1>2. PICK o : o = [NoRow EXCEPT !.name = n]
  OBVIOUS
<1>3. o \in Wide /\ o.name = n
  <2> HIDE DEF S
  <2>1. QED  BY <1>1, <1>2
<1>4. NewRow(n, k) = [o EXCEPT !.kind = k]
  BY <1>2 DEF NewRow
<1>5. [o EXCEPT !.kind = k] \in EnvRow /\ [o EXCEPT !.kind = k].name = n /\ [o EXCEPT !.kind = k].kind = k
  <2>1. o.source \in S /\ o.default \in BOOLEAN /\ o.stale \in BOOLEAN /\ o.name \in Names
    BY <1>3
  <2>2. EnvRow = [name : Names, kind : {"standing", "preview"}, source : S,
                  default : BOOLEAN, stale : BOOLEAN]
    BY EnvRowIs
  <2> HIDE DEF S
  <2>3. QED  BY <1>3, <2>1, <2>2
<1>6. QED  BY <1>4, <1>5

LEMMA NotYetIs == NotYet \in ActorRecord /\ NotYet.pc = "idle"
<1>1. NotYet = [pc |-> "idle", kind |-> NoRow.kind, branch |-> NoRow.source, id |-> 0, row |-> NoRow]
  <2>1. NoRow.kind = "" /\ NoRow.source = ""
    BY Zenon DEF NoRow
  <2>2. QED  BY <2>1, Zenon DEF NotYet
<1>2. 0 \in 0 .. MaxId /\ "idle" \in ActorPCs
  BY EnvConstants DEF ActorPCs
<1>3. QED  BY <1>1, <1>2 DEF ActorRecord

\* What a row is when there is one.
LEMMA EnvRowsAre ==
    ASSUME EnvTypes
    PROVE  /\ Rows \subseteq Ids
           /\ \A i \in Rows : env[i] \in EnvRow /\ env[i].name \in Names
           /\ \A i \in Ids : env[i] \in EnvRow => i \in Rows
           /\ \A n : \A i \in Named(n) : i \in Ids /\ i \in Rows /\ env[i].name = n
  BY RowsShape DEF EnvTypes, Rows, Named

\* The id that SQLite gives is of no row.
LEMMA NextIdIsNew == ASSUME EnvTypes  PROVE NextId \notin Rows
<1> DEFINE S == Rows \cup {0}
<1>1. Rows \subseteq Ids
  BY DEF Rows
<1>2. S \in SUBSET Nat /\ S # {} /\ \A i \in S : i <= MaxId
  BY <1>1, EnvConstants
<1> HIDE DEF S
<1>3. Max(S) \in S /\ \A i \in S : i <= Max(S)
  BY <1>2, EnvConstants, MaxPicks
<1>4. NextId = Max(S) + 1
  BY DEF NextId, S
<1>5. QED  BY <1>2, <1>3, <1>4 DEF S

--------------------------------
\* Steps that leave a name alone, and steps of the one at work on it.

Apart(n) ==
    /\ Named(n)' = Named(n) /\ namespace'[n] = namespace[n]
    /\ \A i \in Named(n) : /\ env'[i].kind = env[i].kind /\ env'[i].source = env[i].source
                           /\ envApp'[i] = envApp[i]
    /\ AtWork(n)' = AtWork(n) /\ \A q \in AtWork(n) : actor'[q] = actor[q]
    /\ BuildsOf(n)' \subseteq BuildsOf(n) /\ ListedOf(n)' \subseteq ListedOf(n)
    /\ IdOwn(n)'

LEMMA ApartKeeps ==
    ASSUME NEW n \in Names, NameKept(n), Apart(n)
    PROVE  NameKept(n)'
<1>1. OneAtWork(n)'
  BY DEF NameKept, Apart, OneAtWork
<1>2. ((\A q \in AtWork(n) : actor[q].pc # "source") => Whole(n))'
  <2>1. (\A q \in AtWork(n) : actor[q].pc # "source")' <=> \A q \in AtWork(n) : actor[q].pc # "source"
    BY DEF Apart
  <2>2. Whole(n) => Whole(n)'
    BY DEF Apart, Whole
  <2>3. QED  BY <2>1, <2>2 DEF NameKept
<1>3. ASSUME NEW q \in AtWork(n)'  PROVE Meets(n, q)'
  <2>1. q \in AtWork(n) /\ actor'[q] = actor[q] /\ Meets(n, q)
    BY <1>3 DEF Apart, NameKept
  <2>2. QED  BY <2>1 DEF Apart, Meets, Creating
<1>4. ASSUME NEW x \in BuildsOf(n)'  PROVE BuildFits(n, x)'
  <2>1. BuildFits(n, x)
    BY <1>4 DEF Apart, NameKept
  <2>2. QED  BY <2>1 DEF Apart, BuildFits
<1>5. (\A x \in ListedOf(n) : x.id \in Named(n))'
  BY DEF Apart, NameKept
<1>6. IdOwn(n)'
  BY DEF Apart
<1>7. QED  BY <1>1, <1>2, <1>3, <1>4, <1>5, <1>6 DEF NameKept

\* What a step of q, who is at work, may do: to the row it read, and to its name.
ActsOn(q) ==
    /\ \A r \in Actors \ {q} : actor'[r] = actor[r]
    /\ Engaged(q)' => actor'[q].row = actor[q].row /\ actor'[q].id = actor[q].id
    /\ \A i \in Ids : i # actor[q].id => envApp'[i] = envApp[i]
    /\ \A i \in Ids :
          \/ env'[i] = NoRow /\ (env[i] = NoRow \/ i = actor[q].id)
          \/ /\ env[i] \in EnvRow /\ env'[i] \in EnvRow
             /\ env'[i].name = env[i].name /\ env'[i].kind = env[i].kind
             /\ i = actor[q].id \/ env'[i].source = env[i].source
    /\ \A n \in Names : n # actor[q].row.name => namespace'[n] = namespace[n]
    /\ \A x \in builds' : x \in builds \/ (x.id = actor[q].id /\ x.row = actor[q].row)
    /\ reapList' \subseteq reapList /\ disturbed \subseteq disturbed'

LEMMA OthersKept ==
    ASSUME EnvInv, EnvTypes', NEW q \in Actors, Engaged(q), actor[q].pc # "create", ActsOn(q),
           NEW n \in Names \ disturbed', n # actor[q].row.name
    PROVE  NameKept(n)'
<1>1. NameKept(n) /\ EnvTypes
  BY DEF EnvInv, ActsOn
<1>2. actor[q].id \in Ids /\ actor[q].id \notin Named(n)
  BY <1>1 DEF EnvInv, ActorLegal, NameKept, IdOwn
<1>3. /\ Named(n)' = Named(n)
      /\ \A i \in Named(n) : /\ env'[i].kind = env[i].kind /\ env'[i].source = env[i].source
                             /\ envApp'[i] = envApp[i]
  <2>1. ASSUME NEW i \in Ids  PROVE (i \in Named(n)') <=> (i \in Named(n))
    <3>1. CASE i = actor[q].id
      BY <1>2, <3>1, RowsShape DEF ActsOn, Named, Rows
    <3>2. CASE i # actor[q].id
      BY <3>2, RowsShape DEF ActsOn, Named, Rows
    <3>3. QED  BY <3>1, <3>2
  <2>2. Named(n)' = Named(n)
    BY <2>1 DEF Named, Rows
  <2>3. ASSUME NEW i \in Named(n)
        PROVE  /\ env'[i].kind = env[i].kind /\ env'[i].source = env[i].source
               /\ envApp'[i] = envApp[i]
    BY <1>2, <2>3 DEF ActsOn, Named, Rows
  <2>4. QED  BY <2>2, <2>3
<1>4. AtWork(n)' = AtWork(n) /\ \A r \in AtWork(n) : actor'[r] = actor[r]
  <2>1. \A r \in Actors : r \in AtWork(n) => r # q
    BY DEF AtWork
  <2>2. \A r \in Actors : r \in AtWork(n)' => r # q
    BY DEF AtWork, ActsOn, Engaged
  <2>3. \A r \in Actors \ {q} : r \in AtWork(n)' <=> r \in AtWork(n)
    BY DEF AtWork, ActsOn
  <2>4. QED  BY <2>1, <2>2, <2>3 DEF AtWork, ActsOn
<1>5. BuildsOf(n)' \subseteq BuildsOf(n) /\ ListedOf(n)' \subseteq ListedOf(n)
  BY DEF ActsOn, BuildsOf, ListedOf
<1>6. IdOwn(n)'
  <2>1. ASSUME NEW i \in Named(n)', NEW r \in Actors, Engaged(r)', actor'[r].id = i
        PROVE  actor'[r].row.name = n
    <3>1. i \in Named(n) /\ r # q
      BY <1>2, <1>3, <2>1 DEF ActsOn
    <3>2. actor'[r] = actor[r]
      BY <3>1 DEF ActsOn
    <3>3. QED  BY <1>1, <2>1, <3>1, <3>2 DEF NameKept, IdOwn, Engaged
  <2>2. ASSUME NEW i \in Named(n)', NEW x \in builds' \cup reapList', x.id = i
        PROVE  x.row.name = n
    <3>1. x \in builds \cup reapList
      BY <1>2, <1>3, <2>2 DEF ActsOn
    <3>2. QED  BY <1>1, <1>3, <2>2, <3>1 DEF NameKept, IdOwn
  <2>3. QED  BY <2>1, <2>2 DEF IdOwn
<1>7. Apart(n)
  BY <1>2, <1>3, <1>4, <1>5, <1>6 DEF ActsOn, Apart
<1>8. QED  BY <1>1, <1>7, ApartKeeps

\* The one at work on n goes on.
OwnStep(n, q) ==
    /\ IF Engaged(q)'
       THEN /\ builds' \subseteq builds /\ Meets(n, q)'
            /\ actor'[q].pc # "source" => Whole(n)'
       ELSE /\ \E x : builds' \subseteq builds \cup {x}
            /\ Whole(n)'
    /\ \A x \in BuildsOf(n)' : BuildFits(n, x)'

LEMMA OwnKept ==
    ASSUME EnvInv, EnvTypes', NEW q \in Actors, Engaged(q), actor[q].pc # "create", ActsOn(q),
           NEW n \in Names \ disturbed', n = actor[q].row.name, OwnStep(n, q)
    PROVE  NameKept(n)'
<1>1. NameKept(n) /\ EnvTypes
  BY DEF EnvInv, ActsOn
<1>2. q \in AtWork(n)
  BY DEF AtWork, Engaged
<1>3. AtWork(n) = {q} /\ BuildsOf(n) = {} /\ ListedOf(n) = {}
  BY <1>1, <1>2 DEF NameKept, OneAtWork
<1>4. AtWork(n)' \subseteq {q} /\ (AtWork(n)' # {} => Engaged(q)') /\ ListedOf(n)' = {}
  <2>1. ASSUME NEW r \in AtWork(n)'  PROVE r = q
    <3>1. CASE r # q
      <4>1. r \in AtWork(n)
        BY <2>1, <3>1 DEF AtWork, ActsOn
      <4>2. QED  BY <1>3, <4>1
    <3>2. QED  BY <3>1
  <2>2. AtWork(n)' # {} => Engaged(q)'
    BY <2>1 DEF AtWork, Engaged
  <2>3. QED  BY <1>3, <2>1, <2>2 DEF ListedOf, ActsOn
<1>5. Engaged(q)' => BuildsOf(n)' = {}
  BY <1>3 DEF OwnStep, BuildsOf
<1>6. \A x, y \in BuildsOf(n)' : x = y
  <2>1. CASE Engaged(q)'
    BY <1>5, <2>1
  <2>2. CASE ~ Engaged(q)'
    <3>1. PICK z : builds' \subseteq builds \cup {z}
      BY <2>2 DEF OwnStep
    <3>2. \A x \in BuildsOf(n)' : x = z
      BY <1>3, <3>1 DEF BuildsOf
    <3>3. QED  BY <3>2
  <2>3. QED  BY <2>1, <2>2
<1>7. OneAtWork(n)'
  BY <1>4, <1>5, <1>6 DEF OneAtWork
<1>8. Named(n)' \subseteq Named(n)
  BY RowsShape DEF ActsOn, Named, Rows
<1>9. IdOwn(n)'
  <2>1. ASSUME NEW i \in Named(n)', NEW r \in Actors, Engaged(r)', actor'[r].id = i
        PROVE  actor'[r].row.name = n
    <3>1. CASE r = q
      BY <2>1, <3>1 DEF ActsOn
    <3>2. CASE r # q
      <4>1. actor'[r] = actor[r]
        BY <3>2 DEF ActsOn
      <4>2. QED  BY <1>1, <1>8, <2>1, <4>1 DEF NameKept, IdOwn, Engaged
    <3>3. QED  BY <3>1, <3>2
  <2>2. ASSUME NEW i \in Named(n)', NEW x \in builds' \cup reapList', x.id = i
        PROVE  x.row.name = n
    BY <1>1, <1>8, <2>2 DEF NameKept, IdOwn, ActsOn
  <2>3. QED  BY <2>1, <2>2 DEF IdOwn
<1>10. ((\A r \in AtWork(n) : actor[r].pc # "source") => Whole(n))'
  <2>1. CASE Engaged(q)'
    <3>1. actor'[q].row.name = n
      BY <2>1 DEF ActsOn
    <3>2. q \in AtWork(n)'
      BY <2>1, <3>1 DEF AtWork, Engaged
    <3>3. QED  BY <2>1, <3>2 DEF OwnStep
  <2>2. CASE ~ Engaged(q)'
    BY <2>2 DEF OwnStep
  <2>3. QED  BY <2>1, <2>2
<1>11. \A r \in AtWork(n)' : Meets(n, r)'
  BY <1>4 DEF OwnStep
<1>12. (\A x \in ListedOf(n) : x.id \in Named(n))'
  BY <1>4
<1>13. (\A x \in BuildsOf(n) : BuildFits(n, x))'
  BY DEF OwnStep
<1>14. QED  BY <1>7, <1>9, <1>10, <1>11, <1>12, <1>13 DEF NameKept

LEMMA ActsKeep ==
    ASSUME EnvInv, EnvTypes', NEW q \in Actors, Engaged(q), actor[q].pc # "create", ActsOn(q),
           ActorLegal(q)', actor[q].row.name \notin disturbed' => OwnStep(actor[q].row.name, q),
           disturbed' = {} => actor[q].id \in Rows' \/ envApp'[actor[q].id] = "none"
    PROVE  EnvInv'
<1>1. EnvTypes /\ actor[q].id \in Ids
  BY DEF EnvInv, ActorLegal
<1>2. /\ Rows' \subseteq Rows /\ \A i \in Rows' : env'[i].name = env[i].name
      /\ \A i \in Rows \ Rows' : i = actor[q].id
  BY RowsShape DEF ActsOn, Rows
<1>3. EnvNamesOwn'
  BY <1>2 DEF EnvInv, EnvNamesOwn
<1>4. NothingLeft'
  <2>1. ASSUME disturbed' = {}, NEW i \in Ids, i \notin Rows'  PROVE envApp'[i] = "none"
    <3>1. disturbed = {}
      BY <2>1 DEF ActsOn
    <3>2. CASE i = actor[q].id
      BY <2>1, <3>2
    <3>3. CASE i # actor[q].id
      <4>1. i \notin Rows /\ envApp'[i] = envApp[i]
        BY <1>2, <2>1, <3>3 DEF ActsOn
      <4>2. QED  BY <2>1, <3>1, <4>1 DEF EnvInv, NothingLeft
    <3>4. QED  BY <3>2, <3>3
  <2>2. QED  BY <2>1 DEF NothingLeft, Rows
<1>5. ASSUME NEW r \in Actors  PROVE ActorLegal(r)'
  <2>1. CASE r = q
    BY <2>1
  <2>2. CASE r # q
    <3>1. actor'[r] = actor[r] /\ ActorLegal(r)
      BY <2>2 DEF ActsOn, EnvInv
    <3>2. QED  BY <3>1 DEF ActorLegal, Engaged
  <2>3. QED  BY <2>1, <2>2
<1>6. ASSUME NEW n \in Names, n \notin disturbed'  PROVE NameKept(n)'
  <2>1. CASE n = actor[q].row.name
    BY <1>6, <2>1, OwnKept
  <2>2. CASE n # actor[q].row.name
    BY <1>6, <2>2, OthersKept
  <2>3. QED  BY <2>1, <2>2
<1>7. QED  BY <1>3, <1>4, <1>5, <1>6 DEF EnvInv

\* q is at pc now, with all that it held.
Onto(q, pc) ==
    /\ actor' \in [Actors -> ActorRecord] /\ \A r \in Actors \ {q} : actor'[r] = actor[r]
    /\ IF pc = "done" THEN ~ Engaged(q)'
       ELSE /\ actor'[q].pc = pc /\ actor'[q].row = actor[q].row /\ actor'[q].id = actor[q].id
            /\ actor'[q].kind = actor[q].kind /\ actor'[q].branch = actor[q].branch

LEMMA EndsIs ==
    ASSUME EnvTypes, NEW q \in Actors, Ends(q)
    PROVE  Onto(q, "done")
<1>1. actor \in [Actors -> ActorRecord]
  BY DEF EnvTypes
<1>2. CASE q = Reaper
  <2>1. actor' = [actor EXCEPT ![q] = NotYet]
    BY <1>2 DEF Ends
  <2>2. QED  BY <1>1, <2>1, NotYetIs DEF Onto, Engaged
<1>3. CASE q # Reaper
  <2>1. actor' = [actor EXCEPT ![q] = [actor[q] EXCEPT !.pc = "done"]]
    BY <1>3 DEF Ends
  <2>2. PICK a : a = [actor[q] EXCEPT !.pc = "done"]
    OBVIOUS
  <2>3. a \in ActorRecord /\ a.pc = "done"
    BY <1>1, <2>2 DEF ActorRecord, ActorPCs
  <2>4. QED  BY <1>1, <2>1, <2>2, <2>3 DEF Onto, Engaged
<1>4. QED  BY <1>2, <1>3

LEMMA GoesOn ==
    ASSUME EnvTypes, NEW q \in Actors, NEW pc \in ActorPCs, Goes(q, pc)
    PROVE  Onto(q, pc)
<1>1. actor \in [Actors -> ActorRecord]
  BY DEF EnvTypes
<1>2. CASE pc = "done"
  BY <1>2, EndsIs DEF Goes
<1>3. CASE pc # "done"
  <2>1. actor' = [actor EXCEPT ![q].pc = pc]
    BY <1>3 DEF Goes
  <2>2. PICK a : a = [actor[q] EXCEPT !.pc = pc]
    OBVIOUS
  <2>3. /\ a \in ActorRecord /\ a.pc = pc /\ a.row = actor[q].row /\ a.id = actor[q].id
        /\ a.kind = actor[q].kind /\ a.branch = actor[q].branch
    BY <1>1, <2>2 DEF ActorRecord
  <2>4. actor' = [actor EXCEPT ![q] = a]
    BY <2>1, <2>2
  <2>5. QED  BY <1>1, <1>3, <2>3, <2>4 DEF Onto
<1>4. QED  BY <1>2, <1>3

\* A row changes in one column.
LEMMA RowPatched ==
    ASSUME NEW r \in EnvRow
    PROVE  /\ \A b \in Branches : /\ [r EXCEPT !.source = b] \in EnvRow
                                  /\ [r EXCEPT !.source = b].name = r.name
                                  /\ [r EXCEPT !.source = b].kind = r.kind
                                  /\ [r EXCEPT !.source = b].source = b
           /\ \A b \in BOOLEAN : /\ [r EXCEPT !.stale = b] \in EnvRow
                                 /\ [r EXCEPT !.stale = b].name = r.name
                                 /\ [r EXCEPT !.stale = b].kind = r.kind
                                 /\ [r EXCEPT !.stale = b].source = r.source
           /\ \A b \in BOOLEAN : /\ [r EXCEPT !.default = b] \in EnvRow
                                 /\ [r EXCEPT !.default = b].name = r.name
                                 /\ [r EXCEPT !.default = b].kind = r.kind
                                 /\ [r EXCEPT !.default = b].source = r.source
<1> DEFINE S == Branches \cup {NoRow.source}
<1>1. EnvRow = [name : Names, kind : {"standing", "preview"}, source : S,
                default : BOOLEAN, stale : BOOLEAN]
  BY EnvRowIs
<1>2. \A b \in Branches : b \in S
  OBVIOUS
<1> HIDE DEF S
<1>3. QED  BY <1>1, <1>2

\* A step of the one at work that touches no row.
LEMMA MovesActsOn ==
    ASSUME EnvTypes, NEW q \in Actors, Engaged(q), NEW pc, Onto(q, pc), UNCHANGED <<env, reapList>>,
           \A i \in Ids : i # actor[q].id => envApp'[i] = envApp[i],
           \A n \in Names : n # actor[q].row.name => namespace'[n] = namespace[n],
           \A x \in builds' : x \in builds \/ (x.id = actor[q].id /\ x.row = actor[q].row),
           disturbed \subseteq disturbed'
    PROVE  ActsOn(q)
<1>1. \A i \in Ids : env[i] = NoRow \/ env[i] \in EnvRow
  BY DEF EnvTypes
<1>2. Engaged(q)' => actor'[q].row = actor[q].row /\ actor'[q].id = actor[q].id
  BY DEF Onto
<1>3. \A r \in Actors \ {q} : actor'[r] = actor[r]
  BY DEF Onto
<1>4. QED  BY <1>1, <1>2, <1>3 DEF ActsOn

LEMMA AtWorkMeets ==
    ASSUME EnvInv, NEW q \in Actors, Engaged(q), actor[q].row.name \notin disturbed
    PROVE  LET n == actor[q].row.name IN
           /\ n \in Names /\ NameKept(n) /\ Meets(n, q)
           /\ AtWork(n) = {q} /\ BuildsOf(n) = {} /\ ListedOf(n) = {}
           /\ actor[q].pc # "source" => Whole(n)
<1> DEFINE n == actor[q].row.name
<1>1. n \in Names
  BY RowsShape DEF EnvInv, ActorLegal
<1>2. NameKept(n)
  BY <1>1 DEF EnvInv
<1>3. q \in AtWork(n)
  BY DEF AtWork, Engaged
<1>4. AtWork(n) = {q} /\ BuildsOf(n) = {} /\ ListedOf(n) = {}
  BY <1>2, <1>3 DEF NameKept, OneAtWork
<1>5. Meets(n, q) /\ (actor[q].pc # "source" => Whole(n))
  BY <1>2, <1>3, <1>4 DEF NameKept
<1>6. QED  BY <1>1, <1>2, <1>4, <1>5

LEMMA OneRow ==
    ASSUME EnvInv, NEW n, NEW i \in Named(n)
    PROVE  \A j \in Named(n) : j = i
  BY DEF EnvInv, EnvNamesOwn, Named

\* Rows stay, but for columns that no name depends on.
LEMMA NamedStay ==
    ASSUME EnvTypes, NEW n, UNCHANGED env
    PROVE  Named(n)' = Named(n)
  BY DEF Named, Rows

LEMMA SetSourceKeeps ==
    ASSUME EnvInv, NEW q \in Actors, SetSource(q)
    PROVE  EnvInv'
<1> DEFINE i == actor[q].id
<1>n. PICK n : n = actor[q].row.name
  OBVIOUS
<1> USE <1>n
<1>1. EnvTypes /\ Engaged(q) /\ actor[q].pc = "source" /\ ActorLegal(q)
  BY DEF EnvInv, SetSource, Engaged
<1>2. /\ i \in Ids /\ actor[q].row \in EnvRow /\ actor[q].branch \in Branches
      /\ NameOf[actor[q].branch] = n
  BY <1>1 DEF ActorLegal, Creating
<1>3. UNCHANGED <<envApp, namespace, defaultName, reapList, builds, disturbed, mishaps>>
  BY DEF SetSource
<1>4. CASE env[i] = NoRow
  <2>1. Onto(q, "done") /\ UNCHANGED env
    BY <1>1, <1>4, EndsIs DEF SetSource
  <2>2. EnvTypes'
    BY <1>1, <1>3, <2>1 DEF EnvTypes, Onto
  <2>3. ActsOn(q)
    BY <1>1, <1>3, <2>1, MovesActsOn
  <2>4. n \in disturbed
    <3>1. n \notin disturbed => i \in Named(n)
      BY <1>1, AtWorkMeets DEF Meets
    <3>2. QED  BY <1>4, <3>1 DEF Named, Rows
  <2>5. ActorLegal(q)'
    BY <2>1 DEF Onto, ActorLegal
  <2>6. QED  BY <1>1, <1>3, <2>2, <2>3, <2>4, <2>5, ActsKeep
<1>5. CASE env[i] # NoRow
  <2>1. env' = [env EXCEPT ![i].source = actor[q].branch] /\ Goes(q, "ensure")
    BY <1>5 DEF SetSource
  <2>2. Onto(q, "ensure") /\ Engaged(q)'
    <3>1. Onto(q, "ensure")
      BY <1>1, <2>1, GoesOn DEF ActorPCs
    <3>2. QED  BY <3>1 DEF Onto, Engaged
  <2>3. PICK r : r = [env[i] EXCEPT !.source = actor[q].branch]
    OBVIOUS
  <2>4. env[i] \in EnvRow /\ i \in Rows
    BY <1>1, <1>2, <1>5 DEF EnvTypes, Rows
  <2>5. /\ r \in EnvRow /\ r.name = env[i].name /\ r.kind = env[i].kind
        /\ r.source = actor[q].branch
    BY <1>2, <2>3, <2>4, RowPatched
  <2>6. env' = [env EXCEPT ![i] = r] /\ env \in [Ids -> EnvRow \cup {NoRow}]
    BY <1>1, <2>1, <2>3 DEF EnvTypes
  <2> HIDE DEF i
  <2>7. env' \in [Ids -> EnvRow \cup {NoRow}] /\ env'[i] = r /\ \A j \in Ids : j # i => env'[j] = env[j]
    BY <1>2, <2>5, <2>6
  <2>8. EnvTypes'
    BY <1>1, <1>3, <2>2, <2>7 DEF EnvTypes, Onto
  <2>9. ActsOn(q)
    <3>1. \A j \in Ids :
             \/ env'[j] = NoRow /\ env[j] = NoRow
             \/ /\ env[j] \in EnvRow /\ env'[j] \in EnvRow
                /\ env'[j].name = env[j].name /\ env'[j].kind = env[j].kind
                /\ j = i \/ env'[j].source = env[j].source
      BY <2>4, <2>5, <2>6, <2>7
    <3>2. QED  BY <1>3, <2>2, <3>1 DEF ActsOn, Onto, i
  <2>10. ActorLegal(q)'
    BY <1>2, <2>2 DEF Onto, ActorLegal, Creating, i
  <2>11. i \in Rows' /\ Rows' = Rows
    BY <1>2, <2>4, <2>5, <2>7, RowsShape DEF Rows
  <2>12. ASSUME n \notin disturbed'  PROVE OwnStep(n, q)
    <3>1. /\ n \in Names /\ Meets(n, q) /\ BuildsOf(n) = {} /\ i \in Named(n)
          /\ envApp[i] = "none" /\ namespace[n] \in {"none", "empty", "going"}
          /\ env[i].kind = "preview"
      BY <1>1, <1>3, <2>12, AtWorkMeets DEF Meets, Creating, i
    <3>2. Named(n)' = {i}
      <4>1. \A j \in Named(n) : j = i
        BY <3>1, OneRow
      <4>2. i \in Named(n)'
        BY <2>5, <2>7, <2>11, <3>1 DEF Named
      <4>3. Named(n)' \subseteq Named(n)
        BY <2>5, <2>7, <2>11 DEF Named, Rows
      <4>4. QED  BY <4>1, <4>2, <4>3
    <3>3. Whole(n)'
      BY <1>2, <1>3, <2>5, <2>7, <3>1, <3>2 DEF Whole
    <3>4. Meets(n, q)'
      BY <1>3, <2>2, <2>5, <2>7, <3>1, <3>2 DEF Meets, Onto, Creating, i
    <3>5. BuildsOf(n)' = {}
      BY <1>3, <3>1 DEF BuildsOf
    <3>6. QED  BY <1>3, <2>2, <3>3, <3>4, <3>5 DEF OwnStep
  <2>13. QED  BY <1>1, <2>8, <2>9, <2>10, <2>11, <2>12, ActsKeep DEF i
<1>6. QED  BY <1>4, <1>5

LEMMA EnsureKeeps ==
    ASSUME EnvInv, NEW q \in Actors, EnsureNamespace(q)
    PROVE  EnvInv'
<1> DEFINE i == actor[q].id
<1>n. PICK n : n = actor[q].row.name
  OBVIOUS
<1> USE <1>n
<1>1. EnvTypes /\ Engaged(q) /\ actor[q].pc = "ensure" /\ ActorLegal(q)
  BY DEF EnvInv, EnsureNamespace, Engaged
<1>2. i \in Ids /\ actor[q].row \in EnvRow /\ n \in Names
  BY <1>1, RowsShape DEF ActorLegal, Creating
<1>3. UNCHANGED <<env, envApp, defaultName, reapList, builds>>
  BY DEF EnsureNamespace
<1>4. CASE namespace' = Ensured(n) /\ Goes(q, "clone") /\ UNCHANGED <<disturbed, mishaps>>
  <2>1. Onto(q, "clone") /\ Engaged(q)'
    <3>1. Onto(q, "clone")
      BY <1>1, <1>4, GoesOn DEF ActorPCs
    <3>2. QED  BY <3>1 DEF Onto, Engaged
  <2>2. /\ namespace' \in [Names -> Branches \cup {Main, "none", "empty", "going"}]
        /\ \A m \in Names : m # n => namespace'[m] = namespace[m]
        /\ namespace'[n] = IF namespace[n] = "none" THEN "empty" ELSE namespace[n]
    BY <1>1, <1>2, <1>4 DEF EnvTypes, Ensured
  <2>3. EnvTypes'
    BY <1>1, <1>3, <1>4, <2>1, <2>2 DEF EnvTypes, Onto
  <2>4. ActsOn(q)
    BY <1>1, <1>3, <1>4, <2>1, <2>2, MovesActsOn
  <2>5. ActorLegal(q)'
    BY <1>1, <2>1 DEF Onto, ActorLegal, Creating
  <2>6. ASSUME n \notin disturbed'  PROVE OwnStep(n, q) /\ i \in Rows'
    <3>1. /\ Meets(n, q) /\ BuildsOf(n) = {} /\ Whole(n) /\ Named(n)' = Named(n)
      BY <1>1, <1>3, <1>4, <2>6, AtWorkMeets, NamedStay
    <3>2. /\ i \in Named(n) /\ env[i].kind = "preview" /\ envApp[i] = "none"
          /\ namespace'[n] \in {"none", "empty", "going"}
      BY <1>1, <2>2, <3>1 DEF Meets, Creating
    <3>3. Whole(n)'
      BY <1>3, <3>1, <3>2 DEF Whole
    <3>4. Meets(n, q)'
      BY <1>1, <1>3, <2>1, <3>1, <3>2 DEF Meets, Onto, Creating
    <3>5. BuildsOf(n)' = {}
      BY <1>3, <3>1 DEF BuildsOf
    <3>6. QED  BY <1>3, <2>1, <3>1, <3>2, <3>3, <3>4, <3>5 DEF OwnStep, Named
  <2>7. disturbed' = {} => i \in Rows'
    BY <2>6
  <2>8. QED  BY <1>1, <2>3, <2>4, <2>5, <2>6, <2>7, ActsKeep
<1>5. CASE Mishap("namespace") /\ Disturbs(n) /\ Ends(q) /\ UNCHANGED namespace
  <2>1. Onto(q, "done") /\ disturbed' = disturbed \cup {n} /\ mishaps' \subseteq EnvFaults
    BY <1>1, <1>5, EndsIs DEF Disturbs, Mishap, EnvTypes
  <2>2. EnvTypes'
    BY <1>1, <1>2, <1>3, <1>5, <2>1 DEF EnvTypes, Onto
  <2>3. ActsOn(q)
    BY <1>1, <1>3, <1>5, <2>1, MovesActsOn
  <2>4. ActorLegal(q)'
    BY <2>1 DEF Onto, ActorLegal
  <2>5. QED  BY <1>1, <2>1, <2>2, <2>3, <2>4, ActsKeep
<1>6. QED  BY <1>4, <1>5 DEF EnsureNamespace

LEMMA CloneKeeps ==
    ASSUME EnvInv, NEW q \in Actors, Clone(q)
    PROVE  EnvInv'
<1> DEFINE i == actor[q].id
<1>n. PICK n : n = actor[q].row.name
  OBVIOUS
<1> USE <1>n
<1>1. EnvTypes /\ Engaged(q) /\ actor[q].pc = "clone" /\ ActorLegal(q)
  BY DEF EnvInv, Clone, Engaged
<1>2. i \in Ids /\ actor[q].row \in EnvRow /\ n \in Names
  BY <1>1, RowsShape DEF ActorLegal, Creating
<1>3. UNCHANGED <<env, envApp, namespace, defaultName, reapList, builds, disturbed, mishaps>>
  BY DEF Clone
<1>4. PICK pc \in {"deploy", "done", "insert"} : Goes(q, pc)
  BY DEF Clone, AfterClone
<1>5. Onto(q, pc)
  BY <1>1, <1>4, GoesOn DEF ActorPCs
<1>6. EnvTypes'
  BY <1>1, <1>3, <1>5 DEF EnvTypes, Onto
<1>7. ActsOn(q)
  BY <1>1, <1>3, <1>5, MovesActsOn
<1>8. ActorLegal(q)'
  BY <1>1, <1>5 DEF Onto, ActorLegal, Creating
<1>9. ASSUME n \notin disturbed'  PROVE OwnStep(n, q) /\ i \in Rows'
  <2>1. /\ Meets(n, q) /\ BuildsOf(n) = {} /\ Whole(n) /\ Named(n)' = Named(n)
    BY <1>1, <1>3, <1>9, AtWorkMeets, NamedStay
  <2>2. /\ i \in Named(n) /\ env[i].kind = "preview" /\ envApp[i] = "none"
        /\ namespace[n] \in {"none", "empty", "going"}
    BY <1>1, <2>1 DEF Meets, Creating
  <2>3. Whole(n)'
    BY <1>3, <2>1 DEF Whole
  <2>4. Engaged(q)' => Meets(n, q)'
    BY <1>1, <1>3, <1>4, <1>5, <2>1, <2>2 DEF Meets, Onto, Creating, Engaged
  <2>5. BuildsOf(n)' = {}
    BY <1>3, <2>1 DEF BuildsOf
  <2>6. QED  BY <1>3, <2>1, <2>2, <2>3, <2>4, <2>5 DEF OwnStep, Named
<1>10. disturbed' = {} => i \in Rows'
  BY <1>9
<1>11. QED  BY <1>1, <1>6, <1>7, <1>8, <1>9, <1>10, ActsKeep

\* The same rows, but for what says nothing of a name.
SameRows ==
    /\ env' \in [Ids -> EnvRow \cup {NoRow}]
    /\ \A j \in Ids :
          \/ env'[j] = NoRow /\ env[j] = NoRow
          \/ /\ env[j] \in EnvRow /\ env'[j] \in EnvRow
             /\ env'[j].name = env[j].name /\ env'[j].kind = env[j].kind
             /\ env'[j].source = env[j].source

LEMMA UnchangedRows == ASSUME EnvTypes, UNCHANGED env  PROVE SameRows
  BY DEF EnvTypes, SameRows

LEMMA SameNamed ==
    ASSUME EnvTypes, SameRows
    PROVE  Rows' = Rows /\ \A n : Named(n)' = Named(n)
<1>1. Rows' = Rows
  BY RowsShape DEF SameRows, Rows
<1>2. QED  BY <1>1 DEF SameRows, Rows, Named

LEMMA TouchedIs ==
    ASSUME EnvTypes, NEW i \in Ids, env' = Touched(i)
    PROVE  SameRows
<1>1. CASE env[i] = NoRow
  BY <1>1, UnchangedRows DEF Touched
<1>2. CASE env[i] # NoRow
  <2>1. env[i] \in EnvRow /\ env \in [Ids -> EnvRow \cup {NoRow}]
    BY <1>2 DEF EnvTypes
  <2>2. PICK r : r = [env[i] EXCEPT !.stale = FALSE]
    OBVIOUS
  <2>3. r \in EnvRow /\ r.name = env[i].name /\ r.kind = env[i].kind /\ r.source = env[i].source
    BY <2>1, <2>2, RowPatched
  <2>4. env' = [env EXCEPT ![i] = r]
    BY <1>2, <2>2 DEF Touched
  <2>5. QED  BY <2>1, <2>3, <2>4 DEF SameRows
<1>3. QED  BY <1>1, <1>2

LEMMA WholeStays ==
    ASSUME EnvTypes, SameRows, NEW n, Whole(n),
           \A i \in Named(n) : envApp'[i] \in {envApp[i], "none"},
           namespace'[n] \in {namespace[n], "none", "going"}
    PROVE  Whole(n)'
<1>1. Named(n)' = Named(n) /\ Named(n) \subseteq Ids
  BY SameNamed DEF Named, Rows
<1>2. \A i \in Named(n) : env'[i].kind = env[i].kind /\ env'[i].source = env[i].source
  BY <1>1 DEF SameRows, Named, Rows
<1>3. QED  BY <1>1, <1>2 DEF Whole

LEMMA SameActsOn ==
    ASSUME EnvTypes, NEW q \in Actors, Engaged(q), NEW pc, Onto(q, pc), SameRows, UNCHANGED reapList,
           \A i \in Ids : i # actor[q].id => envApp'[i] = envApp[i],
           \A n \in Names : n # actor[q].row.name => namespace'[n] = namespace[n],
           \A x \in builds' : x \in builds \/ (x.id = actor[q].id /\ x.row = actor[q].row),
           disturbed \subseteq disturbed'
    PROVE  ActsOn(q)
<1>1. Engaged(q)' => actor'[q].row = actor[q].row /\ actor'[q].id = actor[q].id
  BY DEF Onto
<1>2. \A r \in Actors \ {q} : actor'[r] = actor[r]
  BY DEF Onto
<1>3. QED  BY <1>1, <1>2 DEF ActsOn, SameRows

LEMMA InsertKeeps ==
    ASSUME EnvInv, NEW q \in Actors, Insert(q)
    PROVE  EnvInv'
<1> DEFINE i == actor[q].id
<1>n. PICK n : n = actor[q].row.name
  OBVIOUS
<1> USE <1>n
<1>1. EnvTypes /\ Engaged(q) /\ actor[q].pc = "insert" /\ ActorLegal(q)
  BY DEF EnvInv, Insert, Engaged
<1>2. i \in Ids /\ actor[q].row \in EnvRow /\ n \in Names /\ actor[q].branch \in Branches
  BY <1>1, RowsShape DEF ActorLegal, Creating
<1>3. UNCHANGED <<env, namespace, defaultName, reapList, builds>>
  BY DEF Insert
<1>4. PICK pc \in {"deploy", "done"} : Goes(q, pc)
  BY DEF Insert, AfterClone
<1>5. Onto(q, pc)
  BY <1>1, <1>4, GoesOn DEF ActorPCs
<1>6. /\ envApp' \in [Ids -> Branches \cup {Main, "none", "bare"}]
      /\ \A j \in Ids : j # i => envApp'[j] = envApp[j]
      /\ \/ UNCHANGED <<disturbed, mishaps>> /\ envApp'[i] \in {envApp[i], actor[q].branch}
         \/ disturbed' = disturbed \cup {n} /\ mishaps' \subseteq EnvFaults
  <2>1. envApp \in [Ids -> Branches \cup {Main, "none", "bare"}] /\ mishaps \subseteq EnvFaults
    BY <1>1 DEF EnvTypes
  <2>2. CASE UNCHANGED <<envApp, disturbed, mishaps>>
    BY <2>1, <2>2
  <2>3. CASE envApp' = [envApp EXCEPT ![i] = actor[q].branch] /\ UNCHANGED <<disturbed, mishaps>>
    BY <1>2, <2>1, <2>3
  <2>4. CASE /\ Mishap("clone") /\ Disturbs(n)
             /\ \E left \in {"none", "bare"} : envApp' = [envApp EXCEPT ![i] = left]
    <3>1. disturbed' = disturbed \cup {n} /\ mishaps' \subseteq EnvFaults
      BY <2>1, <2>4 DEF Disturbs, Mishap
    <3>2. QED  BY <1>2, <2>1, <2>4, <3>1
  <2>5. QED  BY <2>2, <2>3, <2>4 DEF Insert
<1>7. EnvTypes' /\ disturbed \subseteq disturbed'
  BY <1>1, <1>2, <1>3, <1>5, <1>6 DEF EnvTypes, Onto
<1>8. ActsOn(q)
  BY <1>1, <1>3, <1>5, <1>6, <1>7, MovesActsOn
<1>9. ActorLegal(q)'
  BY <1>1, <1>4, <1>5 DEF Onto, ActorLegal, Creating
<1>10. ASSUME n \notin disturbed'  PROVE OwnStep(n, q) /\ i \in Rows'
  <2>1. UNCHANGED <<disturbed, mishaps>> /\ envApp'[i] \in {envApp[i], actor[q].branch}
    BY <1>6, <1>10
  <2>2. /\ Meets(n, q) /\ BuildsOf(n) = {} /\ Whole(n) /\ Named(n)' = Named(n)
    BY <1>1, <1>3, <1>10, <2>1, AtWorkMeets, NamedStay
  <2>3. i \in Named(n) /\ envApp[i] = "none" /\ env[i].source = actor[q].branch
    BY <1>1, <2>2 DEF Meets, Creating
  <2>4. \A j \in Named(n) : j = i
    BY <2>3, OneRow
  <2>5. Whole(n)'
    BY <1>3, <2>1, <2>2, <2>3, <2>4 DEF Whole
  <2>6. Engaged(q)' => Meets(n, q)'
    BY <1>1, <1>4, <1>5, <2>2, <2>3 DEF Meets, Onto, Creating, Engaged
  <2>7. BuildsOf(n)' = {}
    BY <1>3, <2>2 DEF BuildsOf
  <2>8. QED  BY <1>3, <2>2, <2>3, <2>5, <2>6, <2>7 DEF OwnStep, Named
<1>11. disturbed' = {} => i \in Rows'
  BY <1>10
<1>12. QED  BY <1>1, <1>7, <1>8, <1>9, <1>10, <1>11, ActsKeep

LEMMA DeployAppsKeeps ==
    ASSUME EnvInv, NEW q \in Actors, DeployApps(q)
    PROVE  EnvInv'
<1> DEFINE i == actor[q].id
<1>n. PICK n : n = actor[q].row.name
  OBVIOUS
<1> USE <1>n
<1>1. EnvTypes /\ Engaged(q) /\ actor[q].pc = "deploy" /\ ActorLegal(q)
  BY DEF EnvInv, DeployApps, Engaged
<1>2. i \in Ids /\ actor[q].row \in EnvRow /\ n \in Names
  BY <1>1, RowsShape DEF ActorLegal
<1>3. UNCHANGED <<envApp, namespace, defaultName, reapList, disturbed, mishaps>>
  BY DEF DeployApps
<1>4. Onto(q, "done") /\ ~ Engaged(q)'
  BY <1>1, EndsIs DEF DeployApps, Onto
<1>5. SameRows
  BY <1>1, <1>2, TouchedIs DEF DeployApps
<1>6. PICK x : x = [pc |-> "build", id |-> i, row |-> actor[q].row, branch |-> envApp[i]]
  OBVIOUS
<1>7. \/ builds' = builds
      \/ builds' = builds \cup {x} /\ envApp[i] \notin {"none", "bare"}
  BY <1>6 DEF DeployApps
<1>8. /\ x.id = i /\ x.row = actor[q].row /\ x.branch = envApp[i] /\ x.pc = "build"
      /\ envApp[i] \notin {"none", "bare"} =>
            x \in [pc : {"build", "apply"}, id : Ids, row : EnvRow, branch : Branches \cup {Main}]
  BY <1>1, <1>2, <1>6 DEF EnvTypes
<1>9. EnvTypes'
  BY <1>1, <1>3, <1>4, <1>5, <1>7, <1>8 DEF EnvTypes, Onto, SameRows
<1>10. ActsOn(q)
  <2>1. \A y \in builds' : y \in builds \/ (y.id = actor[q].id /\ y.row = actor[q].row)
    BY <1>7, <1>8
  <2>2. QED  BY <1>1, <1>3, <1>4, <1>5, <2>1, SameActsOn
<1>11. ActorLegal(q)'
  BY <1>4 DEF ActorLegal
<1>12. ASSUME n \notin disturbed'  PROVE OwnStep(n, q) /\ i \in Rows'
  <2>1. /\ Meets(n, q) /\ BuildsOf(n) = {} /\ Whole(n) /\ Named(n)' = Named(n) /\ i \in Named(n)
    BY <1>1, <1>3, <1>5, <1>12, AtWorkMeets, SameNamed DEF Meets
  <2>2. Whole(n)'
    BY <1>1, <1>3, <1>5, <2>1, WholeStays
  <2>3. ASSUME NEW y \in BuildsOf(n)'  PROVE BuildFits(n, y)'
    <3>1. y = x /\ envApp[i] \notin {"none", "bare"}
      BY <1>7, <2>1, <2>3 DEF BuildsOf
    <3>2. env'[i].kind = env[i].kind /\ env'[i].source = env[i].source
      BY <1>5, <2>1 DEF SameRows, Named, Rows
    <3>3. env[i].kind = "preview" => envApp[i] = env[i].source
      BY <2>1, <3>1 DEF Whole
    <3>4. QED  BY <1>8, <2>1, <3>1, <3>2, <3>3 DEF BuildFits
  <2>4. \E z : builds' \subseteq builds \cup {z}
    BY <1>7
  <2>5. QED  BY <1>1, <1>4, <1>5, <2>1, <2>2, <2>3, <2>4, SameNamed DEF OwnStep, Named
<1>13. disturbed' = {} => i \in Rows'
  BY <1>12
<1>14. QED  BY <1>1, <1>9, <1>10, <1>11, <1>12, <1>13, ActsKeep

LEMMA UnnameKeeps ==
    ASSUME EnvInv, NEW q \in Actors, Unname(q)
    PROVE  EnvInv'
<1> DEFINE i == actor[q].id
<1>n. PICK n : n = actor[q].row.name
  OBVIOUS
<1> USE <1>n
<1>1. EnvTypes /\ Engaged(q) /\ actor[q].pc = "unname" /\ ActorLegal(q)
  BY DEF EnvInv, Unname, Engaged
<1>2. i \in Ids /\ actor[q].row \in EnvRow /\ n \in Names
  BY <1>1, RowsShape DEF ActorLegal
<1>3. UNCHANGED <<env, envApp, defaultName, reapList, builds>> /\ Goes(q, "unapp")
  BY DEF Unname
<1>4. Onto(q, "unapp") /\ Engaged(q)'
  <2>1. Onto(q, "unapp")
    BY <1>1, <1>3, GoesOn DEF ActorPCs
  <2>2. QED  BY <2>1 DEF Onto, Engaged
<1>5. /\ namespace' \in [Names -> Branches \cup {Main, "none", "empty", "going"}]
      /\ \A m \in Names : m # n => namespace'[m] = namespace[m]
      /\ \/ UNCHANGED <<disturbed, mishaps>> /\ namespace'[n] \in {"none", "going"}
         \/ disturbed' = disturbed \cup {n} /\ mishaps' \subseteq EnvFaults
  <2>1. namespace \in [Names -> Branches \cup {Main, "none", "empty", "going"}]
        /\ mishaps \subseteq EnvFaults
    BY <1>1 DEF EnvTypes
  <2>2. CASE /\ namespace' = IF namespace[n] = "none" THEN namespace
                             ELSE [namespace EXCEPT ![n] = "going"]
             /\ UNCHANGED <<disturbed, mishaps>>
    BY <1>2, <2>1, <2>2
  <2>3. CASE Mishap("namespace") /\ Disturbs(n) /\ UNCHANGED namespace
    BY <2>1, <2>3 DEF Mishap, Disturbs
  <2>4. QED  BY <2>2, <2>3 DEF Unname
<1>6. EnvTypes' /\ disturbed \subseteq disturbed'
  BY <1>1, <1>2, <1>3, <1>4, <1>5 DEF EnvTypes, Onto
<1>7. ActsOn(q)
  BY <1>1, <1>3, <1>4, <1>5, <1>6, MovesActsOn
<1>8. ActorLegal(q)'
  BY <1>1, <1>4 DEF Onto, ActorLegal, Creating
<1>9. ASSUME n \notin disturbed'  PROVE OwnStep(n, q) /\ i \in Rows'
  <2>1. UNCHANGED <<disturbed, mishaps>> /\ namespace'[n] \in {"none", "going"}
    BY <1>5, <1>9
  <2>2. /\ Meets(n, q) /\ BuildsOf(n) = {} /\ Whole(n) /\ Named(n)' = Named(n) /\ i \in Named(n)
    BY <1>1, <1>3, <1>9, <2>1, AtWorkMeets, NamedStay DEF Meets
  <2>3. Whole(n)'
    BY <1>1, <1>3, <2>1, <2>2, UnchangedRows, WholeStays
  <2>4. Meets(n, q)'
    BY <1>1, <1>3, <1>4, <2>1, <2>2 DEF Meets, Onto, Creating
  <2>5. BuildsOf(n)' = {}
    BY <1>3, <2>2 DEF BuildsOf
  <2>6. QED  BY <1>3, <1>4, <2>2, <2>3, <2>4, <2>5 DEF OwnStep, Named
<1>10. disturbed' = {} => i \in Rows'
  BY <1>9
<1>11. QED  BY <1>1, <1>6, <1>7, <1>8, <1>9, <1>10, ActsKeep

LEMMA UnappKeeps ==
    ASSUME EnvInv, NEW q \in Actors, Unapp(q)
    PROVE  EnvInv'
<1> DEFINE i == actor[q].id
           finds == actor[q].kind # "deleteEnv" \/ actor[q].branch # "none"
<1>n. PICK n : n = actor[q].row.name
  OBVIOUS
<1> USE <1>n
<1>1. EnvTypes /\ Engaged(q) /\ actor[q].pc = "unapp" /\ ActorLegal(q)
  BY DEF EnvInv, Unapp, Engaged
<1>2. i \in Ids /\ actor[q].row \in EnvRow /\ n \in Names
  BY <1>1, RowsShape DEF ActorLegal
<1>3. UNCHANGED <<env, namespace, defaultName, reapList, disturbed, mishaps>>
  BY DEF Unapp
<1>4. /\ envApp' = IF finds THEN [envApp EXCEPT ![i] = "none"] ELSE envApp
      /\ builds' \subseteq builds
      /\ Goes(q, IF actor[q].kind = "deleteEnv" /\ finds /\ envApp[i] = "none" THEN "done" ELSE "unrow")
  BY DEF Unapp
<1> HIDE DEF finds
<1>5. PICK pc \in {"done", "unrow"} : Goes(q, pc)
  BY <1>4
<1>6. Onto(q, pc)
  BY <1>1, <1>5, GoesOn DEF ActorPCs
<1>7. /\ envApp' \in [Ids -> Branches \cup {Main, "none", "bare"}]
      /\ \A j \in Ids : j # i => envApp'[j] = envApp[j]
      /\ finds => envApp'[i] = "none"
      /\ ~ finds => envApp'[i] = envApp[i]
  BY <1>1, <1>2, <1>4 DEF EnvTypes
<1>8. EnvTypes'
  BY <1>1, <1>3, <1>4, <1>6, <1>7 DEF EnvTypes, Onto
<1>9. ActsOn(q)
  BY <1>1, <1>3, <1>4, <1>6, <1>7, MovesActsOn
<1>10. ActorLegal(q)'
  BY <1>1, <1>5, <1>6 DEF Onto, ActorLegal, Creating
<1>11. ASSUME n \notin disturbed'  PROVE OwnStep(n, q) /\ i \in Rows'
  <2>1. /\ Meets(n, q) /\ BuildsOf(n) = {} /\ Whole(n) /\ Named(n)' = Named(n) /\ i \in Named(n)
    BY <1>1, <1>3, <1>11, AtWorkMeets, NamedStay DEF Meets
  <2>2. envApp'[i] = "none"
    <3>1. CASE finds
      BY <1>7, <3>1
    <3>2. CASE ~ finds
      <4>1. actor[q].kind = "deleteEnv" /\ actor[q].branch = "none"
        BY <3>2 DEF finds
      <4>2. QED  BY <1>1, <1>7, <2>1, <3>2, <4>1 DEF Meets
    <3>3. QED  BY <3>1, <3>2
  <2>3. \A j \in Named(n) : j = i
    BY <2>1, OneRow
  <2>4. Whole(n)'
    BY <1>1, <1>3, <2>1, <2>2, <2>3, UnchangedRows, WholeStays
  <2>5. Engaged(q)' => Meets(n, q)'
    BY <1>1, <1>3, <1>5, <1>6, <2>1, <2>2 DEF Meets, Onto, Creating, Engaged
  <2>6. BuildsOf(n)' = {}
    BY <1>4, <2>1 DEF BuildsOf
  <2>7. QED  BY <1>3, <1>4, <2>1, <2>4, <2>5, <2>6 DEF OwnStep, Named
<1>12. disturbed' = {} => i \in Rows'
  BY <1>11
<1>13. QED  BY <1>1, <1>8, <1>9, <1>10, <1>11, <1>12, ActsKeep

LEMMA UnrowKeeps ==
    ASSUME EnvInv, NEW q \in Actors, Unrow(q)
    PROVE  EnvInv'
<1>i. PICK i : i = actor[q].id
  OBVIOUS
<1>n. PICK n : n = actor[q].row.name
  OBVIOUS
<1> USE <1>i, <1>n
<1>1. EnvTypes /\ Engaged(q) /\ actor[q].pc = "unrow" /\ ActorLegal(q)
  BY DEF EnvInv, Unrow, Engaged
<1>2. i \in Ids /\ actor[q].row \in EnvRow /\ n \in Names
  BY <1>1, RowsShape DEF ActorLegal
<1>3. UNCHANGED <<envApp, namespace, defaultName, reapList, builds, disturbed, mishaps>>
  BY DEF Unrow
<1>4. Onto(q, "done") /\ ~ Engaged(q)'
  BY <1>1, EndsIs DEF Unrow, Onto
<1>5. /\ env' \in [Ids -> EnvRow \cup {NoRow}] /\ env'[i] = NoRow
      /\ \A j \in Ids : j # i => env'[j] = env[j]
  BY <1>1, <1>2 DEF Unrow, EnvTypes
<1>6. EnvTypes'
  BY <1>1, <1>3, <1>4, <1>5 DEF EnvTypes, Onto
<1>7. ActsOn(q)
  <2>1. \A j \in Ids :
           \/ env'[j] = NoRow /\ (env[j] = NoRow \/ j = i)
           \/ /\ env[j] \in EnvRow /\ env'[j] \in EnvRow
              /\ env'[j].name = env[j].name /\ env'[j].kind = env[j].kind
              /\ env'[j].source = env[j].source
    BY <1>1, <1>5 DEF EnvTypes
  <2>2. QED  BY <1>3, <1>4, <2>1 DEF ActsOn, Onto
<1>8. ActorLegal(q)'
  BY <1>4 DEF ActorLegal
<1>9. ASSUME n \notin disturbed'  PROVE OwnStep(n, q) /\ envApp'[i] = "none"
  <2>1. /\ Meets(n, q) /\ BuildsOf(n) = {} /\ i \in Named(n)
        /\ envApp[i] = "none" /\ namespace[n] \in {"none", "going"}
    BY <1>1, <1>3, <1>9, AtWorkMeets DEF Meets
  <2>2. \A j \in Named(n) : j = i
    BY <2>1, OneRow
  <2>3. Named(n)' = {}
    BY <1>5, <2>2 DEF Named, Rows
  <2>4. Whole(n)'
    BY <1>3, <2>1, <2>3 DEF Whole
  <2>5. BuildsOf(n)' = {}
    BY <1>3, <2>1 DEF BuildsOf
  <2>6. QED  BY <1>3, <1>4, <2>1, <2>4, <2>5 DEF OwnStep
<1>10. disturbed' = {} => envApp'[i] = "none"
  BY <1>9
<1>11. QED  BY <1>1, <1>6, <1>7, <1>8, <1>9, <1>10, ActsKeep

\* Steps of one at work that touch neither app nor namespace.
LEMMA QuietStepKeeps ==
    ASSUME EnvInv, EnvTypes', NEW q \in Actors, Engaged(q), actor[q].pc \in {"flag", "name"},
           NEW pc \in {"name", "done"}, Onto(q, pc), SameRows,
           UNCHANGED <<envApp, namespace, reapList, builds, disturbed>>
    PROVE  EnvInv'
<1>i. PICK i : i = actor[q].id
  OBVIOUS
<1>n. PICK n : n = actor[q].row.name
  OBVIOUS
<1> USE <1>i, <1>n
<1>1. EnvTypes /\ ActorLegal(q)
  BY DEF EnvInv
<1>2. i \in Ids /\ actor[q].row \in EnvRow /\ n \in Names
  BY <1>1, RowsShape DEF ActorLegal
<1>3. ActsOn(q)
  BY <1>1, SameActsOn
<1>4. ActorLegal(q)'
  BY <1>1 DEF Onto, ActorLegal, Creating
<1>5. ASSUME n \notin disturbed'  PROVE OwnStep(n, q) /\ i \in Rows'
  <2>1. /\ Meets(n, q) /\ BuildsOf(n) = {} /\ Whole(n) /\ Named(n)' = Named(n) /\ i \in Named(n)
    BY <1>1, <1>5, AtWorkMeets, SameNamed DEF Meets
  <2>2. Whole(n)'
    BY <1>1, <2>1, WholeStays
  <2>3. Engaged(q)' => Meets(n, q)'
    BY <2>1 DEF Meets, Onto, Creating, Engaged
  <2>4. BuildsOf(n)' = {}
    BY <2>1 DEF BuildsOf
  <2>5. QED  BY <1>1, <2>1, <2>2, <2>3, <2>4, SameNamed DEF OwnStep, Named
<1>6. disturbed' = {} => i \in Rows'
  BY <1>5
<1>7. QED  BY <1>1, <1>3, <1>4, <1>5, <1>6, ActsKeep

LEMMA SetFlagsKeeps ==
    ASSUME EnvInv, NEW q \in Actors, SetFlags(q)
    PROVE  EnvInv'
<1>1. EnvTypes /\ Engaged(q) /\ actor[q].pc = "flag" /\ ActorLegal(q)
  BY DEF EnvInv, SetFlags, Engaged
<1>2. UNCHANGED <<envApp, namespace, defaultName, reapList, builds, disturbed, mishaps>>
  BY DEF SetFlags
<1>3. PICK pc \in {"name", "done"} : Onto(q, pc)
  BY <1>1, EndsIs, GoesOn DEF SetFlags, ActorPCs
<1>4. SameRows
  <2>1. CASE UNCHANGED env
    BY <1>1, <2>1, UnchangedRows
  <2>2. CASE env' = [i \in Ids |-> IF i \in Rows THEN [env[i] EXCEPT !.default = i = actor[q].id]
                                   ELSE NoRow]
    <3>1. ASSUME NEW j \in Ids
          PROVE  \/ env'[j] = NoRow /\ env[j] = NoRow
                 \/ /\ env[j] \in EnvRow /\ env'[j] \in EnvRow
                    /\ env'[j].name = env[j].name /\ env'[j].kind = env[j].kind
                    /\ env'[j].source = env[j].source
      <4>1. CASE j \notin Rows
        BY <2>2, <4>1 DEF Rows
      <4>2. CASE j \in Rows
        <5>1. env[j] \in EnvRow
          BY <1>1, <4>2 DEF EnvTypes, Rows
        <5>2. PICK b \in BOOLEAN : b = (j = actor[q].id)
          OBVIOUS
        <5>3. env'[j] = [env[j] EXCEPT !.default = b]
          BY <2>2, <4>2, <5>2
        <5>4. QED  BY <5>1, <5>3, RowPatched
      <4>3. QED  BY <4>1, <4>2
    <3>2. env' \in [Ids -> EnvRow \cup {NoRow}]
      <4>1. DOMAIN env' = Ids /\ env' = [j \in Ids |-> env'[j]]
        BY <2>2
      <4>2. QED  BY <3>1, <4>1
    <3>3. QED  BY <3>1, <3>2 DEF SameRows
  <2>3. QED  BY <2>1, <2>2 DEF SetFlags
<1>5. EnvTypes'
  BY <1>1, <1>2, <1>3, <1>4 DEF EnvTypes, Onto, SameRows
<1>6. QED  BY <1>1, <1>2, <1>3, <1>4, <1>5, QuietStepKeeps

LEMMA SetNameKeeps ==
    ASSUME EnvInv, NEW q \in Actors, SetName(q)
    PROVE  EnvInv'
<1>1. EnvTypes /\ Engaged(q) /\ actor[q].pc = "name" /\ ActorLegal(q)
  BY DEF EnvInv, SetName, Engaged
<1>2. /\ UNCHANGED <<env, envApp, namespace, reapList, builds, disturbed, mishaps>>
      /\ defaultName' \in Names
  BY <1>1, RowsShape DEF SetName, ActorLegal
<1>3. Onto(q, "done")
  BY <1>1, EndsIs DEF SetName
<1>4. SameRows
  BY <1>1, <1>2, UnchangedRows
<1>5. EnvTypes'
  BY <1>1, <1>2, <1>3 DEF EnvTypes, Onto
<1>6. QED  BY <1>1, <1>2, <1>3, <1>4, <1>5, QuietStepKeeps

--------------------------------
\* Rows that come, requests that begin and answer.

\* One that was at work on no name that matters ends, or answers.
LEMMA LeavesKeep ==
    ASSUME EnvInv, NEW q \in Actors, Onto(q, "done"), Engaged(q) => actor[q].row.name \in disturbed,
           UNCHANGED <<env, envApp, namespace, defaultName, reapList, builds, disturbed, mishaps>>
    PROVE  EnvInv'
<1>1. EnvTypes /\ EnvTypes' /\ ~ Engaged(q)'
  BY DEF EnvInv, EnvTypes, Onto
<1>2. ASSUME NEW r \in Actors  PROVE ActorLegal(r)' /\ (Engaged(r)' => r # q /\ actor'[r] = actor[r])
  <2>1. CASE r = q
    BY <1>1, <2>1 DEF ActorLegal
  <2>2. CASE r # q
    BY <2>2 DEF Onto, EnvInv, ActorLegal, Engaged
  <2>3. QED  BY <2>1, <2>2
<1>3. ASSUME NEW n \in Names \ disturbed'  PROVE NameKept(n)'
  <2>1. NameKept(n) /\ n \notin disturbed
    BY <1>3 DEF EnvInv
  <2>2. AtWork(n)' = AtWork(n) /\ \A r \in AtWork(n) : actor'[r] = actor[r]
    BY <1>1, <1>2, <2>1 DEF AtWork, Engaged, Onto
  <2>3. Named(n)' = Named(n) /\ BuildsOf(n)' = BuildsOf(n) /\ ListedOf(n)' = ListedOf(n)
    BY DEF Named, Rows, BuildsOf, ListedOf
  <2>4. IdOwn(n)'
    BY <1>2, <2>1, <2>3 DEF NameKept, IdOwn, Engaged
  <2>5. Apart(n)
    BY <2>2, <2>3, <2>4 DEF Apart
  <2>6. QED  BY <2>1, <2>5, ApartKeeps
<1>4. EnvNamesOwn' /\ NothingLeft'
  BY DEF EnvInv, EnvNamesOwn, NothingLeft, Rows
<1>5. QED  BY <1>1, <1>2, <1>3, <1>4 DEF EnvInv

LEMMA AnswersKeep ==
    ASSUME EnvInv, NEW q \in Actors, actor[q].pc = "idle", Answers(q)
    PROVE  EnvInv'
<1>1. actor \in [Actors -> ActorRecord]
  BY DEF EnvInv, EnvTypes
<1>2. PICK a : a = [actor[q] EXCEPT !.pc = "done"]
  OBVIOUS
<1>3. a \in ActorRecord /\ a.pc = "done"
  BY <1>1, <1>2 DEF ActorRecord, ActorPCs
<1>4. actor' = [actor EXCEPT ![q] = a]
  BY <1>2 DEF Answers
<1>5. Onto(q, "done")
  BY <1>1, <1>3, <1>4 DEF Onto, Engaged
<1>6. QED  BY <1>5, LeavesKeep DEF Answers, Engaged

\* q inserts a row, and works on no other.
Inserts(q, i, given) ==
    /\ Named(given.name) = {} /\ env' = [env EXCEPT ![i] = given]
    /\ UNCHANGED <<envApp, namespace, reapList, builds>> /\ disturbed \subseteq disturbed'
    /\ \A r \in Actors \ {q} : actor'[r] = actor[r]
    /\ Engaged(q) => actor[q].row.name = given.name
    /\ Engaged(q)' => actor'[q].row.name = given.name /\ actor'[q].id = i

\* A row comes: the other names do not notice.
LEMMA RowComes ==
    ASSUME EnvInv, EnvTypes', NEW q \in Actors, NEW i \in Ids \ Rows, NEW given \in EnvRow,
           Inserts(q, i, given)
    PROVE  /\ EnvNamesOwn' /\ NothingLeft' /\ Named(given.name)' = {i} /\ env'[i] = given
           /\ \A n \in Names : n \notin disturbed' /\ n # given.name => NameKept(n)'
<1>1. EnvTypes /\ env \in [Ids -> EnvRow \cup {NoRow}] /\ given # NoRow
  BY RowsShape DEF EnvInv, EnvTypes
<1>2. /\ env'[i] = given /\ \A j \in Ids : j # i => env'[j] = env[j]
  BY <1>1 DEF Inserts
<1>3. Rows' = Rows \cup {i}
  BY <1>1, <1>2 DEF Rows
<1>4. \A j \in Rows : env[j].name # given.name
  BY DEF Named, Inserts
<1>5. EnvNamesOwn'
  BY <1>2, <1>3, <1>4 DEF EnvInv, EnvNamesOwn, Rows
<1>6. NothingLeft'
  BY <1>3 DEF EnvInv, NothingLeft, Inserts
<1>7. Named(given.name)' = {i}
  BY <1>2, <1>3, <1>4 DEF Named, Rows
<1>8. ASSUME NEW n \in Names, n \notin disturbed', n # given.name  PROVE NameKept(n)'
  <2>1. NameKept(n)
    BY <1>8 DEF EnvInv, Inserts
  <2>2. Named(n)' = Named(n) /\ i \notin Named(n) /\ \A j \in Named(n) : env'[j] = env[j]
    BY <1>2, <1>3, <1>8 DEF Named, Rows
  <2>3. AtWork(n)' = AtWork(n) /\ \A r \in AtWork(n) : actor'[r] = actor[r]
    <3>1. \A r \in Actors : r \in AtWork(n) => r # q
      BY <1>8 DEF AtWork, Engaged, Inserts
    <3>2. \A r \in Actors : r \in AtWork(n)' => r # q
      BY <1>8 DEF AtWork, Engaged, Inserts
    <3>3. \A r \in Actors \ {q} : r \in AtWork(n)' <=> r \in AtWork(n)
      BY DEF AtWork, Inserts
    <3>4. QED  BY <3>1, <3>2, <3>3 DEF AtWork, Inserts
  <2>4. BuildsOf(n)' = BuildsOf(n) /\ ListedOf(n)' = ListedOf(n)
    BY DEF BuildsOf, ListedOf, Inserts
  <2>5. IdOwn(n)'
    <3>1. ASSUME NEW j \in Named(n)', NEW r \in Actors, Engaged(r)', actor'[r].id = j
          PROVE  actor'[r].row.name = n
      <4>1. r # q /\ j \in Named(n)
        BY <1>8, <2>2, <3>1 DEF Inserts
      <4>2. QED  BY <2>1, <3>1, <4>1 DEF NameKept, IdOwn, Engaged, Inserts
    <3>2. QED  BY <2>1, <2>2, <3>1 DEF NameKept, IdOwn, Inserts
  <2>6. Apart(n)
    BY <2>2, <2>3, <2>4, <2>5 DEF Apart, Inserts
  <2>7. QED  BY <2>1, <2>6, ApartKeeps
<1>9. QED  BY <1>2, <1>5, <1>6, <1>7, <1>8

LEMMA CreateKeeps ==
    ASSUME EnvInv, NEW q \in Actors, Create(q)
    PROVE  EnvInv'
<1>1. EnvTypes /\ Engaged(q) /\ actor[q].pc = "create" /\ ActorLegal(q)
  BY DEF EnvInv, Create, Engaged
<1>r. PICK given : given = actor[q].row
  OBVIOUS
<1>2. PICK n \in Names : given = NewRow(n, "preview")
  BY <1>1, <1>r DEF ActorLegal
<1>3. given \in EnvRow /\ given.name = n /\ given.kind = "preview"
  BY <1>2, NewRowIs
<1>4. actor[q].branch \in Branches /\ NameOf[actor[q].branch] = n
  BY <1>1, <1>3, <1>r DEF ActorLegal
<1>5. UNCHANGED <<envApp, namespace, defaultName, reapList, builds, mishaps>>
  BY DEF Create
<1>6. CASE Named(n) # {}
  <2>1. Ends(q) /\ UNCHANGED <<env, disturbed>>
    BY <1>3, <1>6, <1>r DEF Create
  <2>2. n \in disturbed
    <3>1. n \notin disturbed => Named(n) = {}
      BY <1>1, <1>3, <1>r, AtWorkMeets DEF Meets
    <3>2. QED  BY <1>6, <3>1
  <2>3. Onto(q, "done")
    BY <1>1, <2>1, EndsIs
  <2>4. QED  BY <1>3, <1>5, <1>r, <2>1, <2>2, <2>3, LeavesKeep
<1>7. CASE Named(n) = {}
  <2>i. PICK i : i = NextId
    OBVIOUS
  <2>1. /\ i \in Ids /\ env' = [env EXCEPT ![i] = given]
        /\ actor' = [actor EXCEPT ![q].pc = "source", ![q].id = i]
        /\ disturbed' = IF Fresh(i) THEN disturbed ELSE disturbed \cup {n}
    BY <1>3, <1>7, <1>r, <2>i DEF Create
  <2>2. i \notin Rows
    BY <1>1, <2>i, NextIdIsNew
  <2>3. PICK a : a = [actor[q] EXCEPT !.pc = "source"]
    OBVIOUS
  <2>4. PICK b : b = [a EXCEPT !.id = i]
    OBVIOUS
  <2>5. actor[q] \in ActorRecord /\ i \in 0 .. MaxId /\ actor \in [Actors -> ActorRecord]
    BY <1>1, <2>1, EnvConstants DEF EnvTypes
  <2>6. /\ a \in ActorRecord /\ a.pc = "source" /\ a.row = given /\ a.branch = actor[q].branch
    BY <1>r, <2>3, <2>5 DEF ActorRecord, ActorPCs
  <2>7. /\ b \in ActorRecord /\ b.pc = "source" /\ b.row = given /\ b.branch = actor[q].branch
        /\ b.id = i
    BY <2>4, <2>5, <2>6 DEF ActorRecord
  <2>8. actor' = [actor EXCEPT ![q] = b]
    BY <2>1, <2>3, <2>4, <2>5
  <2>9. actor' \in [Actors -> ActorRecord] /\ actor'[q] = b /\ \A r \in Actors \ {q} : actor'[r] = actor[r]
    BY <2>5, <2>7, <2>8
  <2>10. env' \in [Ids -> EnvRow \cup {NoRow}] /\ disturbed' \subseteq Names /\ disturbed \subseteq disturbed'
    BY <1>1, <1>3, <2>1 DEF EnvTypes
  <2>11. EnvTypes'
    BY <1>1, <1>5, <2>9, <2>10 DEF EnvTypes
  <2>12. Engaged(q)' /\ ActorLegal(q)'
    BY <1>3, <1>4, <2>1, <2>7, <2>9 DEF Engaged, ActorLegal, Creating
  <2>13. /\ EnvNamesOwn' /\ NothingLeft' /\ Named(n)' = {i} /\ env'[i] = given
         /\ \A m \in Names : m \notin disturbed' /\ m # n => NameKept(m)'
    <3>1. Inserts(q, i, given)
      BY <1>3, <1>5, <1>7, <1>r, <2>1, <2>7, <2>9, <2>10 DEF Inserts
    <3>2. QED  BY <1>3, <2>1, <2>2, <2>11, <3>1, RowComes
  <2>14. ASSUME NEW r \in Actors  PROVE ActorLegal(r)'
    <3>1. CASE r = q
      BY <2>12, <3>1
    <3>2. CASE r # q
      BY <2>9, <3>2 DEF EnvInv, ActorLegal, Engaged
    <3>3. QED  BY <3>1, <3>2
  <2>15. ASSUME n \notin disturbed'  PROVE NameKept(n)'
    <3>1. n \notin disturbed /\ Fresh(i)
      BY <2>1, <2>15
    <3>2. /\ NameKept(n) /\ Whole(n) /\ AtWork(n) = {q} /\ BuildsOf(n) = {} /\ ListedOf(n) = {}
      BY <1>1, <1>3, <1>r, <3>1, AtWorkMeets
    <3>3. AtWork(n)' = {q}
      <4>1. q \in AtWork(n)'
        BY <1>3, <2>7, <2>9 DEF AtWork
      <4>2. \A r \in Actors \ {q} : r \notin AtWork(n)'
        BY <2>9, <3>2 DEF AtWork
      <4>3. QED  BY <4>1, <4>2 DEF AtWork
    <3>4. BuildsOf(n)' = {} /\ ListedOf(n)' = {}
      BY <1>5, <3>2 DEF BuildsOf, ListedOf
    <3>5. OneAtWork(n)'
      BY <3>3, <3>4 DEF OneAtWork
    <3>6. IdOwn(n)'
      <4>1. ASSUME NEW r \in Actors, Engaged(r)', actor'[r].id = i  PROVE actor'[r].row.name = n
        <5>1. CASE r = q
          BY <1>3, <2>7, <2>9, <5>1
        <5>2. CASE r # q
          BY <2>9, <3>1, <4>1, <5>2 DEF Fresh, Engaged
        <5>3. QED  BY <5>1, <5>2
      <4>2. QED  BY <1>5, <2>13, <3>1, <4>1 DEF IdOwn, Fresh
    <3>7. namespace[n] \in {"none", "going"} /\ envApp[i] = "none"
      BY <1>7, <3>1, <3>2 DEF Whole, Fresh
    <3>8. Meets(n, q)'
      BY <1>3, <1>5, <2>7, <2>9, <2>13, <3>7 DEF Meets, Creating
    <3>9. QED  BY <2>7, <2>9, <3>3, <3>4, <3>5, <3>6, <3>8 DEF NameKept
  <2>16. QED  BY <2>11, <2>13, <2>14, <2>15 DEF EnvInv
<1>8. QED  BY <1>6, <1>7

LEMMA CreateEnvKeeps ==
    ASSUME EnvInv, NEW q \in EnvRequests, CreateEnv(q)
    PROVE  EnvInv'
<1>1. EnvTypes /\ q \in Actors /\ actor[q].pc = "idle" /\ ~ Engaged(q)
  BY DEF EnvInv, CreateEnv, Asks, Actors, Engaged
<1>2. CASE Answers(q)
  BY <1>1, <1>2, AnswersKeep
<1>3. ASSUME NEW n \in NewNames, Named(n) = {}, NextId \in Ids,
             env' = [env EXCEPT ![NextId] = NewRow(n, "standing")],
             actor' = [actor EXCEPT ![q].pc = "done"],
             disturbed' = IF Quiet(n) /\ Fresh(NextId) THEN disturbed ELSE disturbed \cup {n},
             UNCHANGED <<envApp, namespace, defaultName, reapList, builds, mishaps>>
      PROVE  EnvInv'
  <2>i. PICK i : i = NextId
    OBVIOUS
  <2>r. PICK given : given = NewRow(n, "standing")
    OBVIOUS
  <2>1. n \in Names /\ given \in EnvRow /\ given.name = n /\ given.kind = "standing"
    BY <2>r, EnvNames, NewRowIs
  <2>2. i \in Ids /\ i \notin Rows
    BY <1>1, <1>3, <2>i, NextIdIsNew
  <2>3. PICK a : a = [actor[q] EXCEPT !.pc = "done"]
    OBVIOUS
  <2>4. actor \in [Actors -> ActorRecord] /\ a \in ActorRecord /\ a.pc = "done"
    BY <1>1, <2>3 DEF EnvTypes, ActorRecord, ActorPCs
  <2>5. actor' = [actor EXCEPT ![q] = a]
    BY <1>3, <2>3
  <2>6. /\ actor' \in [Actors -> ActorRecord] /\ ~ Engaged(q)'
        /\ \A r \in Actors \ {q} : actor'[r] = actor[r]
    BY <1>1, <2>4, <2>5 DEF Engaged
  <2>7. /\ env' \in [Ids -> EnvRow \cup {NoRow}] /\ env' = [env EXCEPT ![i] = given]
        /\ disturbed' \subseteq Names /\ disturbed \subseteq disturbed'
    BY <1>1, <1>3, <2>1, <2>2, <2>i, <2>r DEF EnvTypes
  <2>8. EnvTypes'
    BY <1>1, <1>3, <2>6, <2>7 DEF EnvTypes
  <2>9. Inserts(q, i, given)
    BY <1>1, <1>3, <2>1, <2>6, <2>7 DEF Inserts
  <2>10. /\ EnvNamesOwn' /\ NothingLeft' /\ Named(n)' = {i} /\ env'[i] = given
         /\ \A m \in Names : m \notin disturbed' /\ m # n => NameKept(m)'
    BY <1>1, <2>1, <2>2, <2>8, <2>9, RowComes
  <2>11. ASSUME NEW r \in Actors  PROVE ActorLegal(r)' /\ (Engaged(r)' => actor'[r] = actor[r])
    <3>1. CASE r = q
      BY <2>6, <3>1 DEF ActorLegal
    <3>2. CASE r # q
      BY <2>6, <3>2 DEF EnvInv, ActorLegal, Engaged
    <3>3. QED  BY <3>1, <3>2
  <2>12. ASSUME n \notin disturbed'  PROVE NameKept(n)'
    <3>1. Quiet(n) /\ Fresh(i)
      BY <1>3, <2>12, <2>i
    <3>2. AtWork(n)' = {}
      BY <2>11, <3>1 DEF AtWork, Quiet, Engaged
    <3>3. BuildsOf(n)' = {} /\ ListedOf(n)' = {}
      BY <1>3, <3>1 DEF BuildsOf, ListedOf, Quiet
    <3>4. IdOwn(n)'
      <4>1. \A r \in Actors : Engaged(r)' => actor'[r].id # i
        BY <2>11, <3>1 DEF Fresh, Engaged
      <4>2. \A x \in builds' \cup reapList' : x.id # i
        BY <1>3, <3>1 DEF Fresh
      <4>3. QED  BY <2>10, <4>1, <4>2 DEF IdOwn
    <3>5. Whole(n)'
      BY <2>1, <2>10 DEF Whole
    <3>6. QED  BY <3>2, <3>3, <3>4, <3>5 DEF NameKept, OneAtWork
  <2>13. QED  BY <2>8, <2>10, <2>11, <2>12 DEF EnvInv
<1>4. QED  BY <1>2, <1>3 DEF CreateEnv, NewRow

\* What a request that sets to work has read.
SetsOut(kind, b, i, given, pc) ==
    /\ kind \in RequestKinds /\ b \in Branches \cup {Main, "none", "bare", NoRow.source}
    /\ given \in EnvRow /\ pc \in {"create", "deploy", "unname", "flag"}
    /\ IF pc = "create"
       THEN /\ Named(given.name) = {} /\ i = 0 /\ \E n \in Names : given = NewRow(n, "preview")
            /\ b \in Branches /\ NameOf[b] = given.name
       ELSE i \in Named(given.name)
    /\ pc = "unname" /\ kind = "deleteEnv" => b = envApp[i]

LEMMA StartKeeps ==
    ASSUME EnvInv, NEW q \in Actors, actor[q].pc = "idle", NEW kind, NEW b, NEW i, NEW given, NEW pc,
           SetsOut(kind, b, i, given, pc), Starts(q, kind, b, i, given, pc)
    PROVE  EnvInv'
<1>n. PICK n : n = given.name
  OBVIOUS
<1>1. EnvTypes /\ n \in Names /\ ~ Engaged(q)
  BY <1>n, RowsShape DEF EnvInv, SetsOut, Engaged
<1>2. UNCHANGED <<env, envApp, namespace, defaultName, reapList, builds, mishaps>>
  BY DEF Starts
<1>3. PICK a : a = [pc |-> pc, kind |-> kind, branch |-> b, id |-> i, row |-> given]
  OBVIOUS
<1>4. a.pc = pc /\ a.kind = kind /\ a.branch = b /\ a.id = i /\ a.row = given
  BY <1>3
<1>5. i \in 0 .. MaxId /\ (pc # "create" => i \in Ids)
  <2>1. CASE pc = "create"
    BY <2>1, EnvConstants DEF SetsOut
  <2>2. CASE pc # "create"
    <3>1. i \in Ids
      BY <1>1, <2>2, EnvRowsAre DEF SetsOut
    <3>2. QED  BY <2>2, <3>1, EnvConstants
  <2>3. QED  BY <2>1, <2>2
<1>6. a \in ActorRecord
  <2>1. kind \in RequestKinds \cup {NoRow.kind, "reap"} /\ pc \in ActorPCs
    BY DEF SetsOut, ActorPCs
  <2>2. b \in Branches \cup {Main, "none", "bare", NoRow.source} /\ given \in EnvRow \cup {NoRow}
    BY DEF SetsOut
  <2>3. QED  BY <1>3, <1>5, <2>1, <2>2, Zenon DEF ActorRecord
<1>7. actor' = [actor EXCEPT ![q] = a] /\ actor \in [Actors -> ActorRecord]
  BY <1>1, <1>3 DEF Starts, EnvTypes
<1>8. /\ actor' \in [Actors -> ActorRecord] /\ actor'[q] = a
      /\ \A r \in Actors \ {q} : actor'[r] = actor[r]
  BY <1>6, <1>7
<1>9. /\ disturbed \subseteq disturbed' /\ disturbed' \subseteq Names
      /\ n \notin disturbed' => Quiet(n) /\ n \notin disturbed
  BY <1>1, <1>n DEF Starts, EnvTypes
<1>10. EnvTypes'
  BY <1>1, <1>2, <1>8, <1>9 DEF EnvTypes
<1>11. Engaged(q)' /\ ActorLegal(q)'
  BY <1>4, <1>5, <1>8 DEF SetsOut, Engaged, ActorLegal, Creating
<1>12. EnvNamesOwn' /\ NothingLeft'
  BY <1>2, <1>9 DEF EnvInv, EnvNamesOwn, NothingLeft, Rows
<1>13. ASSUME NEW r \in Actors  PROVE ActorLegal(r)'
  <2>1. CASE r = q
    BY <1>11, <2>1
  <2>2. CASE r # q
    BY <1>8, <2>2 DEF EnvInv, ActorLegal, Engaged
  <2>3. QED  BY <2>1, <2>2
<1>14. \A m : Named(m)' = Named(m) /\ BuildsOf(m)' = BuildsOf(m) /\ ListedOf(m)' = ListedOf(m)
  BY <1>2 DEF Named, Rows, BuildsOf, ListedOf
<1>15. ASSUME NEW m \in Names, m \notin disturbed', m # n  PROVE NameKept(m)'
  <2>1. NameKept(m)
    BY <1>9, <1>15 DEF EnvInv
  <2>2. AtWork(m)' = AtWork(m) /\ \A r \in AtWork(m) : actor'[r] = actor[r]
    <3>1. \A r \in Actors : r \in AtWork(m) => r # q
      BY <1>1 DEF AtWork, Engaged
    <3>2. \A r \in Actors : r \in AtWork(m)' => r # q
      BY <1>4, <1>8, <1>15, <1>n DEF AtWork
    <3>3. \A r \in Actors \ {q} : r \in AtWork(m)' <=> r \in AtWork(m)
      BY <1>8 DEF AtWork
    <3>4. QED  BY <1>8, <3>1, <3>2, <3>3 DEF AtWork
  <2>3. i \notin Named(m)
    <3>1. CASE pc = "create"
      BY <1>1, <3>1, EnvRowsAre, EnvConstants DEF SetsOut, Ids
    <3>2. CASE pc # "create"
      BY <1>15, <1>n, <3>2 DEF SetsOut, Named
    <3>3. QED  BY <3>1, <3>2
  <2>4. IdOwn(m)'
    <3>1. ASSUME NEW j \in Named(m)', NEW r \in Actors, Engaged(r)', actor'[r].id = j
          PROVE  actor'[r].row.name = m
      <4>1. r # q /\ j \in Named(m)
        BY <1>4, <1>8, <1>14, <2>3, <3>1
      <4>2. QED  BY <1>8, <2>1, <3>1, <4>1 DEF NameKept, IdOwn, Engaged
    <3>2. QED  BY <1>2, <1>14, <2>1, <3>1 DEF NameKept, IdOwn
  <2>5. Apart(m)
    BY <1>2, <1>14, <2>2, <2>4 DEF Apart
  <2>6. QED  BY <2>1, <2>5, ApartKeeps
<1>16. ASSUME n \notin disturbed'  PROVE NameKept(n)'
  <2>1. NameKept(n) /\ AtWork(n) = {} /\ BuildsOf(n) = {} /\ ListedOf(n) = {}
    BY <1>1, <1>9, <1>16 DEF EnvInv, Quiet, BuildsOf, ListedOf
  <2>2. Whole(n)
    BY <2>1 DEF NameKept
  <2>3. AtWork(n)' = {q}
    <3>1. q \in AtWork(n)'
      BY <1>4, <1>8, <1>11, <1>n DEF AtWork, Engaged
    <3>2. \A r \in Actors \ {q} : r \notin AtWork(n)'
      BY <1>8, <2>1 DEF AtWork
    <3>3. QED  BY <3>1, <3>2 DEF AtWork
  <2>4. OneAtWork(n)'
    BY <1>14, <2>1, <2>3 DEF OneAtWork
  <2>5. IdOwn(n)'
    <3>1. ASSUME NEW j \in Named(n)', NEW r \in Actors, Engaged(r)', actor'[r].id = j
          PROVE  actor'[r].row.name = n
      <4>1. CASE r = q
        BY <1>4, <1>8, <1>n, <4>1
      <4>2. CASE r # q
        BY <1>8, <1>14, <2>1, <3>1, <4>2 DEF NameKept, IdOwn, Engaged
      <4>3. QED  BY <4>1, <4>2
    <3>2. QED  BY <1>2, <1>14, <2>1, <3>1 DEF NameKept, IdOwn
  <2>6. Whole(n)'
    BY <1>2, <1>14, <2>2 DEF Whole
  <2>7. Meets(n, q)'
    BY <1>2, <1>4, <1>8, <1>14, <1>n DEF SetsOut, Meets, Creating
  <2>8. QED  BY <1>14, <2>1, <2>3, <2>4, <2>5, <2>6, <2>7 DEF NameKept
<1>17. QED  BY <1>10, <1>12, <1>13, <1>15, <1>16 DEF EnvInv

\* A request that works on a row as it is in the table.
LEMMA RowRead ==
    ASSUME EnvTypes, NEW i \in Rows, NEW kind \in RequestKinds,
           NEW b \in Branches \cup {Main, "none", "bare", NoRow.source},
           NEW pc \in {"deploy", "unname", "flag"},
           pc = "unname" /\ kind = "deleteEnv" => b = envApp[i]
    PROVE  SetsOut(kind, b, i, env[i], pc)
  BY EnvRowsAre DEF SetsOut, Named

LEMMA EnsuresKeep ==
    ASSUME EnvInv, NEW q \in EnvRequests, actor[q].pc = "idle", NEW kind \in RequestKinds,
           NEW b \in Branches, NEW then \in {"deploy", "done"}, Ensure(q, kind, b, then)
    PROVE  EnvInv'
<1>1. EnvTypes /\ q \in Actors
  BY DEF EnvInv, Actors
<1>n. PICK n : n = NameOf[b]
  OBVIOUS
<1>2. n \in Names
  BY <1>n, EnvNames
<1>3. CASE Answers(q)
  BY <1>1, <1>3, AnswersKeep
<1>4. ASSUME NEW i \in Named(n), then # "done", Starts(q, kind, b, i, env[i], then)
      PROVE  EnvInv'
  <2>1. i \in Rows /\ then = "deploy"
    BY <1>4 DEF Named
  <2>2. SetsOut(kind, b, i, env[i], then)
    BY <1>1, <2>1, RowRead
  <2>3. QED  BY <1>1, <1>4, <2>2, StartKeeps
<1>5. ASSUME Named(n) = {}, Starts(q, kind, b, 0, NewRow(n, "preview"), "create")
      PROVE  EnvInv'
  <2>1. NewRow(n, "preview") \in EnvRow /\ NewRow(n, "preview").name = n
    BY <1>2, NewRowIs
  <2>2. SetsOut(kind, b, 0, NewRow(n, "preview"), "create")
    BY <1>2, <1>5, <1>n, <2>1 DEF SetsOut
  <2>3. QED  BY <1>1, <1>5, <2>2, StartKeeps
<1>6. QED  BY <1>3, <1>4, <1>5, <1>n DEF Ensure, NewRow

LEMMA RequestKeeps ==
    ASSUME EnvInv, NEW q \in EnvRequests, Request(q)
    PROVE  EnvInv'
<1>1. EnvTypes /\ q \in Actors /\ \A i \in Rows : i \in Ids
  BY DEF EnvInv, Actors, Rows
<1>2. ASSUME NEW kind, Asks(q, kind)  PROVE actor[q].pc = "idle" /\ kind \in RequestKinds
  BY <1>2, EnvConstants DEF Asks
<1>3. ASSUME Answers(q), actor[q].pc = "idle"  PROVE EnvInv'
  BY <1>1, <1>3, AnswersKeep
<1>4. ASSUME NEW kind, Asks(q, kind), NEW b \in Branches \cup {Main, "none", "bare", NoRow.source},
             NEW i \in Rows, NEW pc \in {"deploy", "unname", "flag"},
             pc = "unname" /\ kind = "deleteEnv" => b = envApp[i], Starts(q, kind, b, i, env[i], pc)
      PROVE  EnvInv'
  <2>1. SetsOut(kind, b, i, env[i], pc)
    BY <1>1, <1>2, <1>4, RowRead
  <2>2. QED  BY <1>1, <1>2, <1>4, <2>1, StartKeeps
<1>5. CASE Push(q)
  <2>1. ASSUME NEW i \in Standing, Starts(q, "push", Main, i, env[i], "deploy")  PROVE EnvInv'
    <3>1. i \in Rows /\ Asks(q, "push")
      BY <1>5 DEF Standing, Named, Push
    <3>2. QED  BY <1>4, <2>1, <3>1
  <2>2. ASSUME NEW b \in Branches, Ensure(q, "push", b, "deploy")  PROVE EnvInv'
    <3>1. actor[q].pc = "idle" /\ "push" \in RequestKinds
      BY <1>2, <1>5 DEF Push
    <3>2. QED  BY <2>2, <3>1, EnsuresKeep
  <2>3. QED  BY <1>5, <2>1, <2>2 DEF Push
<1>6. CASE CreatePreview(q)
  <2>1. PICK b \in Branches : Ensure(q, "create", b, "done")
    BY <1>6 DEF CreatePreview
  <2>2. actor[q].pc = "idle" /\ "create" \in RequestKinds
    BY <1>2, <1>6 DEF CreatePreview
  <2>3. QED  BY <2>1, <2>2, EnsuresKeep
<1>7. CASE Closed(q)
  <2>1. Asks(q, "closed") /\ actor[q].pc = "idle"
    BY <1>2, <1>7 DEF Closed
  <2>2. CASE Answers(q)
    BY <1>3, <2>1, <2>2
  <2>3. ASSUME NEW b \in Branches, NEW i \in Rows, Starts(q, "closed", b, i, env[i], "unname")
        PROVE  EnvInv'
    BY <1>4, <2>1, <2>3
  <2>4. QED  BY <1>7, <2>2, <2>3 DEF Closed
<1>8. CASE DeletePreview(q)
  <2>1. Asks(q, "delete") /\ actor[q].pc = "idle"
    BY <1>2, <1>8 DEF DeletePreview
  <2>2. CASE Answers(q)
    BY <1>3, <2>1, <2>2
  <2>3. ASSUME NEW i \in Rows, Starts(q, "delete", NoRow.source, i, env[i], "unname")
        PROVE  EnvInv'
    BY <1>4, <2>1, <2>3
  <2>4. NoRow.source = ""
    BY Zenon DEF NoRow
  <2>5. QED  BY <1>8, <2>2, <2>3, <2>4, Zenon DEF DeletePreview
<1>9. CASE DeleteEnv(q)
  <2>1. Asks(q, "deleteEnv") /\ actor[q].pc = "idle"
    BY <1>2, <1>9 DEF DeleteEnv
  <2>2. CASE Answers(q)
    BY <1>3, <2>1, <2>2
  <2>3. ASSUME NEW i \in Rows, Starts(q, "deleteEnv", envApp[i], i, env[i], "unname")
        PROVE  EnvInv'
    <3>1. envApp[i] \in Branches \cup {Main, "none", "bare", NoRow.source}
      BY <1>1 DEF EnvTypes
    <3>2. QED  BY <1>4, <2>1, <2>3, <3>1
  <2>4. QED  BY <1>9, <2>2, <2>3 DEF DeleteEnv
<1>10. CASE CreateEnv(q)
  BY <1>10, CreateEnvKeeps
<1>11. CASE SetDefault(q)
  <2>1. PICK i \in Rows : Starts(q, "setDefault", "", i, env[i], "flag") /\ Asks(q, "setDefault")
    BY <1>11, Zenon DEF SetDefault
  <2>2. NoRow.source = ""
    BY Zenon DEF NoRow
  <2>3. Starts(q, "setDefault", NoRow.source, i, env[i], "flag")
    BY <2>1, <2>2, Zenon
  <2>4. Asks(q, "setDefault")
    BY <2>1, Zenon
  <2>5. QED  BY <1>4, <2>3, <2>4
<1>12. QED  BY <1>5, <1>6, <1>7, <1>8, <1>9, <1>10, <1>11, Zenon DEF Request

--------------------------------
\* The reaper's list, the builds, the crash, and Kubernetes.

LEMMA ReaperListsKeeps ==
    ASSUME EnvInv, ReaperLists
    PROVE  EnvInv'
<1>1. EnvTypes /\ reapList = {} /\ UNCHANGED <<env, envApp, namespace, defaultName, actor, builds, mishaps>>
  BY DEF EnvInv, ReaperLists
<1>2. \A x \in reapList' : \E i \in Rows : x = [id |-> i, row |-> env[i]]
  BY DEF ReaperLists
<1>3. /\ disturbed' = disturbed \cup {n \in Names : ~Quiet(n) /\ \E x \in reapList' : x.row.name = n}
  BY DEF ReaperLists
<1>4. \A x \in reapList' : x.id \in Rows /\ x.row = env[x.id] /\ x \in [id : Ids, row : EnvRow]
  BY <1>1, <1>2, EnvRowsAre
<1>5. EnvTypes'
  BY <1>1, <1>3, <1>4 DEF EnvTypes
<1>6. EnvNamesOwn' /\ NothingLeft' /\ \A q \in Actors : ActorLegal(q)'
  BY <1>1, <1>3 DEF EnvInv, EnvNamesOwn, NothingLeft, Rows, ActorLegal, Engaged
<1>7. ASSUME NEW n \in Names, n \notin disturbed'  PROVE NameKept(n)'
  <2>1. NameKept(n) /\ Named(n)' = Named(n) /\ AtWork(n)' = AtWork(n) /\ BuildsOf(n)' = BuildsOf(n)
    BY <1>1, <1>3, <1>7 DEF EnvInv, Named, Rows, AtWork, BuildsOf
  <2>2. ListedOf(n)' # {} => AtWork(n) = {} /\ BuildsOf(n) = {}
    BY <1>3, <1>7 DEF ListedOf, Quiet, BuildsOf
  <2>3. \A x \in ListedOf(n)' : x.id \in Named(n)'
    BY <1>4, <2>1 DEF ListedOf, Named
  <2>4. \A x, y \in ListedOf(n)' : x = y
    <3>1. \A x, y \in ListedOf(n)' : x.id = y.id
      BY <2>1, <2>3, OneRow
    <3>2. \A x \in ListedOf(n)' : x \in reapList'
      BY DEF ListedOf
    <3>3. QED  BY <1>2, <3>1, <3>2
  <2>5. OneAtWork(n)'
    BY <1>1, <2>1, <2>2, <2>4 DEF NameKept, OneAtWork
  <2>6. IdOwn(n)'
    <3>1. \A i \in Named(n)' : \A q \in Actors : Engaged(q)' /\ actor'[q].id = i => actor'[q].row.name = n
      BY <1>1, <2>1 DEF NameKept, IdOwn, Engaged
    <3>2. \A i \in Named(n)' : \A x \in builds' : x.id = i => x.row.name = n
      BY <1>1, <2>1 DEF NameKept, IdOwn
    <3>3. \A i \in Named(n)' : \A x \in reapList' : x.id = i => x.row.name = n
      BY <1>4, <2>1 DEF Named
    <3>4. QED  BY <3>1, <3>2, <3>3 DEF IdOwn
  <2>7. ((\A q \in AtWork(n) : actor[q].pc # "source") => Whole(n))'
    BY <1>1, <2>1 DEF NameKept, Whole
  <2>8. \A q \in AtWork(n)' : Meets(n, q)'
    BY <1>1, <2>1 DEF NameKept, Meets
  <2>9. \A x \in BuildsOf(n)' : BuildFits(n, x)'
    BY <1>1, <2>1 DEF NameKept, BuildFits
  <2>10. QED  BY <2>3, <2>5, <2>6, <2>7, <2>8, <2>9 DEF NameKept
<1>8. QED  BY <1>5, <1>6, <1>7 DEF EnvInv

LEMMA ReaperTakesKeeps ==
    ASSUME EnvInv, NEW x \in reapList, ReaperTakes(x)
    PROVE  EnvInv'
<1>q. PICK q : q = Reaper
  OBVIOUS
<1>n. PICK n : n = x.row.name
  OBVIOUS
<1>1. EnvTypes /\ q \in Actors /\ actor[q].pc = "idle" /\ ~ Engaged(q)
  BY <1>q DEF EnvInv, Actors, ReaperTakes, Engaged
<1>2. /\ reapList' = reapList \ {x}
      /\ UNCHANGED <<env, envApp, namespace, defaultName, builds, disturbed, mishaps>>
  BY DEF ReaperTakes
<1>3. x.id \in Ids /\ x.row \in EnvRow /\ n \in Names /\ x.id \in 0 .. MaxId
  BY <1>1, <1>n, RowsShape, EnvConstants DEF EnvTypes
<1>4. PICK a : a = [pc |-> "unname", kind |-> "reap", branch |-> NoRow.source, id |-> x.id, row |-> x.row]
  OBVIOUS
<1>5. a.pc = "unname" /\ a.kind = "reap" /\ a.id = x.id /\ a.row = x.row /\ a \in ActorRecord
  BY <1>3, <1>4 DEF ActorRecord, ActorPCs
<1>6. actor' = [actor EXCEPT ![q] = a] /\ actor \in [Actors -> ActorRecord]
  <2>1. NoRow.source = ""
    BY Zenon DEF NoRow
  <2>2. actor' = [actor EXCEPT ![q] = a]
    BY <1>4, <1>q, <2>1, Zenon DEF ReaperTakes
  <2>3. QED  BY <1>1, <2>2 DEF EnvTypes
<1>7. /\ actor' \in [Actors -> ActorRecord] /\ actor'[q] = a
      /\ \A r \in Actors \ {q} : actor'[r] = actor[r]
  BY <1>1, <1>5, <1>6
<1>8. EnvTypes'
  BY <1>1, <1>2, <1>7 DEF EnvTypes
<1>9. Engaged(q)' /\ ActorLegal(q)'
  BY <1>3, <1>5, <1>7 DEF Engaged, ActorLegal, Creating
<1>10. ASSUME NEW r \in Actors  PROVE ActorLegal(r)'
  <2>1. CASE r = q
    BY <1>9, <2>1
  <2>2. CASE r # q
    BY <1>7, <2>2 DEF EnvInv, ActorLegal, Engaged
  <2>3. QED  BY <2>1, <2>2
<1>11. EnvNamesOwn' /\ NothingLeft'
  BY <1>2 DEF EnvInv, EnvNamesOwn, NothingLeft, Rows
<1>12. \A m : Named(m)' = Named(m) /\ BuildsOf(m)' = BuildsOf(m) /\ ListedOf(m)' \subseteq ListedOf(m)
  BY <1>2 DEF Named, Rows, BuildsOf, ListedOf
<1>13. ASSUME NEW m \in Names, m \notin disturbed'  PROVE NameKept(m) /\ (x.id \in Named(m) => m = n)
  <2>1. NameKept(m)
    BY <1>2, <1>13 DEF EnvInv
  <2>2. QED  BY <1>n, <2>1 DEF NameKept, IdOwn
<1>14. ASSUME NEW m \in Names, m \notin disturbed'  PROVE IdOwn(m)'
  <2>1. ASSUME NEW j \in Named(m)', NEW r \in Actors, Engaged(r)', actor'[r].id = j
        PROVE  actor'[r].row.name = m
    <3>1. CASE r = q
      BY <1>5, <1>7, <1>12, <1>13, <1>14, <1>n, <2>1, <3>1
    <3>2. CASE r # q
      BY <1>7, <1>12, <1>13, <1>14, <2>1, <3>2 DEF NameKept, IdOwn, Engaged
    <3>3. QED  BY <3>1, <3>2
  <2>2. QED  BY <1>2, <1>12, <1>13, <1>14, <2>1 DEF NameKept, IdOwn
<1>15. ASSUME NEW m \in Names, m \notin disturbed', m # n  PROVE NameKept(m)'
  <2>1. AtWork(m)' = AtWork(m) /\ \A r \in AtWork(m) : actor'[r] = actor[r]
    <3>1. \A r \in Actors : r \in AtWork(m) => r # q
      BY <1>1 DEF AtWork, Engaged
    <3>2. \A r \in Actors : r \in AtWork(m)' => r # q
      BY <1>5, <1>7, <1>15, <1>n DEF AtWork
    <3>3. \A r \in Actors \ {q} : r \in AtWork(m)' <=> r \in AtWork(m)
      BY <1>7 DEF AtWork
    <3>4. QED  BY <1>7, <3>1, <3>2, <3>3 DEF AtWork
  <2>2. Apart(m)
    BY <1>2, <1>12, <1>14, <1>15, <2>1 DEF Apart
  <2>3. QED  BY <1>13, <1>15, <2>2, ApartKeeps
<1>16. ASSUME n \notin disturbed'  PROVE NameKept(n)'
  <2>1. NameKept(n) /\ x \in ListedOf(n) /\ IdOwn(n)'
    BY <1>3, <1>13, <1>14, <1>16, <1>n DEF ListedOf
  <2>2. AtWork(n) = {} /\ BuildsOf(n) = {} /\ \A y \in ListedOf(n) : y = x
    BY <2>1 DEF NameKept, OneAtWork
  <2>3. x.id \in Named(n) /\ Whole(n)
    BY <2>1, <2>2 DEF NameKept
  <2>4. AtWork(n)' = {q}
    <3>1. q \in AtWork(n)'
      BY <1>1, <1>5, <1>7, <1>n DEF AtWork
    <3>2. \A r \in Actors \ {q} : r \notin AtWork(n)'
      BY <1>7, <2>2 DEF AtWork
    <3>3. QED  BY <3>1, <3>2 DEF AtWork
  <2>5. BuildsOf(n)' = {} /\ ListedOf(n)' = {}
    <3>1. \A y \in ListedOf(n)' : y \in ListedOf(n) /\ y # x
      BY <1>2 DEF ListedOf
    <3>2. QED  BY <1>12, <2>2, <3>1
  <2>6. OneAtWork(n)'
    BY <2>4, <2>5 DEF OneAtWork
  <2>7. Whole(n)'
    BY <1>2, <1>12, <2>3 DEF Whole
  <2>8. Meets(n, q)'
    BY <1>5, <1>7, <1>12, <2>3 DEF Meets, Creating
  <2>9. QED  BY <2>1, <2>4, <2>5, <2>6, <2>7, <2>8 DEF NameKept
<1>17. QED  BY <1>8, <1>10, <1>11, <1>15, <1>16 DEF EnvInv

LEMMA BuildStepKeeps ==
    ASSUME EnvInv, EnvTypes', NEW x \in builds, SameRows, UNCHANGED <<envApp, actor, reapList, disturbed>>,
           \A z \in builds' : z \in builds \/ (z.id = x.id /\ z.row = x.row /\ z.branch = x.branch),
           \E y : builds' \subseteq (builds \ {x}) \cup {y},
           \A n \in Names : namespace'[n] = namespace[n] \/ (n = x.row.name /\ namespace'[n] = x.branch)
    PROVE  EnvInv'
<1>n. PICK n : n = x.row.name
  OBVIOUS
<1>1. EnvTypes /\ n \in Names
  BY <1>n, RowsShape DEF EnvInv, EnvTypes
<1>2. /\ Rows' = Rows /\ \A m : Named(m)' = Named(m) /\ ListedOf(m)' = ListedOf(m) /\ AtWork(m)' = AtWork(m)
  BY <1>1, SameNamed DEF ListedOf, AtWork
<1>3. EnvNamesOwn' /\ NothingLeft' /\ \A q \in Actors : ActorLegal(q)'
  <2>1. EnvNamesOwn'
    BY <1>2, RowsShape DEF EnvInv, EnvNamesOwn, SameRows, Rows
  <2>2. QED  BY <1>2, <2>1 DEF EnvInv, NothingLeft, ActorLegal, Engaged
<1>4. ASSUME NEW m \in Names, m \notin disturbed'  PROVE NameKept(m) /\ IdOwn(m)'
  <2>1. NameKept(m)
    BY <1>4 DEF EnvInv
  <2>2. QED  BY <1>2, <2>1 DEF NameKept, IdOwn, Engaged
<1>5. ASSUME NEW m \in Names, m \notin disturbed', m # n  PROVE NameKept(m)'
  <2>1. BuildsOf(m)' \subseteq BuildsOf(m) /\ namespace'[m] = namespace[m]
    BY <1>5, <1>n DEF BuildsOf
  <2>2. \A i \in Named(m) : /\ env'[i].kind = env[i].kind /\ env'[i].source = env[i].source
    BY RowsShape DEF SameRows, Named, Rows
  <2>3. Apart(m)
    BY <1>2, <1>4, <1>5, <2>1, <2>2 DEF Apart
  <2>4. QED  BY <1>4, <1>5, <2>3, ApartKeeps
<1>6. ASSUME n \notin disturbed'  PROVE NameKept(n)'
  <2>1. NameKept(n) /\ x \in BuildsOf(n) /\ IdOwn(n)'
    BY <1>1, <1>4, <1>6, <1>n DEF BuildsOf
  <2>2. AtWork(n) = {} /\ ListedOf(n) = {} /\ \A y \in BuildsOf(n) : y = x
    BY <2>1 DEF NameKept, OneAtWork
  <2>3. x.id \in Named(n) /\ (env[x.id].kind = "preview" => x.branch = env[x.id].source) /\ Whole(n)
    BY <2>1, <2>2 DEF NameKept, BuildFits
  <2>4. env'[x.id].kind = env[x.id].kind /\ env'[x.id].source = env[x.id].source
    BY <2>3, RowsShape DEF SameRows, Named, Rows
  <2>5. \A z \in BuildsOf(n)' : BuildFits(n, z)'
    <3>1. \A z \in BuildsOf(n)' : z.id = x.id /\ z.branch = x.branch
      BY <2>2 DEF BuildsOf
    <3>2. QED  BY <1>2, <2>3, <2>4, <3>1 DEF BuildFits
  <2>6. \A y, z \in BuildsOf(n)' : y = z
    <3>1. PICK y : builds' \subseteq (builds \ {x}) \cup {y}
      OBVIOUS
    <3>2. \A z \in BuildsOf(n)' : z = y
      BY <2>2, <3>1 DEF BuildsOf
    <3>3. QED  BY <3>2
  <2>7. OneAtWork(n)'
    BY <1>2, <2>2, <2>6 DEF OneAtWork
  <2>8. Whole(n)'
    <3>1. \A i \in Named(n) : i = x.id
      BY <2>3, OneRow
    <3>2. QED  BY <1>1, <1>2, <2>3, <2>4, <3>1 DEF Whole
  <2>9. QED  BY <1>2, <2>1, <2>2, <2>5, <2>7, <2>8 DEF NameKept
<1>7. QED  BY <1>3, <1>5, <1>6 DEF EnvInv

LEMMA BuildKeeps ==
    ASSUME EnvInv, NEW x \in builds, BuildEnds(x) \/ BuildApplies(x)
    PROVE  EnvInv'
<1>1. /\ EnvTypes
      /\ x \in [pc : {"build", "apply"}, id : Ids, row : EnvRow, branch : Branches \cup {Main}]
  BY DEF EnvInv, EnvTypes
<1>2. CASE BuildEnds(x)
  <2>1. PICK y : y = [x EXCEPT !.pc = "apply"]
    OBVIOUS
  <2>2. /\ y \in [pc : {"build", "apply"}, id : Ids, row : EnvRow, branch : Branches \cup {Main}]
        /\ y.id = x.id /\ y.row = x.row /\ y.branch = x.branch
    BY <1>1, <2>1
  <2>3. /\ builds' \subseteq (builds \ {x}) \cup {y}
        /\ UNCHANGED <<env, envApp, namespace, defaultName, actor, reapList, disturbed, mishaps>>
    BY <1>2, <2>1 DEF BuildEnds
  <2>4. EnvTypes'
    BY <1>1, <2>2, <2>3 DEF EnvTypes
  <2>5. SameRows
    BY <1>1, <2>3, UnchangedRows
  <2>6. \A z \in builds' : z \in builds \/ (z.id = x.id /\ z.row = x.row /\ z.branch = x.branch)
    BY <2>2, <2>3
  <2>7. QED  BY <2>3, <2>4, <2>5, <2>6, BuildStepKeeps
<1>3. CASE BuildApplies(x)
  <2>1. /\ builds' = builds \ {x}
        /\ UNCHANGED <<envApp, defaultName, actor, reapList, disturbed, mishaps>>
    BY <1>3 DEF BuildApplies
  <2>2. SameRows
    BY <1>1, <1>3, UnchangedRows, TouchedIs DEF BuildApplies
  <2>3. /\ namespace' \in [Names -> Branches \cup {Main, "none", "empty", "going"}]
        /\ \A n \in Names : namespace'[n] = namespace[n] \/ (n = x.row.name /\ namespace'[n] = x.branch)
    BY <1>1, <1>3, RowsShape DEF BuildApplies, EnvTypes
  <2>4. EnvTypes'
    BY <1>1, <2>1, <2>2, <2>3 DEF EnvTypes, SameRows
  <2>5. builds' \subseteq (builds \ {x}) \cup {x} /\ \A z \in builds' : z \in builds
    BY <2>1
  <2>6. QED  BY <2>1, <2>2, <2>3, <2>4, <2>5, BuildStepKeeps
<1>4. QED  BY <1>2, <1>3

\* A namespace is gone, an environment idle.
LEMMA SettlesKeep ==
    ASSUME EnvInv, SameRows, UNCHANGED <<envApp, defaultName, actor, reapList, builds, disturbed, mishaps>>,
           namespace' \in [Names -> Branches \cup {Main, "none", "empty", "going"}],
           \A n \in Names : namespace'[n] = namespace[n] \/ (namespace[n] = "going" /\ namespace'[n] = "none")
    PROVE  EnvInv'
<1>1. EnvTypes /\ EnvTypes'
  BY DEF EnvInv, EnvTypes, SameRows
<1>2. /\ Rows' = Rows
      /\ \A m : /\ Named(m)' = Named(m) /\ ListedOf(m)' = ListedOf(m) /\ AtWork(m)' = AtWork(m)
                /\ BuildsOf(m)' = BuildsOf(m)
  BY <1>1, SameNamed DEF ListedOf, AtWork, BuildsOf
<1>3. EnvNamesOwn' /\ NothingLeft' /\ \A q \in Actors : ActorLegal(q)'
  <2>1. EnvNamesOwn'
    BY <1>2, RowsShape DEF EnvInv, EnvNamesOwn, SameRows, Rows
  <2>2. QED  BY <1>2, <2>1 DEF EnvInv, NothingLeft, ActorLegal, Engaged
<1>4. ASSUME NEW n \in Names, n \notin disturbed'  PROVE NameKept(n)'
  <2>1. NameKept(n)
    BY <1>4 DEF EnvInv
  <2>2. \A i \in Named(n) : env'[i].kind = env[i].kind /\ env'[i].source = env[i].source
    BY RowsShape DEF SameRows, Named, Rows
  <2>3. OneAtWork(n)' /\ IdOwn(n)'
    BY <1>2, <2>1 DEF NameKept, OneAtWork, IdOwn, Engaged
  <2>4. Whole(n) => Whole(n)'
    BY <1>1, WholeStays
  <2>5. ((\A q \in AtWork(n) : actor[q].pc # "source") => Whole(n))'
    BY <1>2, <2>1, <2>4 DEF NameKept
  <2>6. ASSUME NEW q \in AtWork(n)'  PROVE Meets(n, q)'
    <3>1. Meets(n, q)
      BY <1>2, <2>1, <2>6 DEF NameKept
    <3>2. QED  BY <1>2, <1>4, <2>2, <3>1 DEF Meets, Creating
  <2>7. \A x \in BuildsOf(n)' : BuildFits(n, x)'
    BY <1>2, <2>1, <2>2 DEF NameKept, BuildFits
  <2>8. (\A x \in ListedOf(n) : x.id \in Named(n))'
    BY <1>2, <2>1 DEF NameKept
  <2>9. QED  BY <2>3, <2>5, <2>6, <2>7, <2>8 DEF NameKept
<1>5. QED  BY <1>1, <1>3, <1>4 DEF EnvInv

LEMMA NamespaceGoneKeeps ==
    ASSUME EnvInv, NEW n \in Names, NamespaceGone(n)
    PROVE  EnvInv'
<1>1. EnvTypes
  BY DEF EnvInv
<1>2. SameRows
  BY <1>1, UnchangedRows DEF NamespaceGone
<1>3. /\ namespace' \in [Names -> Branches \cup {Main, "none", "empty", "going"}]
      /\ \A m \in Names : namespace'[m] = namespace[m] \/ (namespace[m] = "going" /\ namespace'[m] = "none")
  BY <1>1 DEF NamespaceGone, EnvTypes
<1>4. QED  BY <1>2, <1>3, SettlesKeep DEF NamespaceGone

LEMMA GoesStaleKeeps ==
    ASSUME EnvInv, NEW i \in Ids, GoesStale(i)
    PROVE  EnvInv'
<1>1. EnvTypes
  BY DEF EnvInv
<1>2. env[i] \in EnvRow /\ env \in [Ids -> EnvRow \cup {NoRow}]
  BY <1>1, EnvRowsAre DEF GoesStale, EnvTypes
<1>3. PICK r : r = [env[i] EXCEPT !.stale = TRUE]
  OBVIOUS
<1>4. r \in EnvRow /\ r.name = env[i].name /\ r.kind = env[i].kind /\ r.source = env[i].source
  BY <1>2, <1>3, RowPatched
<1>5. env' = [env EXCEPT ![i] = r]
  BY <1>3 DEF GoesStale
<1>6. SameRows
  BY <1>2, <1>4, <1>5 DEF SameRows
<1>7. namespace' \in [Names -> Branches \cup {Main, "none", "empty", "going"}] /\ namespace' = namespace
  BY <1>1 DEF GoesStale, EnvTypes
<1>8. QED  BY <1>6, <1>7, SettlesKeep DEF GoesStale

LEMMA EnvCrashKeeps ==
    ASSUME EnvInv, EnvCrash
    PROVE  EnvInv'
<1>1. EnvTypes /\ UNCHANGED <<env, envApp, namespace, defaultName>> /\ reapList' = {}
  BY DEF EnvInv, EnvCrash
<1>2. /\ disturbed \subseteq disturbed' /\ disturbed' \subseteq Names /\ mishaps' \subseteq EnvFaults
      /\ \A n \in Names : n \notin disturbed' => Quiet(n)
  BY <1>1 DEF EnvCrash, Mishap, EnvTypes
<1>3. actor' \in [Actors -> ActorRecord] /\ \A q \in Actors : ~ Engaged(q)'
  <2>1. ASSUME NEW q \in Actors  PROVE actor'[q] \in ActorRecord /\ actor'[q].pc \in {"idle", "done"}
    <3>1. PICK a : a = [actor[q] EXCEPT !.pc = "done"]
      OBVIOUS
    <3>2. a \in ActorRecord /\ a.pc = "done"
      BY <1>1, <3>1 DEF EnvTypes, ActorRecord, ActorPCs
    <3>3. actor'[q] = NotYet \/ actor'[q] = a
      BY <3>1 DEF EnvCrash
    <3>4. QED  BY <3>2, <3>3, NotYetIs
  <2>2. DOMAIN actor' = Actors /\ actor' = [q \in Actors |-> actor'[q]]
    BY DEF EnvCrash
  <2>3. QED  BY <2>1, <2>2 DEF Engaged
<1>4. ASSUME NEW z \in builds'
      PROVE  /\ z \in [pc : {"build", "apply"}, id : Ids, row : EnvRow, branch : Branches \cup {Main}]
             /\ z.id \in Rows /\ z.row = env[z.id] /\ \E x \in builds : x.id = z.id
  <2>1. PICK x \in builds : z = [x EXCEPT !.row = env[x.id]] /\ env[x.id] # NoRow
    BY DEF EnvCrash
  <2>2. x \in [pc : {"build", "apply"}, id : Ids, row : EnvRow, branch : Branches \cup {Main}]
    BY <1>1 DEF EnvTypes
  <2>3. x.id \in Rows /\ env[x.id] \in EnvRow
    BY <1>1, <2>1, <2>2 DEF EnvTypes, Rows
  <2>4. /\ z \in [pc : {"build", "apply"}, id : Ids, row : EnvRow, branch : Branches \cup {Main}]
        /\ z.id = x.id /\ z.row = env[x.id]
    BY <2>1, <2>2, <2>3
  <2>5. QED  BY <2>3, <2>4
<1>5. EnvTypes'
  BY <1>1, <1>2, <1>3, <1>4 DEF EnvTypes
<1>6. EnvNamesOwn' /\ NothingLeft' /\ \A q \in Actors : ActorLegal(q)'
  BY <1>1, <1>2, <1>3 DEF EnvInv, EnvNamesOwn, NothingLeft, Rows, ActorLegal
<1>7. ASSUME NEW n \in Names, n \notin disturbed'  PROVE NameKept(n)'
  <2>1. NameKept(n) /\ Quiet(n) /\ Named(n)' = Named(n)
    BY <1>1, <1>2, <1>7 DEF EnvInv, Named, Rows
  <2>2. Whole(n)'
    BY <1>1, <2>1 DEF NameKept, Whole, Quiet
  <2>3. \A x \in builds : x.id \notin Named(n)
    BY <2>1 DEF NameKept, IdOwn, Quiet
  <2>4. \A z \in builds' : z.id \notin Named(n) /\ z.row.name # n
    BY <1>4, <2>3 DEF Named
  <2>5. AtWork(n)' = {} /\ BuildsOf(n)' = {} /\ ListedOf(n)' = {}
    BY <1>1, <1>3, <2>4 DEF AtWork, Engaged, BuildsOf, ListedOf
  <2>6. IdOwn(n)'
    BY <1>1, <1>3, <2>1, <2>4 DEF IdOwn
  <2>7. QED  BY <2>2, <2>5, <2>6 DEF NameKept, OneAtWork
<1>8. QED  BY <1>5, <1>6, <1>7 DEF EnvInv

--------------------------------

LEMMA EnvStarts == EnvInit => EnvInv
<1> SUFFICES ASSUME EnvInit  PROVE EnvInv
  OBVIOUS
<1>1. PICK given : given = [NoRow EXCEPT !.name = Base, !.kind = "standing", !.default = TRUE]
  OBVIOUS
<1>2. given \in EnvRow /\ given.name = Base /\ given.kind = "standing"
  <2>1. given = [NewRow(Base, "standing") EXCEPT !.default = TRUE]
    BY <1>1 DEF NewRow
  <2>2. /\ NewRow(Base, "standing") \in EnvRow /\ NewRow(Base, "standing").name = Base
        /\ NewRow(Base, "standing").kind = "standing"
    BY EnvNames, NewRowIs
  <2>3. QED  BY <2>1, <2>2, RowPatched
<1>3. env = [i \in Ids |-> IF i = 1 THEN given ELSE NoRow]
  BY <1>1 DEF EnvInit
<1>4. /\ env \in [Ids -> EnvRow \cup {NoRow}] /\ Rows = {1}
      /\ Named(Base) = {1} /\ \A n : n # Base => Named(n) = {}
  <2>1. 1 \in Ids /\ given # NoRow
    BY <1>2, EnvConstants, RowsShape
  <2>2. env \in [Ids -> EnvRow \cup {NoRow}] /\ Rows = {1} /\ env[1] = given
    BY <1>2, <1>3, <2>1 DEF Rows
  <2>3. QED  BY <1>2, <2>2 DEF Named
<1>5. /\ envApp = [i \in Ids |-> IF i = 1 THEN Main ELSE "none"]
      /\ namespace = [n \in Names |-> IF n = Base THEN Main ELSE "none"]
      /\ defaultName = Base /\ actor = [q \in Actors |-> NotYet]
      /\ reapList = {} /\ builds = {} /\ disturbed = {} /\ mishaps = {}
  BY DEF EnvInit
<1>6. \A q \in Actors : ~ Engaged(q) /\ actor[q] \in ActorRecord
  BY <1>5, NotYetIs DEF Engaged
<1>7. EnvTypes
  BY <1>4, <1>5, NotYetIs, EnvNames DEF EnvTypes
<1>8. EnvNamesOwn /\ NothingLeft /\ \A q \in Actors : ActorLegal(q)
  BY <1>4, <1>5, <1>6 DEF EnvNamesOwn, NothingLeft, ActorLegal
<1>9. ASSUME NEW n \in Names  PROVE NameKept(n)
  <2>1. AtWork(n) = {} /\ BuildsOf(n) = {} /\ ListedOf(n) = {}
    BY <1>5, <1>6 DEF AtWork, Engaged, BuildsOf, ListedOf
  <2>2. IdOwn(n)
    BY <1>5, <1>6 DEF IdOwn
  <2>3. Whole(n)
    <3>1. CASE n = Base
      <4>1. env[1].kind = "standing" /\ Named(n) = {1}
        BY <1>2, <1>3, <1>4, <3>1, EnvConstants
      <4>2. QED  BY <4>1 DEF Whole
    <3>2. CASE n # Base
      BY <1>4, <1>5, <3>2 DEF Whole
    <3>3. QED  BY <3>1, <3>2
  <2>4. QED  BY <2>1, <2>2, <2>3 DEF NameKept, OneAtWork
<1>10. QED  BY <1>7, <1>8, <1>9 DEF EnvInv

LEMMA EnvSteps == EnvInv /\ [EnvNext]_envVars => EnvInv'
<1> SUFFICES ASSUME EnvInv, [EnvNext]_envVars  PROVE EnvInv'
  OBVIOUS
<1>1. ASSUME NEW q \in Actors, ActorStep(q)  PROVE EnvInv'
  BY <1>1, CreateKeeps, SetSourceKeeps, EnsureKeeps, CloneKeeps, InsertKeeps, DeployAppsKeeps,
     UnnameKeeps, UnappKeeps, UnrowKeeps, SetFlagsKeeps, SetNameKeeps DEF ActorStep
<1>2. CASE \E q \in EnvRequests : Request(q) \/ ActorStep(q)
  BY <1>1, <1>2, RequestKeeps DEF Actors
<1>3. CASE ReaperStep
  BY <1>1, <1>3, ReaperListsKeeps, ReaperTakesKeeps DEF ReaperStep, Actors
<1>4. CASE \E x \in builds : BuildEnds(x) \/ BuildApplies(x)
  BY <1>4, BuildKeeps
<1>5. CASE EnvCrash
  BY <1>5, EnvCrashKeeps
<1>6. CASE \E n \in Names : NamespaceGone(n)
  BY <1>6, NamespaceGoneKeeps
<1>7. CASE \E i \in Ids : GoesStale(i)
  BY <1>7, GoesStaleKeeps
<1>8. CASE UNCHANGED envVars
  <2>1. UNCHANGED <<env, envApp, namespace, defaultName, actor, reapList, builds, disturbed, mishaps>>
    BY <1>8 DEF envVars
  <2>2. EnvTypes /\ namespace' \in [Names -> Branches \cup {Main, "none", "empty", "going"}]
    BY <2>1 DEF EnvInv, EnvTypes
  <2>3. SameRows
    BY <2>1, <2>2, UnchangedRows
  <2>4. QED  BY <2>1, <2>2, <2>3, SettlesKeep
<1>9. QED  BY <1>2, <1>3, <1>4, <1>5, <1>6, <1>7, <1>8 DEF EnvNext

LEMMA EnvInvKept == EnvSpec => []EnvInv
  BY EnvStarts, EnvSteps, PTL DEF EnvSpec

\* Every variable of Environments has its type (environments.go, preview.go).
THEOREM EnvironmentsTyped == EnvSpec => []EnvTypeOK
<1>1. EnvInv => EnvTypeOK
  BY DEF EnvInv, EnvTypes, EnvTypeOK, ActorRecord
<1>2. QED  BY <1>1, EnvInvKept, PTL

\* However requests, webhooks, the reaper and builds interleave: under a name that
\* no fault hit and on which no two worked at once, a preview is the counterpart of
\* its branch as soon as nobody is at work on it, and without an environment nothing
\* runs; while there was no such name, no app is left of an environment that is gone
\* (ensurePreviewFromBase, teardownPreview, reapPreviews, deleteEnvironment).
THEOREM EnvironmentsKept == EnvSpec => []EnvironmentsWhole
<1>1. EnvInv => EnvironmentsWhole
  <2> SUFFICES ASSUME EnvInv  PROVE EnvironmentsWhole
    OBVIOUS
  <2>1. ASSUME NEW n \in Names \ disturbed, Quiet(n)  PROVE Whole(n)
    BY <2>1 DEF EnvInv, NameKept, Quiet
  <2>2. QED  BY <2>1 DEF EnvironmentsWhole, EnvInv, NothingLeft
<1>2. QED  BY <1>1, EnvInvKept, PTL

================================
