-------------------------------- MODULE Schedules --------------------------------
(***************************************************************************)
(* What starts the runs of pipelines (internal/server/pipelines.go,        *)
(* webhook.go, store/pipelines.go, store/webhookdeliveries.go): a schedule,*)
(* a person, a signed call from outside; and pipelines as they are created,*)
(* changed and deleted meanwhile.  What a run does is module Pipeline: here*)
(* it is one step, a Job, under the native engine.                         *)
(*                                                                         *)
(* The pipeline loop ticks twice a minute under pipelineMu; a tick that    *)
(* takes long runs into later minutes and the ticker drops what it misses. *)
(* A request inserts its run without the mutex and then takes it to drive  *)
(* the run once.                                                           *)
(***************************************************************************)
EXTENDS Naturals, Sequences, FiniteSetsExt

CONSTANTS
    Pipes,          \* ids of pipelines, never given twice
    Callers,        \* clients, one request at a time each
    Deliveries,     \* ids of deliveries; a delivery may arrive more than once
    Crons,          \* cron expressions
    DueAt,          \* the minutes each matches
    RunsListed,     \* how many runs ListPipelineRuns lists: 50 in the code
    MaxMinute,      \* bound: minutes
    MaxStarts,      \* bound: runs
    MaxAskings,     \* bound: requests
    ScheduleFaults  \* what may go wrong, one thing once: a subset of ScheduleFaultKinds

ScheduleFaultKinds == {"crash"}

Blank == "" \* a column that holds nothing

ASSUME ScheduleAssumption ==
    /\ IsFiniteSet(Pipes) /\ IsFiniteSet(Callers) /\ IsFiniteSet(Deliveries)
    /\ "loop" \notin Callers /\ Crons \cap {Blank, "none"} = {}
    /\ DueAt \in [Crons -> SUBSET (0 .. MaxMinute)]
    /\ RunsListed \in Nat \ {0} /\ MaxMinute \in Nat /\ MaxStarts \in Nat /\ MaxAskings \in Nat
    /\ ScheduleFaults \subseteq ScheduleFaultKinds

VARIABLES
    minute,   \* the clock
    cronOf,   \* pipelines: the cron column of each row, "none" without a row
    starts,   \* pipeline_runs, oldest first, and the Job of each
    seen,     \* webhook_deliveries
    workers,  \* the goroutines: of each request, and of the loop
    tick,     \* what the loop's tick works through
    ticked,   \* has a tick begun in this minute, or was the server down in it?
    looks,    \* history: the due minutes of pipelines a tick has looked at, and when it did
    scheduleTally \* requests, and the fault that has happened

scheduleVars == <<minute, cronOf, starts, seen, workers, tick, ticked, looks, scheduleTally>>

Ticker     == "loop"
Workers  == Callers \cup {Ticker}
Minutes  == 0 .. MaxMinute
RunNos   == 0 .. MaxStarts
CronCols == Crons \cup {Blank}
Look     == [pipe : Pipes, due : Minutes, at : Minutes]

\* due: the minute a cron run is for.  job: its step's Job.  listed, beside: history: the
\* newest run its trigger had seen, and the runs of the pipeline under way when it was
\* inserted.  dodged: history: a delete of the pipeline looked for runs and missed it.
Triggers == {"manual", "cron", "webhook"}
Jobs     == {"none", "alive", "ended"}
Start    == [pipe : Pipes, trigger : Triggers, status : {"running", "done", "stopped"},
             from : Minutes, to : Minutes, due : Minutes, delivery : Deliveries \cup {Blank},
             job : Jobs, listed : RunNos, beside : SUBSET RunNos, dodged : BOOLEAN]

\* cron: the column as it was read.  run: the one it starts or drives.  found: the Job of
\* that run as pipelineTickOne read it, "alive" too when there is nothing left to do.
WorkerPCs == {"idle", "insert", "read", "act", "delete", "update", "cron", "drive"}
NoWork    == [pc |-> "idle", pipe |-> Blank, cron |-> Blank, trigger |-> "manual", delivery |-> Blank,
              run |-> 0, listed |-> 0, found |-> "none"]

\* crons: pipelines with a cron the tick has still to look at, as it read them.  runs: runs
\* it has still to drive.
NoTick == [now |-> 0, crons |-> {}, runs |-> {}]

ScheduleInit ==
    /\ minute = 0 /\ ticked = FALSE
    /\ cronOf \in [Pipes -> CronCols \cup {"none"}]
    /\ starts = <<>> /\ seen = {} /\ looks = {}
    /\ workers = [w \in Workers |-> NoWork] /\ tick = NoTick
    /\ scheduleTally = [calls |-> 0, faults |-> {}]

WorkerAt(w, pc) == workers' = [workers EXCEPT ![w].pc = pc]
Rests(w)        == workers' = [workers EXCEPT ![w] = NoWork]

Fault(k) == /\ k \in ScheduleFaults /\ scheduleTally.faults = {}
            /\ scheduleTally' = [scheduleTally EXCEPT !.faults = @ \cup {k}]
Asking   == /\ scheduleTally.calls < MaxAskings
            /\ scheduleTally' = [scheduleTally EXCEPT !.calls = @ + 1]

Existing    == {p \in Pipes : cronOf[p] # "none"}
StartsOf(p) == {r \in DOMAIN starts : starts[r].pipe = p}
UnderWay(p) == {r \in StartsOf(p) : starts[r].status = "running"}

\* ListPipelineRuns: the newest, at most RunsListed of them.
Listed(p) == {r \in StartsOf(p) : Cardinality({q \in StartsOf(p) : q > r}) < RunsListed}
Newest(p) == Max(StartsOf(p) \cup {0})

\* pipelineMu.
Holds(w)  == IF w = Ticker THEN workers[w].pc # "idle" ELSE workers[w].pc = "act"
MutexFree == \A w \in Workers : ~ Holds(w)

--------------------------------
(***************************************************************************)
(* A run starts, and is driven.                                            *)
(***************************************************************************)

\* createPipelineRun, CreatePipelineRun.  A run needs its pipeline's row, a YAML that still
\* compiles, apps that are still there.  next: what the worker does when there is no run.
CreatesRun(w, next) ==
    /\ workers[w].pc = "insert"
    /\ LET p   == workers[w].pipe
           id  == Len(starts) + 1
           run == [pipe |-> p, trigger |-> workers[w].trigger, status |-> "running",
                   from |-> minute, to |-> MaxMinute,
                   due |-> IF w = Ticker THEN tick.now ELSE 0,
                   delivery |-> workers[w].delivery, job |-> "none",
                   listed |-> workers[w].listed, beside |-> UnderWay(p),
                   dodged |-> \E c \in Callers : workers[c].pc = "delete" /\ workers[c].pipe = p]
       IN  \/ /\ p \in Existing /\ id <= MaxStarts
              /\ starts' = Append(starts, run)
              /\ workers' = [workers EXCEPT ![w].pc = "read", ![w].run = id]
              /\ UNCHANGED looks
           \/ /\ looks' = {l \in looks : w = Ticker => l.pipe # p \/ l.due # tick.now}
              /\ workers' = [workers EXCEPT ![w] = [NoWork EXCEPT !.pc = next]]
              /\ UNCHANGED starts
    /\ UNCHANGED <<minute, cronOf, seen, tick, ticked, scheduleTally>>

\* pipelineTickOne reads the rows of the run: a run that was stopped has no step to launch.
ReadsRun(w, r) ==
    LET run == starts[r] IN
    workers' = [workers EXCEPT ![w].pc = "act", ![w].run = r,
        ![w].found = IF run.pipe \in Existing /\ run.status = "running" THEN run.job
                     ELSE "alive"]

TicksNewRun(w) ==
    /\ workers[w].pc = "read" /\ (w = Ticker \/ MutexFree)
    /\ ReadsRun(w, workers[w].run)
    /\ UNCHANGED <<minute, cronOf, starts, seen, tick, ticked, looks, scheduleTally>>

\* Its step is launched, or its end settles the run.  A deleted row stops neither the Job
\* of an app step, which starts before its row is marked, nor one that is there already.
DrivesRun(w, next) ==
    /\ workers[w].pc = "act"
    /\ LET r == workers[w].run
           p == starts[r].pipe
       IN  CASE workers[w].found = "none" ->
                  \E job \in {"alive"} \cup IF p \in Existing THEN {} ELSE {"none"} :
                      starts' = [starts EXCEPT ![r].job = job]
             [] workers[w].found = "ended" /\ p \in Existing /\ starts[r].status = "running" ->
                  starts' = [starts EXCEPT ![r].status = "done", ![r].to = minute]
             [] OTHER -> UNCHANGED starts
    /\ workers' = [workers EXCEPT ![w] = [NoWork EXCEPT !.pc = next]]
    /\ UNCHANGED <<minute, cronOf, seen, tick, ticked, looks, scheduleTally>>

WorkEnds(r) ==
    /\ starts[r].job = "alive"
    /\ starts' = [starts EXCEPT ![r].job = "ended"]
    /\ UNCHANGED <<minute, cronOf, seen, workers, tick, ticked, looks, scheduleTally>>

--------------------------------
(***************************************************************************)
(* startPipelineLoop, pipelineTick, firePipelineCrons.                     *)
(***************************************************************************)

\* CronPipelines, and the time, read once.
TickStarts ==
    /\ workers[Ticker].pc = "idle" /\ MutexFree
    /\ tick' = [now |-> minute, runs |-> {},
                crons |-> {[pipe |-> p, cron |-> cronOf[p]] :
                             p \in {q \in Existing : cronOf[q] # Blank}}]
    /\ WorkerAt(Ticker, "cron") /\ ticked' = TRUE
    /\ UNCHANGED <<minute, cronOf, starts, seen, looks, scheduleTally>>

Due(c) == tick.now \in DueAt[c.cron]

\* Mutant: only a run under way keeps the schedule from firing.
FiresAgain(c) ==
    ~ (Newest(c.pipe) # 0 /\ starts[Newest(c.pipe)].status = "running")

\* The newest run is looked at: is it under way, did it start in this minute?
Fires(c) ==
    LET last == Newest(c.pipe) IN
    last # 0 => starts[last].status # "running" /\ starts[last].from # tick.now

CronLooks(c) ==
    /\ workers[Ticker].pc = "cron"
    /\ tick' = [tick EXCEPT !.crons = @ \ {c}]
    /\ looks' = IF Due(c) THEN looks \cup {[pipe |-> c.pipe, due |-> tick.now, at |-> minute]}
                ELSE looks
    /\ IF Due(c) /\ Fires(c)
       THEN workers' = [workers EXCEPT ![Ticker] =
                [NoWork EXCEPT !.pc = "insert", !.pipe = c.pipe, !.trigger = "cron",
                               !.listed = Newest(c.pipe)]]
       ELSE UNCHANGED workers
    /\ UNCHANGED <<minute, cronOf, starts, seen, ticked, scheduleTally>>

\* ActivePipelineRuns.
ListsActive ==
    /\ workers[Ticker].pc = "cron" /\ tick.crons = {}
    /\ tick' = [tick EXCEPT !.runs = UNION {UnderWay(p) : p \in Existing}]
    /\ WorkerAt(Ticker, "drive")
    /\ UNCHANGED <<minute, cronOf, starts, seen, ticked, looks, scheduleTally>>

TakesRun ==
    /\ workers[Ticker].pc = "drive"
    /\ IF tick.runs = {}
       THEN Rests(Ticker) /\ tick' = NoTick
       ELSE /\ ReadsRun(Ticker, Min(tick.runs))
            /\ tick' = [tick EXCEPT !.runs = @ \ {Min(tick.runs)}]
    /\ UNCHANGED <<minute, cronOf, starts, seen, ticked, looks, scheduleTally>>

\* A tick launches the runs of its crons first.
Back == IF workers[Ticker].trigger = "cron" THEN "cron" ELSE "drive"

TickerSteps ==
    \/ TickStarts \/ ListsActive \/ TakesRun
    \/ \E c \in tick.crons : CronLooks(c)
    \/ CreatesRun(Ticker, "cron") \/ TicksNewRun(Ticker) \/ DrivesRun(Ticker, Back)

\* An idle loop has ticked before the minute is over.
ClockTurns ==
    /\ minute < MaxMinute /\ (ticked \/ workers[Ticker].pc # "idle")
    /\ minute' = minute + 1 /\ ticked' = FALSE
    /\ UNCHANGED <<cronOf, starts, seen, workers, tick, looks, scheduleTally>>

--------------------------------
(***************************************************************************)
(* Requests.                                                               *)
(***************************************************************************)

\* A request reads its pipeline's row (requirePipeline, GetPipelineByID).
AsksPipe(c, p, pc) ==
    /\ workers[c].pc = "idle" /\ p \in Existing /\ Asking
    /\ workers' = [workers EXCEPT ![c] = [NoWork EXCEPT !.pc = pc, !.pipe = p, !.cron = cronOf[p]]]
    /\ UNCHANGED <<minute, cronOf, seen, tick, ticked, looks>>

\* createPipeline.
CreatesPipe(p, cron) ==
    /\ cronOf[p] = "none" /\ StartsOf(p) = {} /\ Asking
    /\ cronOf' = [cronOf EXCEPT ![p] = cron]
    /\ UNCHANGED <<minute, starts, seen, workers, tick, ticked, looks>>

\* handleCreatePipelineRun.
AsksRun(c, p) == AsksPipe(c, p, "insert") /\ UNCHANGED starts

\* handlePipelineWebhookTrigger, webhookReplay, RecordWebhookDelivery: a delivery is on
\* record before its run is created; one on record is answered without.
Delivered(c, p, d) ==
    /\ workers[c].pc = "idle" /\ p \in Existing /\ Asking
    /\ d \notin seen /\ seen' = seen \cup {d}
    /\ workers' = [workers EXCEPT ![c] = [NoWork EXCEPT !.pc = "insert", !.pipe = p,
                                             !.trigger = "webhook", !.delivery = d]]
    /\ UNCHANGED <<minute, cronOf, starts, tick, ticked, looks>>

\* handleUpdatePipeline reads the row and writes it whole: a change that does not name the
\* cron writes the one it read.
AsksUpdate(c, p) == AsksPipe(c, p, "update") /\ UNCHANGED starts

Updates(c) ==
    /\ workers[c].pc = "update" /\ Rests(c)
    /\ LET p == workers[c].pipe IN
       \E cron \in CronCols \cup {workers[c].cron} :
           cronOf' = IF p \in Existing THEN [cronOf EXCEPT ![p] = cron] ELSE cronOf
    /\ UNCHANGED <<minute, starts, seen, tick, ticked, looks, scheduleTally>>

\* handleDeletePipeline refuses while a run it lists is under way.  The rows of the runs go
\* with that of the pipeline.
AsksDelete(c, p) ==
    /\ \A r \in Listed(p) : starts[r].status # "running"
    /\ AsksPipe(c, p, "delete")
    /\ starts' = [r \in DOMAIN starts |->
                     IF r \in UnderWay(p) THEN [starts[r] EXCEPT !.dodged = TRUE] ELSE starts[r]]

Deletes(c) ==
    /\ workers[c].pc = "delete" /\ Rests(c)
    /\ cronOf' = [cronOf EXCEPT ![workers[c].pipe] = "none"]
    /\ UNCHANGED <<minute, starts, seen, tick, ticked, looks, scheduleTally>>

\* Mutant: the Job of the run is left alone.
StopsRunOnly(r) ==
    /\ Asking /\ MutexFree
    /\ starts[r].pipe \in Existing /\ starts[r].status = "running"
    /\ starts' = [starts EXCEPT ![r].status = "stopped", ![r].to = minute]
    /\ UNCHANGED <<minute, cronOf, seen, workers, tick, ticked, looks>>

\* handleStopPipelineRun, stopPipelineRun: under the mutex, the Job first.
StopsRun(r) ==
    /\ Asking /\ MutexFree
    /\ starts[r].pipe \in Existing /\ starts[r].status = "running"
    /\ starts' = [starts EXCEPT ![r].status = "stopped", ![r].to = minute,
                                ![r].job = IF @ = "alive" THEN "ended" ELSE @]
    /\ UNCHANGED <<minute, cronOf, seen, workers, tick, ticked, looks>>

\* The process dies, and the loop starts anew (pipelineReconcile is module Pipeline's).
ScheduleCrash ==
    /\ Fault("crash")
    /\ workers' = [w \in Workers |-> NoWork] /\ tick' = NoTick /\ ticked' = TRUE
    /\ looks' = {l \in looks : workers[Ticker].pc = "idle" \/ l.due # tick.now}
    /\ UNCHANGED <<minute, cronOf, starts, seen>>

CallerSteps(c) ==
    \/ CreatesRun(c, "idle") \/ TicksNewRun(c) \/ DrivesRun(c, "idle") \/ Updates(c) \/ Deletes(c)
    \/ \E p \in Pipes : \/ AsksRun(c, p) \/ AsksUpdate(c, p) \/ AsksDelete(c, p)
                        \/ \E d \in Deliveries : Delivered(c, p, d)

ScheduleNext ==
    \/ TickerSteps \/ ClockTurns \/ ScheduleCrash
    \/ \E c \in Callers : CallerSteps(c)
    \/ \E p \in Pipes, cron \in CronCols : CreatesPipe(p, cron)
    \/ \E r \in DOMAIN starts : WorkEnds(r) \/ StopsRun(r)

ScheduleSpec == ScheduleInit /\ [][ScheduleNext]_scheduleVars

--------------------------------
(***************************************************************************)
(* Properties.                                                             *)
(***************************************************************************)

\* Every variable has the shape its comment gives, and a run that is over has no Job at work
\* (pipelines.go).
ScheduleTypeOK ==
    /\ minute \in Minutes /\ ticked \in BOOLEAN /\ looks \subseteq Look
    /\ cronOf \in [Pipes -> CronCols \cup {"none"}]
    /\ \A r \in DOMAIN starts :
        starts[r] \in Start /\ (starts[r].job = "alive" => starts[r].status = "running")
    /\ seen \subseteq Deliveries
    /\ \A w \in Workers :
        /\ workers[w].pc \in WorkerPCs /\ workers[w].trigger \in Triggers
        /\ workers[w].run \in 0 .. Len(starts) /\ workers[w].listed \in 0 .. Len(starts)
    /\ tick.now \in Minutes /\ tick.runs \subseteq DOMAIN starts
    /\ scheduleTally.calls \in 0 .. MaxAskings /\ scheduleTally.faults \subseteq ScheduleFaults

\* A minute a schedule is due in starts one run at most, however many ticks fall into it.
FiresOnce ==
    \A r, q \in DOMAIN starts :
        (/\ starts[r].trigger = "cron" /\ starts[q].trigger = "cron"
         /\ starts[r].pipe = starts[q].pipe /\ starts[r].due = starts[q].due) => r = q

\* A run a schedule starts is beside another only if that one came after the tick had
\* looked, or is older than the newest, the only run it looks at.
FiresAlone ==
    \A r \in DOMAIN starts : starts[r].trigger = "cron" => starts[r].listed \notin starts[r].beside

\* A due minute that a tick has looked at goes without a run of its own only if another
\* had started in it or was under way then, the call failed or the server died.
FiresWhenDue ==
    workers[Ticker].pc \in {"idle", "drive"} =>
        \A l \in looks : \E r \in StartsOf(l.pipe) :
            \/ starts[r].trigger = "cron" /\ starts[r].due = l.due
            \/ starts[r].from = l.due
            \/ starts[r].from <= l.at /\ l.at <= starts[r].to

\* A delivery starts one run at most.
StartsOnce ==
    \A r, q \in DOMAIN starts :
        starts[r].delivery # Blank /\ starts[r].delivery = starts[q].delivery => r = q

\* A Job is left behind by a deleted pipeline only if its run came between the look for
\* runs and the delete, or was too old to be listed.
LeavesNoJob ==
    \A r \in DOMAIN starts :
        (starts[r].pipe \notin Existing /\ starts[r].job = "alive") => starts[r].dodged

\* What starts runs starts those it should and no others, with ticks, requests, deletes,
\* deliveries and a crash interleaved (pipelineTick, firePipelineCrons, webhookReplay,
\* handleDeletePipeline).
SchedulesWhole == FiresOnce /\ FiresAlone /\ FiresWhenDue /\ StartsOnce /\ LeavesNoJob

================================
