------------------------------- MODULE MCPipelines -----------------------------
(* A run of a pipeline, what starts runs, and what pushes build.  They share *)
(* no state here: a behaviour is one of one of them.                         *)
EXTENDS MCPipeline, Schedules, Pushes

Often == [c \in Crons |-> 0 .. MaxMinute]

VARIABLE partOf \* whose behaviour it is

pipelinesVars == <<partOf, vars, scheduleVars, pushVars>>

PipelinesInit ==
    /\ partOf \in {"run", "schedules", "pushes"} /\ Init /\ ScheduleInit /\ PushInit
    /\ partOf # "schedules" => Existing = {}

Part(p) == partOf = p /\ UNCHANGED partOf

PipelinesNext ==
    \/ Part("run")       /\ Next         /\ UNCHANGED <<scheduleVars, pushVars>>
    \/ Part("schedules") /\ ScheduleNext /\ UNCHANGED <<vars, pushVars>>
    \/ Part("pushes")    /\ PushNext     /\ UNCHANGED <<vars, scheduleVars>>

PipelinesSpec == PipelinesInit /\ [][PipelinesNext]_pipelinesVars

\* Every variable of what starts runs and builds has the shape its comment gives
\* (pipelines.go, webhook.go).
TriggersTypeOK == ScheduleTypeOK /\ PushTypeOK

================================
