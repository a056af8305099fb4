--------------------------------- MODULE Rentals --------------------------------
(***************************************************************************)
(* The rented GPU machines (internal/server/gpucloud.go, gpucloud/,        *)
(* store/gpuinstances.go): the request that rents one and records it, the  *)
(* request that destroys one, and the loop that destroys machines on which *)
(* no GPU pod ran for gpu_idle_minutes.                                    *)
(*                                                                         *)
(* A machine bills from the moment the provider accepts the rent until it  *)
(* deletes the machine; what luncur knows of it is one row.  A row in      *)
(* status renting has no reference to its machine, which no call can       *)
(* destroy.  One turn of the loop's ticker is one minute of its clocks.    *)
(***************************************************************************)
EXTENDS Naturals, FiniteSets

CONSTANTS
    Rents,       \* the requests to rent a machine, and their machines
    Pods,        \* pods that request a GPU
    Window,      \* gpu_idle_minutes, when the idle loop is on
    MaxToggles,  \* bound: changes of the setting
    RentFaults   \* what may go wrong, each once: a subset of RentFaultKinds

\* poll: an answer of the provider to a rent, or to a poll of its operation.
\* slow: the operation outlasts the deadline.
\* insert, mark: statements on the row.  destroy: the provider refuses to delete.
\* answer: it deletes, and its answer does not arrive in time.
RentFaultKinds == {"refuse", "poll", "slow", "insert", "destroy", "answer", "mark", "crash"}

ASSUME RentalAssumption ==
    /\ IsFiniteSet(Rents) /\ IsFiniteSet(Pods)
    /\ Window \in Nat \ {0} /\ MaxToggles \in Nat
    /\ RentFaults \subseteq RentFaultKinds
    /\ Rents \cap {"none", "pending", "stuck", "ended", "lost"} = {}

VARIABLES
    machine,  \* what the provider runs: none, up, gone
    row,      \* gpu_instances: none, renting, active, destroyed
    renter,   \* the goroutine of each rent request, or how it ended
    pods,     \* none, pending, stuck, ended, lost, or the machine it is on
    killers,  \* destroy requests between Destroy and MarkGPUInstanceDestroyed
    loop,     \* the goroutine of runGPUIdleLoop
    idle,     \* gpuIdleSince: minutes on the clock of each idle machine
    minutes,  \* gpu_idle_minutes: 0 or Window
    struck,   \* the faults that have happened
    toggles   \* how much of MaxToggles is spent

rentalVars == <<machine, row, renter, pods, killers, loop, idle, minutes,
                struck, toggles>>

NoClock   == Window + 1
InFlight  == {"renting", "polling", "timedOut", "recording"}
RenterPCs == InFlight \cup {"idle", "refused", "recorded",
                            "pollFailed", "insertFailed", "crashed"}

\* marking: the machine whose row the loop is about to mark.
LoopType == [pc : {"wait", "listed", "destroying", "marking"},
             list : SUBSET Rents, doomed : SUBSET Rents, marking : SUBSET Rents,
             knew : SUBSET Pods]

LoopWaits == [pc |-> "wait", list |-> {}, doomed |-> {}, marking |-> {}, knew |-> {}]

RentalInit ==
    /\ machine = [i \in Rents |-> "none"] /\ row = [i \in Rents |-> "none"]
    /\ renter = [i \in Rents |-> "idle"]
    /\ pods = [p \in Pods |-> "none"]
    /\ killers = {} /\ loop = LoopWaits
    /\ idle = [i \in Rents |-> NoClock]
    /\ minutes = Window
    /\ struck = {} /\ toggles = 0

Strike(k) == k \in RentFaults \ struck /\ struck' = struck \cup {k}

On(i) == {p \in Pods : pods[p] = i}

\* ListGPUInstances: the rows that are not destroyed.
Tracked == {i \in Rents : row[i] \in {"renting", "active"}}

--------------------------------
(***************************************************************************)
(* handleRentGPU, rentGPU, rentWithProvider.                               *)
(***************************************************************************)

RentAt(i, pc) == renter' = [renter EXCEPT ![i] = pc]

RentAsked(i) ==
    /\ renter[i] = "idle"
    /\ RentAt(i, "renting")
    /\ UNCHANGED <<machine, row, pods, killers, loop, idle, minutes, struck, toggles>>

RentRefused(i) ==
    /\ renter[i] = "renting" /\ Strike("refuse")
    /\ RentAt(i, "refused")
    /\ UNCHANGED <<machine, row, pods, killers, loop, idle, minutes, toggles>>

\* The provider accepts, and its answer is lost.
RentAnswerLost(i) ==
    /\ renter[i] = "renting" /\ Strike("poll")
    /\ machine' = [machine EXCEPT ![i] = "up"]
    /\ RentAt(i, "pollFailed")
    /\ UNCHANGED <<row, pods, killers, loop, idle, minutes, toggles>>

\* vast.ai answers with the contract, Nebius with an operation to poll.
RentAccepted(i) ==
    /\ renter[i] = "renting"
    /\ machine' = [machine EXCEPT ![i] = "up"]
    /\ \E pc \in {"recording", "polling"} : RentAt(i, pc)
    /\ UNCHANGED <<row, pods, killers, loop, idle, minutes, struck, toggles>>

PollDone(i) ==
    /\ renter[i] = "polling"
    /\ RentAt(i, "recording")
    /\ UNCHANGED <<machine, row, pods, killers, loop, idle, minutes, struck, toggles>>

\* A poll answers with an error, or the client went away: no row.
PollFails(i) ==
    /\ renter[i] = "polling" /\ Strike("poll")
    /\ RentAt(i, "pollFailed")
    /\ UNCHANGED <<machine, row, pods, killers, loop, idle, minutes, toggles>>

\* ErrRentAmbiguous.
PollTimesOut(i) ==
    /\ renter[i] = "polling" /\ Strike("slow")
    /\ RentAt(i, "timedOut")
    /\ UNCHANGED <<machine, row, pods, killers, loop, idle, minutes, toggles>>

\* CreateGPUInstance, CreateGPUInstanceWithStatus.
RecordRent(i) ==
    /\ renter[i] \in {"recording", "timedOut"}
    /\ row' = [row EXCEPT ![i] = IF renter[i] = "timedOut" THEN "renting" ELSE "active"]
    /\ RentAt(i, "recorded")
    /\ UNCHANGED <<machine, pods, killers, loop, idle, minutes, struck, toggles>>

RecordRentFails(i) ==
    /\ renter[i] \in {"recording", "timedOut"} /\ Strike("insert")
    /\ RentAt(i, "insertFailed")
    /\ UNCHANGED <<machine, row, pods, killers, loop, idle, minutes, toggles>>

RenterStep(i) ==
    \/ RentRefused(i) \/ RentAnswerLost(i) \/ RentAccepted(i) \/ PollDone(i)
    \/ PollFails(i) \/ PollTimesOut(i) \/ RecordRent(i) \/ RecordRentFails(i)

--------------------------------
(***************************************************************************)
(* destroyGPUInstance: a request.  Any row will do, its status is not      *)
(* looked at; without a machine or a reference the provider refuses.       *)
(***************************************************************************)

\* Provider.Destroy: the pods of a deleted machine are lost.
DestroyMachine(i) ==
    /\ machine[i] = "up" /\ row[i] # "renting"
    /\ machine' = [machine EXCEPT ![i] = "gone"]
    /\ pods' = [p \in Pods |-> IF pods[p] = i THEN "lost" ELSE pods[p]]

MarkDestroyed(i) == row' = [row EXCEPT ![i] = "destroyed"]

DestroyAsked(i) ==
    /\ row[i] # "none"
    /\ DestroyMachine(i)
    /\ \/ killers' = killers \cup {i} /\ UNCHANGED struck
       \/ Strike("answer") /\ UNCHANGED killers
    /\ UNCHANGED <<row, renter, loop, idle, minutes, toggles>>

\* A failure to mark the row is logged.
DestroyMarks(i) ==
    /\ i \in killers
    /\ killers' = killers \ {i}
    /\ \/ MarkDestroyed(i) /\ UNCHANGED struck
       \/ Strike("mark") /\ UNCHANGED row
    /\ UNCHANGED <<machine, renter, pods, loop, idle, minutes, toggles>>

\* PUT settings: gpu_idle_minutes.
SetIdleMinutes ==
    /\ toggles < MaxToggles
    /\ minutes' = IF minutes = 0 THEN Window ELSE 0
    /\ toggles' = toggles + 1
    /\ UNCHANGED <<machine, row, renter, pods, killers, loop, idle, struck>>

--------------------------------
(***************************************************************************)
(* runGPUIdleLoop.                                                         *)
(***************************************************************************)

NoClocks == [i \in Rents |-> NoClock]

Older(clock, i) == IF clock[i] >= Window THEN clock[i] ELSE clock[i] + 1

\* The ticker fires: a minute has passed for every clock.
LoopTick ==
    /\ loop.pc = "wait"
    /\ IF minutes = 0 \/ Tracked = {}
       THEN /\ idle' = NoClocks
            /\ UNCHANGED loop
       ELSE /\ idle' = [i \in Rents |-> Older(idle, i)]
            /\ loop' = [loop EXCEPT !.pc = "listed", !.list = Tracked]
    /\ UNCHANGED <<machine, row, renter, pods, killers, minutes, struck, toggles>>

\* Mutant: a machine with one pod is not busy.
BusyWithTwo(i) == Cardinality(On(i)) > 1

\* GPUBusyNodes: a pod that nothing can schedule stops counting after the grace.
Busy(i) == On(i) # {}

Frozen == \E p \in Pods : pods[p] = "pending"

\* decideIdleDestroys: the clocks of the next turn.
NextClocks ==
    [i \in Rents |->
        IF i \notin loop.list \/ Busy(i) THEN NoClock
        ELSE IF idle[i] = NoClock THEN 0 ELSE idle[i]]

LoopReads ==
    /\ loop.pc = "listed"
    /\ IF Frozen
       THEN loop' = LoopWaits /\ UNCHANGED idle
       ELSE /\ idle' = NextClocks
            /\ loop' = [loop EXCEPT
                            !.pc = "destroying",
                            !.doomed = {i \in loop.list : NextClocks[i] \in Window .. Window},
                            !.knew = {p \in Pods : pods[p] \in Rents \cup {"pending"}}]
    /\ UNCHANGED <<machine, row, renter, pods, killers, minutes, struck, toggles>>

\* The provider deletes the machine, or the call ends with an error, which may come
\* after the machine is deleted.
LoopDestroys(i) ==
    /\ loop.pc = "destroying" /\ i \in loop.doomed
    /\ DestroyMachine(i)
    /\ loop' = [loop EXCEPT !.pc = "marking", !.doomed = @ \ {i}, !.marking = {i}]
    /\ UNCHANGED <<row, renter, killers, idle, minutes, struck, toggles>>

LoopDestroyFails(i) ==
    /\ loop.pc = "destroying" /\ i \in loop.doomed
    /\ \/ Strike("destroy") /\ UNCHANGED <<machine, pods>>
       \/ Strike("answer") /\ DestroyMachine(i)
       \/ (machine[i] # "up" \/ row[i] = "renting") /\ UNCHANGED <<machine, pods, struck>>
    /\ loop' = [loop EXCEPT !.doomed = @ \ {i}]
    /\ UNCHANGED <<row, renter, killers, idle, minutes, toggles>>

LoopMarks ==
    /\ loop.pc = "marking"
    /\ \E i \in loop.marking :
        \/ MarkDestroyed(i) /\ UNCHANGED struck
        \/ Strike("mark") /\ UNCHANGED row
    /\ loop' = [loop EXCEPT !.pc = "destroying", !.marking = {}]
    /\ UNCHANGED <<machine, renter, pods, killers, idle, minutes, toggles>>

LoopTurnEnds ==
    /\ loop.pc = "destroying" /\ loop.doomed = {}
    /\ loop' = LoopWaits
    /\ UNCHANGED <<machine, row, renter, pods, killers, idle, minutes, struck, toggles>>

LoopStep ==
    \/ LoopTick \/ LoopReads \/ LoopMarks \/ LoopTurnEnds
    \/ \E i \in Rents : LoopDestroys(i) \/ LoopDestroyFails(i)

\* The process dies and is started again: the clocks are in its memory.
RentalCrash ==
    /\ Strike("crash")
    /\ renter' = [i \in Rents |-> IF renter[i] \in InFlight THEN "crashed" ELSE renter[i]]
    /\ killers' = {} /\ loop' = LoopWaits /\ idle' = NoClocks
    /\ UNCHANGED <<machine, row, pods, minutes, toggles>>

--------------------------------
(***************************************************************************)
(* Kubernetes: pods are scheduled on machines that are up.  A pod that no  *)
(* node can take for gpu_pending_grace_minutes is stuck, and may still be  *)
(* scheduled when a machine joins.                                         *)
(***************************************************************************)

PodMoves(p, to) ==
    /\ pods' = [pods EXCEPT ![p] = to]
    /\ UNCHANGED <<machine, row, renter, killers, loop, idle, minutes, struck, toggles>>

PodCreated(p)   == pods[p] = "none" /\ PodMoves(p, "pending")
PodStuck(p)     == pods[p] = "pending" /\ PodMoves(p, "stuck")
PodScheduled(p) == /\ pods[p] \in {"pending", "stuck"}
                   /\ \E i \in Rents : machine[i] = "up" /\ PodMoves(p, i)
PodEnds(p)      == pods[p] \in Rents \cup {"pending", "stuck"} /\ PodMoves(p, "ended")

PodStep(p) == PodCreated(p) \/ PodStuck(p) \/ PodScheduled(p) \/ PodEnds(p)

RentalNext ==
    \/ \E i \in Rents : RentAsked(i) \/ RenterStep(i) \/ DestroyAsked(i) \/ DestroyMarks(i)
    \/ SetIdleMinutes \/ LoopStep \/ RentalCrash
    \/ \E p \in Pods : PodStep(p)

RentalSpec == RentalInit /\ [][RentalNext]_rentalVars

\* The loop is a goroutine of the server, whose ticker does not stop.
RentalFairness == WF_rentalVars(LoopStep)

--------------------------------
(***************************************************************************)
(* Properties. What makes the rented machines right: none is forgotten,    *)
(* none is destroyed under a pod, and none bills for ever without one.     *)
(***************************************************************************)

\* Every variable has the shape its comment gives (gpucloud.go, gpuinstances.go).
RentalTypeOK ==
    /\ machine \in [Rents -> {"none", "up", "gone"}]
    /\ row \in [Rents -> {"none", "renting", "active", "destroyed"}]
    /\ renter \in [Rents -> RenterPCs]
    /\ pods \in [Pods -> Rents \cup {"none", "pending", "stuck", "ended", "lost"}]
    /\ killers \subseteq Rents /\ loop \in LoopType
    /\ idle \in [Rents -> 0 .. NoClock]
    /\ minutes \in {0, Window} /\ struck \subseteq RentFaults /\ toggles \in 0 .. MaxToggles

\* A machine that bills has a row, or is being rented.
Recorded(i) == machine[i] = "up" => row[i] \in {"renting", "active"} \/ renter[i] \in InFlight

\* The three ways of renting a machine that no row knows of are the only
\* ones, and a row outlives its machine only if marking it failed, was cut off
\* by a crash, or never came because the answer of the destroy was lost; no
\* later destroy can set that right, the provider has nothing left to delete
\* (rentWithProvider, destroyGPUInstance, runGPUIdleLoop).
SpendExplained ==
    \A i \in Rents :
        /\ Recorded(i) \/ renter[i] \in {"pollFailed", "insertFailed", "crashed"}
        /\ row[i] = "active" /\ machine[i] = "gone" =>
               i \in killers \cup loop.marking \/ struck \cap {"answer", "mark", "crash"} # {}

LoopKills(i) == loop.pc = "destroying" /\ machine[i] = "up" /\ machine'[i] = "gone"
                /\ i \in loop.doomed \ loop'.doomed

\* The loop destroys a machine some calls after it looked at the pods: no pod
\* that was on a machine then is lost, and none that waited for one, unless it
\* had waited longer than the grace (GPUBusyNodes, decideIdleDestroys).
KnownPodsSurvive ==
    [][\A i \in Rents : LoopKills(i) => On(i) \cap loop.knew = {}]_rentalVars

\* A machine that luncur can destroy and nothing runs on or waits for.
Wasting(i) ==
    /\ minutes # 0 /\ machine[i] = "up" /\ row[i] = "active"
    /\ On(i) = {} /\ \A p \in Pods : pods[p] # "pending"

\* No machine bills for ever with nothing to run: the loop destroys it, over
\* failing calls, a crash and a loop that was off for a while.
IdleMachinesDie == \A i \in Rents : []<>~Wasting(i)

\* A machine is on record as long as it bills, is destroyed when it idles and not before
\* (rentWithProvider, runGPUIdleLoop).
MachinesAccounted == []SpendExplained /\ KnownPodsSurvive /\ IdleMachinesDie

================================
