----------------------------- MODULE PipelinePromise ---------------------------
(***************************************************************************)
(* What a pipeline run promises the reader of its rows.  A step ends once, *)
(* and starts only after every step it needs is done: under the Argo       *)
(* engine the order of the compute steps is left to Argo.  A step is       *)
(* skipped only downstream of a failed step, or while the run is being     *)
(* stopped, or because Argo did not run it.  The run is done only when     *)
(* every step is done, and when it ends through its steps or a stop, none  *)
(* of them is left to start.                                               *)
(***************************************************************************)
CONSTANTS StepIds, Needs, Upstream, Compute

VARIABLES run,      \* none, running, done, failed or stopped
          argo,     \* does a Workflow run the compute steps?
          state,    \* of each step
          stopping  \* is the run being stopped?

vars == <<run, argo, state, stopping>>

Settled == \A k \in StepIds : state[k] \notin {"pending", "running"}

Init ==
    /\ run = "none" /\ argo = FALSE /\ stopping = FALSE
    /\ state = [k \in StepIds |-> "pending"]

Create ==
    /\ run = "none" /\ run' = "running"
    /\ argo' \in BOOLEAN
    /\ UNCHANGED <<state, stopping>>

NeedsDone(k) == \A n \in Needs[k] : state[n] = "done"

\* Steps end while the run does not; but a run whose Workflow could not be
\* created is failed while a tick may be doing its first actions.
Going == run = "running" \/ (argo /\ run = "failed")

Start(k) ==
    /\ state[k] = "pending"
    /\ NeedsDone(k) \/ (argo /\ k \in Compute)
    /\ state' = [state EXCEPT ![k] = "running"]
    /\ UNCHANGED <<run, argo, stopping>>

Succeed(k) ==
    /\ Going /\ state[k] = "running"
    /\ NeedsDone(k) \/ (argo /\ k \in Compute)
    /\ state' = [state EXCEPT ![k] = "done"]
    /\ UNCHANGED <<run, argo, stopping>>

\* A step that cannot be started fails without having run.
Fail(k) ==
    /\ Going
    /\ \/ state[k] = "running"
       \/ state[k] = "pending" /\ NeedsDone(k)
    /\ state' = [state EXCEPT ![k] = "failed"]
    /\ UNCHANGED <<run, argo, stopping>>

Skip(k) ==
    /\ \/ stopping /\ state[k] \in {"pending", "running"}
       \/ /\ run = "running" /\ state[k] = "pending"
          /\ \E n \in Upstream[k] : state[n] = "failed"
       \/ Going /\ argo /\ state[k] = "running"
    /\ state' = [state EXCEPT ![k] = "skipped"]
    /\ UNCHANGED <<run, argo, stopping>>

Stopping ==
    /\ stopping' = ~ stopping
    /\ UNCHANGED <<run, argo, state>>

End ==
    /\ run = "running" /\ Settled
    /\ run' = IF stopping THEN "stopped"
              ELSE IF \A k \in StepIds : state[k] = "done" THEN "done" ELSE "failed"
    /\ UNCHANGED <<argo, state>>
    /\ stopping' \in {stopping, FALSE}

\* The Workflow could not be created.
NotStarted ==
    /\ run = "running" /\ argo
    /\ run' = "failed"
    /\ UNCHANGED <<argo, state, stopping>>

Next ==
    \/ Create \/ Stopping \/ End \/ NotStarted
    \/ \E k \in StepIds : Start(k) \/ Succeed(k) \/ Fail(k) \/ Skip(k)

Spec == Init /\ [][Next]_vars

================================
