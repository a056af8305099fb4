------------------------------- MODULE SweepPromise -----------------------------
(***************************************************************************)
(* What a sweep promises the reader of its rows: a trial moves forward     *)
(* only, one at a time, at most Parallel run at once, and nothing moves    *)
(* once the sweep has ended; it is done only when every trial has ended    *)
(* and stopped only when none is running.                                  *)
(***************************************************************************)
EXTENDS Naturals, FiniteSets

CONSTANTS TrialIds, Parallel

VARIABLES sweep,  \* none, running, done or stopped
          state   \* of each trial

vars == <<sweep, state>>

In(s) == {k \in TrialIds : state[k] = s}

Init == sweep = "none" /\ state = [k \in TrialIds |-> "pending"]

Create ==
    /\ sweep = "none" /\ sweep' = "running"
    /\ UNCHANGED state

Launch(k) ==
    /\ sweep = "running" /\ state[k] = "pending"
    /\ Cardinality(In("running")) < Parallel
    /\ state' = [state EXCEPT ![k] = "running"]
    /\ UNCHANGED sweep

\* A trial that cannot be launched fails without having run.
End(k, s) ==
    /\ sweep = "running"
    /\ state[k] = "running" \/ (state[k] = "pending" /\ s = "failed")
    /\ state' = [state EXCEPT ![k] = s]
    /\ UNCHANGED sweep

Done ==
    /\ sweep = "running" /\ In("pending") = {} /\ In("running") = {}
    /\ sweep' = "done"
    /\ UNCHANGED state

Stopped ==
    /\ sweep = "running" /\ In("running") = {}
    /\ sweep' = "stopped"
    /\ UNCHANGED state

Next ==
    \/ Create \/ Done \/ Stopped
    \/ \E k \in TrialIds :
        \/ Launch(k)
        \/ \E s \in {"done", "failed", "pruned"} : End(k, s)

Spec == Init /\ [][Next]_vars

================================
