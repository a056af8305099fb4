---------------------------- MODULE DeployLifecycle ----------------------------
(***************************************************************************)
(* What the deploy history of an app promises whoever reads it: rows are   *)
(* only added, a deploy runs the image it introduced or the one of an      *)
(* earlier deploy, that image is set once, and "live" and "failed" are     *)
(* final.  How a row is driven, by which goroutine and through how many    *)
(* restarts, is not visible here.                                          *)
(***************************************************************************)
EXTENDS Naturals, Sequences

VARIABLE history    \* a sequence of [status, image]

Entry(status, image) == [status |-> status, image |-> image]

Init == history = <<>>

\* A source to build, or an image: a new one or an earlier deploy's.
Add == \/ history' = Append(history, Entry("building", 0))
       \/ \E image \in 1..(Len(history) + 1) :
            history' = Append(history, Entry("deploying", image))

Built(n) == /\ history[n].status = "building"
            /\ history' = [history EXCEPT ![n] = Entry("deploying", n)]

GoesLive(n) == /\ history[n].status = "deploying"
               /\ history' = [history EXCEPT ![n].status = "live"]

Fails(n) == /\ history[n].status \in {"building", "deploying"}
            /\ history' = [history EXCEPT ![n].status = "failed"]

Next == Add \/ \E n \in DOMAIN history : Built(n) \/ GoesLive(n) \/ Fails(n)

Spec == Init /\ [][Next]_history

================================
