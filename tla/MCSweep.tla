-------------------------------- MODULE MCSweep --------------------------------
(* Values for TLC. *)
EXTENDS SweepProperties

Report(value, step) == [found |-> TRUE, value |-> value, step |-> step]

NoReports  == {}
GoodOrBad  == {Report(1, 1), Report(2, 1), Report(2, 2)}

================================
