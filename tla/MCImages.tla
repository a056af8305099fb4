-------------------------------- MODULE MCImages --------------------------------
(* Values for TLC. *)
EXTENDS Images

\* Apps of one name in several environments of a project.
SharedRepo == [a \in AppIds |-> "shared"]

================================
