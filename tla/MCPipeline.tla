------------------------------- MODULE MCPipeline ------------------------------
(* Values for TLC. *)
EXTENDS PipelineProperties

NoReports == {}

\* An app step, an image step and a deploy that need it, and a notification
\* that needs both.  Both compute steps are retried, or the image step only.
Diamond      == <<{}, {1}, {1}, {2, 3}>>
DiamondKinds == <<"app", "image", "deploy", "notify">>
BothRetried  == <<1, 1, 0, 0>>
ImageRetried == <<0, 1, 0, 0>>

\* The same steps, the image step after the app step and the actions after both.
Fork == <<{}, {1}, {2}, {2}>>

\* Three steps one after the other.
Chain      == <<{}, {1}, {2}>>
ChainKinds == <<"app", "image", "deploy">>
NoRetries  == <<0, 0, 0>>

================================
