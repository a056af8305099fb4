-------------------------------- MODULE MCDeploy -------------------------------
(* Values for TLC. *)
EXTENDS DeployProperties

P(strategy, auto) == [strategy |-> strategy, autoRollback |-> auto]

RollingOnly     == {P("rolling", TRUE)}
CanaryOnly      == {P("canary", TRUE)}
EitherStrategy  == {P("rolling", TRUE), P("canary", FALSE)}

================================
