-------------------------- MODULE MCConnectionGate --------------------------
(* ConnectionGate with two children; the .cfg files pick the operations.   *)
EXTENDS ConnectionGate

CONSTANTS c1, c2
MCChildren == {c1, c2}
MCKills == AllOps \ {"early_failure"}
MCRecovery == {"recovery", "error", "early_failure", "restart"}
=============================================================================
