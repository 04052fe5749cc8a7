--------------------------- MODULE MCMachineAlerts ---------------------------
(* Instances of MachineAlerts for TLC. *)
EXTENDS MachineAlerts

CONSTANTS ada, omar

MCRole == [u \in Users |-> IF u = omar THEN "operator" ELSE "engineer"]
=============================================================================
