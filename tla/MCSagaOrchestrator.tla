------------------------- MODULE MCSagaOrchestrator -------------------------
(* Small instances of SagaOrchestrator for TLC: a saga of a few steps.     *)
EXTENDS SagaOrchestrator

CONSTANTS uuid, payment  \* the execution's id, and the id of a payment

(* Everything; all but the database; what the contract allows for.         *)
ThreeFaultSets ==
    {FaultKinds, FaultKinds \ {"db"}, FaultKinds \ {"db", "broker"}}

NoFault == {{}}
=============================================================================
