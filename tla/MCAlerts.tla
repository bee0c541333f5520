------------------------------ MODULE MCAlerts ------------------------------
(* Alerts with a repeating alert below its threshold and a user who may add *)
(* one above it on the same contract.                                       *)
EXTENDS Alerts

CONSTANTS a1, a2, c1

MCContractOf == [a \in {a1, a2} |-> c1]
MCThreshold  == [a \in {a1, a2} |-> IF a = a1 THEN 1 ELSE 0]
=============================================================================
