----------------------------- MODULE MCScheduler -----------------------------
(* A monitor alone, or a parent and a child that depends on it. *)
EXTENDS Scheduler

CONSTANTS mParent, mChild

MCNoTLS == [m \in Monitors |-> {FALSE}]
MCAnyTLS == [m \in Monitors |-> BOOLEAN]

MCDependsOn == [m \in Monitors |-> IF m = mChild THEN {mParent} ELSE {}]
=============================================================================
