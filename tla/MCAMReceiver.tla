---------------------------- MODULE MCAMReceiver ----------------------------
(* An alert whose route changes while it fires. *)
EXTENDS AMReceiver

CONSTANT Targets

MCRoutes == [f \in Fingerprints |-> Targets]
=============================================================================
