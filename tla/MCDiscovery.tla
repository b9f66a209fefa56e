----------------------------- MODULE MCDiscovery -----------------------------
(* Two ingress hosts, each with its own monitor.                              *)
EXTENDS Discovery

MCSlugOf == [t \in Tuples |-> IF t = "t1" THEN "m1" ELSE "m2"]
=============================================================================
