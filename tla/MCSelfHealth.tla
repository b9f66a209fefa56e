---------------------------- MODULE MCSelfHealth -----------------------------
(* Instances of SelfHealth for TLC. *)
EXTENDS SelfHealth, TLC

\* The monitors that never fail by themselves are interchangeable.
Symmetry == Permutations(Slugs \ (Unresolvable \cup Flaky))
=============================================================================
