------------------------------- MODULE MCGroup -------------------------------
(* GroupMachine for TLC.  No operator tells one slug from another. *)
EXTENDS GroupMachine, TLC

Symmetry == Permutations(Slugs)
=============================================================================
