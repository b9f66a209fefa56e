---------------------------- MODULE MCDispatcher -----------------------------
(* Instances of Dispatcher for TLC. *)
EXTENDS Dispatcher, TLC

\* The monitors without a parent are interchangeable.
Symmetry == Permutations(Slugs \ Children)
=============================================================================
