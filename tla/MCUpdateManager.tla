--------------------------- MODULE MCUpdateManager --------------------------
(* UpdateManager on small instances: one or two callers, two or three releases. *)
EXTENDS UpdateManager, TLC

\* Callers are interchangeable where all of them may install.
Symmetry == Permutations(Callers)
=============================================================================
