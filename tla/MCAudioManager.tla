--------------------------- MODULE MCAudioManager ---------------------------
(* AudioManager on a small instance: two callers, four module ids.         *)
EXTENDS AudioManager, TLC

\* Callers and module ids are interchangeable.
Symmetry == Permutations(Clients) \cup Permutations(ModuleIds)
=============================================================================
