----------------------------- MODULE MCEvidence -----------------------------
(* Interchangeable apps and pids. *)
EXTENDS Evidence, TLC

Symmetry == Permutations(App) \cup Permutations(Pid)
=============================================================================
