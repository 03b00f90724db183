------------------------------ MODULE MCBudget ------------------------------
(* Instances of Budget for TLC.                                            *)
EXTENDS Budget, TLC

\* Runtimes and calls are interchangeable: only their identity tells them apart.
Symmetry == Permutations(Runtimes) \cup Permutations(Calls)
=============================================================================
