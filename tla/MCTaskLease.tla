---------------------------- MODULE MCTaskLease ----------------------------
(* An instance of TaskLease for TLC.                                       *)
EXTENDS TaskLease, TLC

\* Callers, bindings and ids are told apart by their identity only.
Symmetry == Permutations(Callers) \cup Permutations(Bindings) \cup Permutations(Ids)
=============================================================================
