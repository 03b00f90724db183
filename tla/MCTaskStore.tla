---------------------------- MODULE MCTaskStore ----------------------------
(* An instance of TaskStore for TLC.                                       *)
EXTENDS TaskStore, TLC

\* Processes are told apart by their identity only, and so are work units.
Symmetry == Permutations(Procs) \cup Permutations(Contents)
=============================================================================
