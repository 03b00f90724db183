--------------------------- MODULE MCPublication ---------------------------
(* Instances of Publication for TLC.                                       *)
EXTENDS Publication, TLC

\* Invocations are interchangeable: only their identity tells them apart.
Symmetry == Permutations(Owners)
=============================================================================
