---------------------------- MODULE MCReviewRun ----------------------------
(* Instances of ReviewRun for TLC: the constants are given by the cfgs.    *)
EXTENDS ReviewRun
=============================================================================
