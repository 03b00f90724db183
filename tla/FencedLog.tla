------------------------------ MODULE FencedLog ------------------------------
(***************************************************************************)
(* What the task aggregate promises about the work on one review: an       *)
(* append-only log of completed phases, written in epochs.  Epochs only    *)
(* grow, an entry belongs to the epoch that is current when it is written, *)
(* every entry is of a later phase than the one before it, and nothing     *)
(* begins or is written after the log is closed.                           *)
(***************************************************************************)
EXTENDS Integers, Sequences

CONSTANT Phases    \* ranks of the phases that can be completed

VARIABLES epoch,   \* the number of the latest epoch, 0 before the first
          log,     \* the entries, [epoch, phase]
          closed   \* no further work

vars == <<epoch, log, closed>>

Reached == IF log = <<>> THEN 0 ELSE log[Len(log)].phase

Init == epoch = 0 /\ log = <<>> /\ closed = FALSE

Grant == ~closed /\ epoch' = epoch + 1 /\ UNCHANGED <<log, closed>>

Complete(p) ==
    /\ ~closed /\ epoch > 0 /\ p > Reached
    /\ log' = Append(log, [epoch |-> epoch, phase |-> p])
    /\ UNCHANGED <<epoch, closed>>

Close == closed' = TRUE /\ UNCHANGED <<epoch, log>>

Next == Grant \/ Close \/ \E p \in Phases : Complete(p)

Spec == Init /\ [][Next]_vars
=============================================================================
