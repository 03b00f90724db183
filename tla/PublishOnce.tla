---------------------------- MODULE PublishOnce ----------------------------
(***************************************************************************)
(* What remote publication promises its user, without leases, retries or   *)
(* crashes: a planned item gets at most one comment on the platform, and   *)
(* an item is reported as published only once its comment is there.        *)
(***************************************************************************)
CONSTANTS Items,    \* the planned items
          Owners    \* the invocations that may create a comment

VARIABLES comments, \* the comments on the platform, as <<creator, item>>
          reported  \* the items reported as published

vars == <<comments, reported>>

HasComment(i) == \E p \in Owners : <<p, i>> \in comments

Init == comments = {} /\ reported = {}

\* A comment appears for an item that has none.
Comment(p, i) ==
    /\ ~HasComment(i)
    /\ comments' = comments \cup {<<p, i>>}
    /\ UNCHANGED reported

\* An item whose comment exists is reported as published.
Report(i) ==
    /\ HasComment(i)
    /\ reported' = reported \cup {i}
    /\ UNCHANGED comments

Next == \E i \in Items : Report(i) \/ \E p \in Owners : Comment(p, i)

Spec == Init /\ [][Next]_vars
=============================================================================
