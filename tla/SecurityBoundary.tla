-------------------------- MODULE SecurityBoundary --------------------------
(***************************************************************************)
(* SecurityService: what it decides about an artifact from what the scan   *)
(* found, and the journal of committed artifacts that references are       *)
(* resolved against.                                                       *)
(***************************************************************************)
EXTENDS Integers, FiniteSets

\* What the size of an artifact and its scan amount to.  actions: what the
\* policy has for the categories found; "none" is a category it leaves out.
Scans == [large : BOOLEAN, complete : BOOLEAN, manifest : BOOLEAN, ranges : BOOLEAN,
          actions : SUBSET {"safe", "redacted", "blocked", "none"}]

Trusted(scan) == scan.complete /\ scan.manifest /\ scan.ranges /\ "none" \notin scan.actions

\* evaluate_artifact: the size goes first, and what cannot be trusted is
\* indeterminate whatever else was found.
Decision(scan) ==
    IF scan.large THEN "blocked"
    ELSE IF ~Trusted(scan) THEN "indeterminate"
    ELSE IF "blocked" \in scan.actions THEN "blocked"
    ELSE IF "redacted" \in scan.actions THEN "redacted"
    ELSE "safe"

Readable == {"safe", "redacted"}

Prepared(id, purpose, decision) == [id |-> id, purpose |-> purpose, decision |-> decision]

\* commit: once for an attestation, and only of what may be read
Committed(journal, artifact) ==
    IF artifact.decision \in Readable THEN journal \cup {artifact} ELSE journal

\* resolve: a reference that was committed, for the purpose it was made for
Resolves(journal, artifact, purpose) ==
    /\ artifact \in journal
    /\ artifact.purpose = purpose
    /\ artifact.decision \in Readable
=============================================================================
