--------------------------- MODULE TaskLeaseProofs ---------------------------
(***************************************************************************)
(* Proofs about TaskLease, for every set of callers, every length of a     *)
(* lease and every number of leases, phases and snapshots.                 *)
(***************************************************************************)
EXTENDS TaskLease, FiniteSetTheorems, TLAPS

USE TaskAssumption DEF Created

-----------------------------------------------------------------------------
(* The inductive invariant                                                 *)

Checkpoint == [id : Ids, sequence : Nat \ {0}, predecessor : Ids \cup {NoId}]

Completion == [epoch : Nat \ {0}, phase : Phases]

Task == [control : Controls, phase : {Created} \cup Phases, result : Results,
         delivery : Deliveries, version : Nat \ {0},
         lease : [state : {"none", "held", "released"}, token : 0 .. tokens,
                  left : 0 .. LeaseTicks],
         binding : Bindings \cup {NoBinding}, latest : Ids \cup {NoId}]

Seen == [control : Controls, phase : {Created} \cup Phases, result : Results,
         delivery : Deliveries, binding : Bindings \cup {NoBinding},
         latest : Ids \cup {NoId}, checkpoints : Nat, snapshots : Nat]

Known == [version : Nat \ {0}, token : Nat, seen : Seen]

\* TypeOK, with the types that it leaves to the checkpoints and the callers.
TypeInv ==
    /\ TypeOK
    /\ checkpoints \in Seq(Checkpoint)
    /\ snapshots \in Seq(Ids)
    /\ completed \in Seq(Completion)
    /\ memory \in [Callers -> Known]

\* Only a running task has a lease, and the lease has the newest token.
LeaseInv == task.control = "running" => tokens > 0

\* The task is in the phase that was completed last.
PhaseInv ==
    task.phase = IF completed = <<>> THEN Created ELSE completed[Len(completed)].phase

IInv == /\ TypeInv /\ LeaseInv
        /\ ChainIsWhole /\ PhaseInv
        /\ VersionIdentifiesState

-----------------------------------------------------------------------------
(* Facts about the operators                                               *)

\* Drafts are checkpoints.
LEMMA DraftType == Drafts \subseteq Checkpoint
  <1>1. Cardinality(Phases) \in Nat
    <2>1. IsFiniteSet(1 .. 6)
      <3>1. 1 \in Int /\ 6 \in Int
        OBVIOUS
      <3>2. QED BY <3>1, FS_Interval
    <2>2. IsFiniteSet(Phases)
      BY <2>1, FS_Subset
    <2>3. QED BY <2>2, FS_CardinalityType
  <1>2. QED BY <1>1 DEF Drafts, Checkpoint

\* A caller that may write holds the newest token.
LEMMA WriterHoldsNewest ==
  ASSUME TypeInv, LeaseInv, NEW c \in Callers, RequireWrite(c)
  PROVE  /\ task.control = "running"
         /\ memory[c].token = tokens
         /\ tokens \in Nat \ {0}
         /\ memory[c].version = task.version
  BY DEF TypeInv, TypeOK, LeaseInv, RequireWrite, RequireLease

-----------------------------------------------------------------------------
(* Next by kinds of steps: what a step may change                          *)

\* The caller has read the task after the step.
Reads(c) == \E token \in {memory[c].token, tokens'} : Knows(c, token)

\* Only the lease changes, or who has read the task, or neither.
Look ==
    /\ task' \in Task
    /\ task'.version = task.version /\ task'.control = task.control
    /\ task'.phase = task.phase /\ task'.result = task.result
    /\ task'.delivery = task.delivery /\ task'.binding = task.binding
    /\ task'.latest = task.latest
    /\ task'.lease.token = task.lease.token
    /\ task'.lease.state = "none" <=> task.lease.state = "none"
    /\ UNCHANGED <<checkpoints, snapshots, tokens, completed>>
    /\ UNCHANGED memory \/ \E c \in Callers : Reads(c)

\* A new lease.
Lease(c) == task.control \in {"ready", "paused", "running"} /\ Grant(c)

\* The next phase.
Advance(c, p, d) ==
    /\ RequireWrite(c)
    /\ p > task.phase
    /\ ExtendsChain(d)
    /\ checkpoints' = Append(checkpoints, d)
    /\ task' = [task EXCEPT !.phase = p, !.latest = d.id, !.version = @ + 1]
    /\ completed' = Append(completed, [epoch |-> memory[c].token, phase |-> p])
    /\ UNCHANGED <<snapshots, tokens>>
    /\ Reads(c)

\* A new version of the task without a new checkpoint or lease.
Change ==
    /\ task' \in Task
    /\ task'.version = task.version + 1 /\ task'.phase = task.phase
    /\ task'.latest = task.latest
    /\ \/ task'.control = task.control /\ task'.lease = task.lease
       \/ task'.control \in {"paused", "terminated"} /\ task'.lease.state = "none"
    /\ task.control = "terminated" => task'.control = "terminated"
    /\ UNCHANGED <<checkpoints, tokens, completed>>
    /\ \/ UNCHANGED snapshots /\ \E c \in Callers : Reads(c)
       \/ /\ UNCHANGED memory
          /\ Len(snapshots) < MaxSnapshots
          /\ \E k \in DOMAIN checkpoints : snapshots' = Append(snapshots, checkpoints[k].id)

\* Every step is of one of these kinds.
LEMMA StepKinds ==
  ASSUME TypeInv, LeaseInv, [Next]_vars
  PROVE  \/ Look
         \/ Change
         \/ \E c \in Callers : Lease(c) \/ \E p \in Phases, d \in Drafts : Advance(c, p, d)
  <1> USE DEF Task
  <1>0. /\ task \in Task
        /\ tokens \in Nat
        /\ task.control = "running" <=> task.lease.state # "none"
    BY DEF TypeInv, TypeOK
  <1>v. task.version + 1 \in Nat \ {0}
    BY <1>0
  <1>l. NoLease \in [state : {"none", "held", "released"}, token : 0 .. tokens,
                     left : 0 .. LeaseTicks]
    BY <1>0 DEF NoLease
  <1>1. ASSUME NEW c \in Callers, Get(c) PROVE Look
    BY <1>0, <1>1 DEF Get, Returned, Look, Reads
  <1>2. ASSUME NEW c \in Callers, AcquireExecution(c) PROVE Lease(c)
    BY <1>0, <1>2 DEF AcquireExecution, Lease
  <1>3. ASSUME NEW c \in Callers, NEW confirm \in BOOLEAN, Resume(c, confirm)
        PROVE  Lease(c)
    BY <1>0, <1>3 DEF Resume, Lease
  <1>4. ASSUME NEW c \in Callers, RenewLease(c) PROVE Look
    <2>1. task' \in Task
      BY <1>0, <1>4 DEF RenewLease, Valid
    <2>2. QED BY <1>0, <1>4, <2>1 DEF RenewLease, RequireLease, Look
  <1>5. ASSUME NEW c \in Callers, ReleaseExecution(c) PROVE Look
    <2>1. task' \in Task
      BY <1>0, <1>5 DEF ReleaseExecution
    <2>2. QED BY <1>0, <1>5, <2>1 DEF ReleaseExecution, RequireLease, Look
  <1>6. ASSUME NEW c \in Callers, NEW p \in Phases, NEW d \in Drafts, CompletePhase(c, p, d)
        PROVE  Advance(c, p, d)
    BY <1>0, <1>6 DEF CompletePhase, Advance, Returned, Reads
  <1>7. ASSUME NEW c \in Callers, NEW b \in Bindings, BindInput(c, b) PROVE Change
    <2>1. task' \in Task
      BY <1>0, <1>v, <1>7 DEF BindInput
    <2>2. QED BY <1>0, <1>7, <2>1 DEF BindInput, Change, Returned, Reads
  <1>8. ASSUME NEW c \in Callers, NEW r \in Results, Pause(c, r) PROVE Change
    <2>1. task' \in Task
      BY <1>0, <1>v, <1>l, <1>8 DEF Pause, Controls
    <2>2. QED BY <1>0, <1>8, <2>1 DEF Pause, Change, Returned, Reads, NoLease
  <1>9. ASSUME NEW c \in Callers, Terminate(c) PROVE Change
    <2>1. task' \in Task
      BY <1>0, <1>v, <1>l, <1>9 DEF Terminate, Controls
    <2>2. QED BY <1>0, <1>9, <2>1 DEF Terminate, Change, Returned, Reads, NoLease
  <1>10. ASSUME NEW c \in Callers, NEW r \in Results, NEW k \in DOMAIN checkpoints,
                CreateResultSnapshot(c, r, k)
         PROVE Change
    <2>1. task' \in Task
      BY <1>0, <1>v, <1>10 DEF CreateResultSnapshot, Deliveries
    <2>2. QED BY <1>0, <1>10, <2>1 DEF CreateResultSnapshot, Change
  <1>11. ASSUME LeaseRunsDown PROVE Look
    <2>1. task' \in Task
      BY <1>0, <1>11 DEF LeaseRunsDown, Valid
    <2>2. QED BY <1>0, <1>11, <2>1 DEF LeaseRunsDown, Valid, Look
  <1>12. ASSUME RecoveryLapses \/ UNCHANGED vars PROVE Look
    BY <1>0, <1>12 DEF RecoveryLapses, vars, Look
  <1>13. QED
    BY <1>1, <1>2, <1>3, <1>4, <1>5, <1>6, <1>7, <1>8, <1>9, <1>10, <1>11, <1>12 DEF Next

-----------------------------------------------------------------------------
(* Every kind of step keeps the invariant                                  *)

\* A new version: its type, its place after the version before, and the fields
\* that the kinds of steps set.
Later == /\ task' \in Task'
         /\ task'.version >= task.version
         /\ tokens' \in 0 .. MaxTokens /\ tokens' >= tokens
         /\ (task'.control = "running") <=> (task'.lease.state # "none")
         /\ task'.control = "running" => task'.lease.token = tokens' /\ tokens' > 0
         /\ checkpoints' \in Seq(Checkpoint)
         /\ snapshots' \in Seq(Ids) /\ Len(snapshots') <= MaxSnapshots
         /\ completed' \in Seq(Completion)
         /\ UNCHANGED memory \/ \E c \in Callers : Reads(c)
         /\ unknown' \in BOOLEAN /\ lapsed' \in BOOLEAN

\* The flags are flags after every step.
LEMMA FlagTypes ==
  ASSUME TypeInv, [Next]_vars
  PROVE  unknown' \in BOOLEAN /\ lapsed' \in BOOLEAN
  <1> USE DEF TypeInv, TypeOK
  <1>1. ASSUME NEW c \in Callers, Get(c) \/ AcquireExecution(c) \/ RenewLease(c)
                                  \/ ReleaseExecution(c) \/ Terminate(c)
        PROVE  unknown' \in BOOLEAN /\ lapsed' \in BOOLEAN
    BY <1>1 DEF Get, AcquireExecution, RenewLease, ReleaseExecution, Terminate, Grant
  <1>2. ASSUME NEW c \in Callers, NEW confirm \in BOOLEAN, Resume(c, confirm)
        PROVE  unknown' \in BOOLEAN /\ lapsed' \in BOOLEAN
    BY <1>2 DEF Resume, Grant
  <1>3. ASSUME NEW c \in Callers, NEW p \in Phases, NEW d \in Drafts, CompletePhase(c, p, d)
        PROVE  unknown' \in BOOLEAN /\ lapsed' \in BOOLEAN
    BY <1>3 DEF CompletePhase
  <1>4. ASSUME NEW c \in Callers, NEW b \in Bindings, BindInput(c, b)
        PROVE  unknown' \in BOOLEAN /\ lapsed' \in BOOLEAN
    BY <1>4 DEF BindInput
  <1>5. ASSUME NEW c \in Callers, NEW r \in Results, Pause(c, r)
        PROVE  unknown' \in BOOLEAN /\ lapsed' \in BOOLEAN
    BY <1>5 DEF Pause
  <1>6. ASSUME NEW c \in Callers, NEW r \in Results, NEW k \in DOMAIN checkpoints,
               CreateResultSnapshot(c, r, k)
        PROVE  unknown' \in BOOLEAN /\ lapsed' \in BOOLEAN
    BY <1>6 DEF CreateResultSnapshot
  <1>7. ASSUME LeaseRunsDown \/ RecoveryLapses \/ UNCHANGED vars
        PROVE  unknown' \in BOOLEAN /\ lapsed' \in BOOLEAN
    BY <1>7 DEF LeaseRunsDown, RecoveryLapses, vars
  <1>8. QED BY <1>1, <1>2, <1>3, <1>4, <1>5, <1>6, <1>7 DEF Next

\* Each kind of step leads to a later state.
LEMMA StepsLead ==
  ASSUME TypeInv, LeaseInv, [Next]_vars
  PROVE  Later
  <1>0. /\ task \in Task
        /\ tokens \in 0 .. MaxTokens /\ tokens \in Nat
        /\ (task.control = "running") <=> (task.lease.state # "none")
        /\ task.control = "running" => task.lease.token = tokens /\ tokens > 0
        /\ checkpoints \in Seq(Checkpoint)
        /\ snapshots \in Seq(Ids) /\ Len(snapshots) <= MaxSnapshots
        /\ completed \in Seq(Completion)
        /\ memory \in [Callers -> Known]
    BY DEF TypeInv, TypeOK, Task, LeaseInv
  <1>1. unknown' \in BOOLEAN /\ lapsed' \in BOOLEAN
    BY FlagTypes
  <1>2. task.version \in Nat \ {0} /\ task.version + 1 \in Nat \ {0}
    BY <1>0 DEF Task
  <1>3. CASE Look
    <2>1. task' \in Task'
      BY <1>3 DEF Look, Task
    <2>2. QED BY <1>0, <1>1, <1>2, <1>3, <2>1 DEF Look, Later
  <1>4. CASE Change
    <2>1. task' \in Task'
      BY <1>4 DEF Change, Task
    <2>2. snapshots' \in Seq(Ids) /\ Len(snapshots') <= MaxSnapshots
      <3>1. ASSUME NEW k \in DOMAIN checkpoints PROVE checkpoints[k].id \in Ids
        <4>1. checkpoints[k] \in Checkpoint
          BY <1>0
        <4>2. QED BY <4>1 DEF Checkpoint
      <3>2. ASSUME NEW n \in Ids, Len(snapshots) < MaxSnapshots,
                   snapshots' = Append(snapshots, n)
            PROVE  snapshots' \in Seq(Ids) /\ Len(snapshots') <= MaxSnapshots
        BY <1>0, <3>2
      <3>3. QED BY <1>0, <1>4, <3>1, <3>2 DEF Change
    <2>3. QED BY <1>0, <1>1, <1>2, <1>4, <2>1, <2>2 DEF Change, Later
  <1>5. ASSUME NEW c \in Callers, Lease(c) PROVE Later
    <2>1. tokens' \in 0 .. MaxTokens /\ tokens' \in Nat /\ tokens' > tokens /\ tokens' > 0
      BY <1>0, <1>5 DEF Lease, Grant
    <2>2. NewLease \in [state : {"none", "held", "released"}, token : 0 .. tokens',
                        left : 0 .. LeaseTicks]
      BY <1>0, <1>5, <2>1 DEF Lease, Grant, NewLease
    <2>3. task' \in Task'
      BY <1>0, <1>2, <1>5, <2>2 DEF Lease, Grant, Task, Controls
    <2>4. task'.version = task.version + 1 /\ task'.control = "running"
          /\ task'.lease.state # "none" /\ task'.lease.token = tokens'
      BY <1>0, <1>5 DEF Lease, Grant, NewLease, Task
    <2>5. Reads(c) /\ UNCHANGED <<checkpoints, snapshots, completed>>
      BY <1>5 DEF Lease, Grant, Reads
    <2>6. QED BY <1>0, <1>1, <1>2, <2>1, <2>3, <2>4, <2>5 DEF Later
  <1>6. ASSUME NEW c \in Callers, NEW p \in Phases, NEW d \in Drafts, Advance(c, p, d) PROVE Later
    <2>1. task' \in Task /\ UNCHANGED tokens
      BY <1>0, <1>2, <1>6, DraftType DEF Advance, Task, Checkpoint
    <2>2. task' \in Task'
      BY <2>1 DEF Task
    <2>3. memory[c].token = tokens /\ tokens \in Nat \ {0}
      BY <1>6, WriterHoldsNewest DEF Advance
    <2>4. d \in Checkpoint /\ d.id \in Ids
      BY DraftType DEF Checkpoint
    <2>5. completed' \in Seq(Completion)
      <3>1. [epoch |-> memory[c].token, phase |-> p] \in Completion
        BY <2>3 DEF Completion
      <3>2. QED BY <1>0, <1>6, <3>1 DEF Advance
    <2>6. checkpoints' \in Seq(Checkpoint)
      BY <1>0, <1>6, <2>4 DEF Advance
    <2>7. /\ task'.version = task.version + 1 /\ UNCHANGED <<snapshots, tokens>>
          /\ task'.control = task.control /\ task'.lease = task.lease /\ Reads(c)
      BY <1>0, <1>6 DEF Advance, Task
    <2>8. QED BY <1>0, <1>1, <1>2, <2>2, <2>5, <2>6, <2>7 DEF Later
  <1>7. QED BY <1>3, <1>4, <1>5, <1>6, StepKinds

\* The types of a later state.
LEMMA TypeStep ==
  ASSUME TypeInv, LeaseInv, Later
  PROVE  TypeInv' /\ LeaseInv'
  <1>1. LeaseInv'
    BY DEF Later, LeaseInv
  <1>2. Content' \in Seen
    BY DEF Later, Task, Content, Seen
  <1>4. memory' \in [Callers -> Known]
    <2>1. task'.version \in Nat \ {0} /\ tokens' \in Nat /\ Len(checkpoints') \in Nat
      BY DEF Later, Task
    <2>2. ASSUME NEW c \in Callers, NEW token \in {memory[c].token, tokens'}, Knows(c, token)
          PROVE  memory' \in [Callers -> Known]
      <3>1. token \in Nat
        BY <2>1 DEF TypeInv, Known
      <3>2. [version |-> task'.version, token |-> token,
             seen |-> Content'] \in Known
        BY <1>2, <2>1, <3>1 DEF Known
      <3>3. QED BY <2>2, <3>2 DEF Knows, TypeInv
    <2>3. QED BY <2>2 DEF Later, Reads, TypeInv
  <1>5. \A d \in Callers : memory'[d].version <= task'.version /\ memory'[d].token <= tokens'
    <2>1. task'.version \in Nat /\ tokens' \in Nat /\ task.version \in Nat /\ tokens \in Nat
          /\ memory \in [Callers -> Known]
      BY DEF Later, Task, TypeInv, TypeOK
    <2>2. ASSUME NEW d \in Callers
          PROVE  memory[d].version <= task'.version /\ memory[d].token <= tokens'
      <3>1. memory[d].version \in Nat /\ memory[d].token \in Nat
        BY <2>1 DEF Known
      <3>2. memory[d].version <= task.version /\ memory[d].token <= tokens
        BY DEF TypeInv, TypeOK
      <3>3. QED BY <2>1, <3>1, <3>2 DEF Later
    <2>3. ASSUME NEW c \in Callers, NEW token \in {memory[c].token, tokens'}, Knows(c, token),
                 NEW d \in Callers
          PROVE  memory'[d].version <= task'.version /\ memory'[d].token <= tokens'
      <3>1. CASE d = c
        BY <2>1, <2>2, <2>3, <3>1 DEF Knows
      <3>2. CASE d # c
        BY <2>1, <2>2, <2>3, <3>2 DEF Knows
      <3>3. QED BY <3>1, <3>2
    <2>4. QED BY <2>2, <2>3 DEF Later, Reads
  <1>6. TypeOK'
    BY <1>5 DEF Later, Task, TypeOK
  <1>7. QED BY <1>1, <1>4, <1>6 DEF Later, TypeInv

\* The phase of the task is the last one completed.
LEMMA PhaseStep ==
  ASSUME TypeInv, LeaseInv, PhaseInv, [Next]_vars
  PROVE  PhaseInv'
  <1>0. task \in Task /\ completed \in Seq(Completion) /\ memory \in [Callers -> Known]
    BY DEF TypeInv, TypeOK, Task
  <1>1. CASE task'.phase = task.phase /\ UNCHANGED completed
    BY <1>1 DEF PhaseInv
  <1>2. CASE Look
    BY <1>1, <1>2 DEF Look
  <1>3. CASE Change
    BY <1>1, <1>3 DEF Change
  <1>4. ASSUME NEW c \in Callers, Lease(c) PROVE PhaseInv'
    BY <1>0, <1>1, <1>4 DEF Lease, Grant, Task
  <1>5. ASSUME NEW c \in Callers, NEW p \in Phases, NEW d \in Drafts, Advance(c, p, d)
        PROVE  PhaseInv'
    <2> DEFINE new == [epoch |-> memory[c].token, phase |-> p]
    <2>1. new \in Completion /\ new.phase = p
      BY <1>5, WriterHoldsNewest DEF Advance, Completion
    <2>2. completed' = Append(completed, new) /\ task'.phase = p
      BY <1>0, <1>5 DEF Advance, Task
    <2> HIDE DEF new
    <2>3. completed' # <<>> /\ completed'[Len(completed')] = new
      BY <1>0, <2>1, <2>2
    <2>4. QED BY <2>1, <2>2, <2>3 DEF PhaseInv
  <1>6. QED BY <1>2, <1>3, <1>4, <1>5, StepKinds

-----------------------------------------------------------------------------
(* The chain                                                               *)

\* The id of the n-th checkpoint, and what the chain is to its n-th.
NamedAt(n) == IF n = 0 THEN NoId ELSE checkpoints[n].id

LinkedAt(k) ==
    /\ checkpoints[k].sequence = k
    /\ k > 1 => checkpoints[k].predecessor = checkpoints[k - 1].id

\* ChainIsWhole by its parts: the links, the snapshots and the readers.
LinkInv == /\ task.latest = NamedAt(Len(checkpoints))
           /\ \A k \in DOMAIN checkpoints : LinkedAt(k)

SnapshotInv == \A s \in DOMAIN snapshots : \E k \in DOMAIN checkpoints :
                  snapshots[s] = checkpoints[k].id

ReaderInv == \A c \in Callers : /\ memory[c].seen.checkpoints <= Len(checkpoints)
                               /\ memory[c].seen.latest = NamedAt(memory[c].seen.checkpoints)

\* The parts are the whole.
LEMMA ChainParts == ChainIsWhole <=> LinkInv /\ SnapshotInv /\ ReaderInv
  BY DEF ChainIsWhole, LinkInv, SnapshotInv, ReaderInv, NamedAt, LinkedAt

\* The chain is as before or has one checkpoint more that extends it.
Grows(d) ==
    /\ ExtendsChain(d)
    /\ checkpoints' = Append(checkpoints, d)
    /\ task'.latest = d.id

\* No step does anything else to the chain.
LEMMA ChainKinds ==
  ASSUME TypeInv, LeaseInv, [Next]_vars
  PROVE  /\ \/ UNCHANGED checkpoints /\ task'.latest = task.latest
            \/ \E d \in Drafts : Grows(d)
         /\ \/ UNCHANGED snapshots
            \/ \E k \in DOMAIN checkpoints : snapshots' = Append(snapshots, checkpoints[k].id)
         /\ UNCHANGED memory \/ \E c \in Callers : Reads(c)
  <1>0. task \in Task
    BY DEF TypeInv, TypeOK, Task
  <1>1. ASSUME NEW c \in Callers, Lease(c)
        PROVE  /\ UNCHANGED <<checkpoints, snapshots>> /\ task'.latest = task.latest
               /\ Reads(c)
    BY <1>0, <1>1 DEF Lease, Grant, Task, Reads
  <1>2. ASSUME NEW c \in Callers, NEW p \in Phases, NEW d \in Drafts, Advance(c, p, d)
        PROVE  Grows(d) /\ UNCHANGED snapshots /\ Reads(c)
    BY <1>0, <1>2 DEF Advance, Grows, Task
  <1>3. CASE Look
    BY <1>3 DEF Look
  <1>4. CASE Change
    BY <1>4 DEF Change
  <1>5. QED BY <1>1, <1>2, <1>3, <1>4, StepKinds

\* How the chain was begun stays: every checkpoint is where it was.
LEMMA ChainBegins ==
  ASSUME TypeInv, LeaseInv, [Next]_vars
  PROVE  /\ Len(checkpoints') \in Nat /\ Len(checkpoints) \in Nat
         /\ Len(checkpoints) <= Len(checkpoints')
         /\ \A k \in 1 .. Len(checkpoints) : checkpoints'[k] = checkpoints[k]
  <1>0. checkpoints \in Seq(Checkpoint)
    BY DEF TypeInv
  <1>1. CASE UNCHANGED checkpoints
    BY <1>0, <1>1
  <1>2. ASSUME NEW d \in Drafts, Grows(d)
        PROVE  /\ Len(checkpoints') = Len(checkpoints) + 1
               /\ \A k \in 1 .. Len(checkpoints) : checkpoints'[k] = checkpoints[k]
    BY <1>0, <1>2, DraftType DEF Grows
  <1>3. Len(checkpoints) \in Nat
    BY <1>0
  <1>4. QED BY <1>1, <1>2, <1>3, ChainKinds

\* The links of the chain.
LEMMA LinkStep ==
  ASSUME TypeInv, LeaseInv, LinkInv, [Next]_vars
  PROVE  LinkInv'
  <1>0. checkpoints \in Seq(Checkpoint)
    BY DEF TypeInv
  <1>1. CASE UNCHANGED checkpoints /\ task'.latest = task.latest
    BY <1>1 DEF LinkInv, NamedAt, LinkedAt
  <1>2. ASSUME NEW d \in Drafts, Grows(d) PROVE LinkInv'
    <2> DEFINE n == Len(checkpoints)
    <2>1. /\ n \in Nat /\ DOMAIN checkpoints = 1 .. n
          /\ Len(checkpoints') = n + 1 /\ DOMAIN checkpoints' = 1 .. n + 1
          /\ checkpoints'[n + 1] = d
          /\ \A k \in 1 .. n : checkpoints'[k] = checkpoints[k]
      BY <1>0, <1>2, DraftType DEF Grows
    <2>2. /\ d.sequence = n + 1
          /\ n + 1 > 1 => d.predecessor = checkpoints[n].id
      BY <1>2, <2>1 DEF Grows, ExtendsChain
    <2>3. task'.latest = d.id
      BY <1>2 DEF Grows
    <2> HIDE DEF n
    <2>4. task'.latest = NamedAt(Len(checkpoints))'
      BY <2>1, <2>3 DEF NamedAt
    <2>5. ASSUME NEW k \in 1 .. n + 1 PROVE LinkedAt(k)'
      <3>1. CASE k = n + 1
        <4>1. k > 1 => checkpoints'[k - 1] = checkpoints[n]
          BY <2>1, <3>1
        <4>2. checkpoints'[k] = d
          BY <2>1, <3>1
        <4>3. QED BY <2>1, <2>2, <3>1, <4>1, <4>2 DEF LinkedAt
      <3>2. CASE k # n + 1
        <4>1. k \in 1 .. n
          BY <2>1, <3>2
        <4>2. checkpoints'[k] = checkpoints[k]
              /\ (k > 1 => checkpoints'[k - 1] = checkpoints[k - 1])
          BY <2>1, <4>1
        <4>3. LinkedAt(k)
          BY <2>1, <4>1 DEF LinkInv
        <4>4. QED BY <4>2, <4>3 DEF LinkedAt
      <3>3. QED BY <3>1, <3>2
    <2>6. QED BY <2>1, <2>4, <2>5 DEF LinkInv
  <1>3. QED BY <1>1, <1>2, ChainKinds

\* The snapshots' checkpoints.
LEMMA SnapshotStep ==
  ASSUME TypeInv, LeaseInv, SnapshotInv, [Next]_vars
  PROVE  SnapshotInv'
  <1>0. checkpoints \in Seq(Checkpoint) /\ snapshots \in Seq(Ids)
    BY DEF TypeInv
  <1>1. ASSUME NEW k \in DOMAIN checkpoints
        PROVE  k \in DOMAIN checkpoints' /\ checkpoints'[k] = checkpoints[k]
    <2>1. checkpoints' \in Seq(Checkpoint)
      <3>1. ASSUME NEW d \in Drafts, Grows(d) PROVE checkpoints' \in Seq(Checkpoint)
        BY <1>0, <3>1, DraftType DEF Grows
      <3>2. QED BY <1>0, <3>1, ChainKinds
    <2>2. QED BY <1>0, <2>1, ChainBegins
  <1>2. ASSUME NEW s \in DOMAIN snapshots
        PROVE  \E k \in DOMAIN checkpoints' : snapshots[s] = checkpoints'[k].id
    <2>1. PICK k \in DOMAIN checkpoints : snapshots[s] = checkpoints[k].id
      BY DEF SnapshotInv
    <2>2. QED BY <1>1, <2>1
  <1>3. CASE UNCHANGED snapshots
    BY <1>2, <1>3 DEF SnapshotInv
  <1>4. ASSUME NEW j \in DOMAIN checkpoints, snapshots' = Append(snapshots, checkpoints[j].id)
        PROVE  SnapshotInv'
    <2>1. checkpoints[j].id \in Ids
      <3>1. checkpoints[j] \in Checkpoint
        BY <1>0
      <3>2. QED BY <3>1 DEF Checkpoint
    <2> DEFINE new == checkpoints[j].id
    <2>2. new \in Ids /\ snapshots' = Append(snapshots, new) /\ new = checkpoints'[j].id
      BY <1>1, <1>4, <2>1
    <2> HIDE DEF new
    <2>3. ASSUME NEW s \in DOMAIN snapshots'
          PROVE  \E k \in DOMAIN checkpoints' : snapshots'[s] = checkpoints'[k].id
      <3>1. CASE s = Len(snapshots) + 1
        <4>1. snapshots'[s] = new
          BY <1>0, <2>2, <3>1
        <4>2. QED BY <1>1, <2>2, <4>1
      <3>2. CASE s # Len(snapshots) + 1
        <4>1. s \in DOMAIN snapshots /\ snapshots'[s] = snapshots[s]
          BY <1>0, <2>2, <3>2
        <4>2. QED BY <1>2, <4>1
      <3>3. QED BY <3>1, <3>2
    <2>4. QED BY <2>3 DEF SnapshotInv
  <1>5. QED BY <1>3, <1>4, ChainKinds

\* What callers have read of the chain is still how it begins: who reads it now
\* reads all of it, and what the others read is where it was.
LEMMA ReaderStep ==
  ASSUME TypeInv, LeaseInv, ReaderInv, LinkInv', [Next]_vars
  PROVE  ReaderInv'
  <1>0. memory \in [Callers -> Known]
    BY DEF TypeInv
  <1>1. ASSUME NEW e \in Callers, memory'[e] = memory[e]
        PROVE  /\ memory'[e].seen.checkpoints <= Len(checkpoints')
               /\ memory'[e].seen.latest = NamedAt(memory[e].seen.checkpoints)'
    <2> DEFINE n == memory[e].seen.checkpoints
    <2>1. n \in Nat
      BY <1>0 DEF Known, Seen
    <2>2. n <= Len(checkpoints) /\ memory[e].seen.latest = NamedAt(n)
      BY DEF ReaderInv
    <2>3. n <= Len(checkpoints') /\ (n # 0 => checkpoints'[n] = checkpoints[n])
      BY <2>1, <2>2, ChainBegins
    <2>4. NamedAt(n)' = NamedAt(n)
      BY <1>1, <2>3 DEF NamedAt
    <2>5. QED BY <1>1, <2>2, <2>3, <2>4
  <1>2. CASE UNCHANGED memory
    BY <1>1, <1>2 DEF ReaderInv
  <1>3. ASSUME NEW c \in Callers, Reads(c) PROVE ReaderInv'
    <2>1. ASSUME NEW e \in Callers
          PROVE  /\ memory'[e].seen.checkpoints <= Len(checkpoints')
                 /\ memory'[e].seen.latest = NamedAt(memory[e].seen.checkpoints)'
      <3>1. CASE e = c
        <4>1. memory'[e].seen = Content'
          BY <1>0, <1>3, <3>1 DEF Reads, Knows
        <4>2. /\ memory'[e].seen.checkpoints = Len(checkpoints')
              /\ memory'[e].seen.latest = task'.latest
          BY <4>1 DEF Content
        <4>3. Len(checkpoints') \in Nat
          BY ChainBegins
        <4>4. QED BY <4>2, <4>3 DEF LinkInv, NamedAt
      <3>2. CASE e # c
        <4>1. memory'[e] = memory[e]
          BY <1>0, <1>3, <3>2 DEF Reads, Knows
        <4>2. QED BY <1>1, <4>1
      <3>3. QED BY <3>1, <3>2
    <2>2. QED BY <2>1 DEF ReaderInv
  <1>4. QED BY <1>2, <1>3, ChainKinds

\* The chain is whole after every step.
LEMMA ChainStep ==
  ASSUME TypeInv, LeaseInv, ChainIsWhole, [Next]_vars
  PROVE  ChainIsWhole'
  <1>1. LinkInv /\ SnapshotInv /\ ReaderInv
    BY ChainParts
  <1>2. LinkInv' /\ SnapshotInv' /\ ReaderInv'
    BY <1>1, LinkStep, SnapshotStep, ReaderStep
  <1>3. (LinkInv /\ SnapshotInv /\ ReaderInv)' => ChainIsWhole'
    BY ChainParts, PTL
  <1>4. QED BY <1>2, <1>3

\* What callers know of the version that they hold.
LEMMA SeenStep ==
  ASSUME TypeInv, LeaseInv, VersionIdentifiesState, [Next]_vars
  PROVE  VersionIdentifiesState'
  <1>0. task \in Task /\ task.version \in Nat \ {0} /\ memory \in [Callers -> Known]
    BY DEF TypeInv, TypeOK, Task
  \* A step without a new version changes nothing that a version stands for.
  <1> DEFINE Step == /\ task'.version = task.version => Content' = Content
                     /\ task'.version >= task.version
                     /\ UNCHANGED memory \/ \E c \in Callers : Reads(c)
  <1>1. Step
    <2>1. CASE Look
      BY <1>0, <2>1 DEF Look, Content
    <2>2. CASE Change
      BY <1>0, <2>2 DEF Change
    <2>3. ASSUME NEW c \in Callers, Lease(c) PROVE Step
      BY <1>0, <2>3 DEF Lease, Grant, Task, Reads
    <2>4. ASSUME NEW c \in Callers, NEW p \in Phases, NEW d \in Drafts, Advance(c, p, d)
          PROVE  Step
      BY <1>0, <2>4 DEF Advance, Task
    <2> HIDE DEF Step
    <2>5. QED BY <2>1, <2>2, <2>3, <2>4, StepKinds
  <1>2. ASSUME NEW d \in Callers, memory'[d] = memory[d], memory[d].version = task'.version
        PROVE  memory[d].seen = Content'
    <2>1. memory[d].version \in Nat /\ memory[d].version <= task.version
      BY <1>0 DEF TypeInv, TypeOK, Known
    <2>2. task'.version = task.version
      BY <1>0, <1>1, <1>2, <2>1
    <2>3. QED BY <1>1, <1>2, <2>2 DEF VersionIdentifiesState
  <1>3. CASE UNCHANGED memory
    BY <1>2, <1>3 DEF VersionIdentifiesState
  <1>4. ASSUME NEW c \in Callers, Reads(c) PROVE VersionIdentifiesState'
    <2>1. ASSUME NEW d \in Callers, memory'[d].version = task'.version
          PROVE  memory'[d].seen = Content'
      <3>1. CASE d = c
        BY <1>0, <1>4, <3>1 DEF Reads, Knows
      <3>2. CASE d # c
        <4>1. memory'[d] = memory[d]
          BY <1>0, <1>4, <3>2 DEF Reads, Knows
        <4>2. QED BY <1>2, <2>1, <4>1
      <3>3. QED BY <3>1, <3>2
    <2>2. QED BY <2>1 DEF VersionIdentifiesState
  <1>5. QED BY <1>1, <1>3, <1>4

-----------------------------------------------------------------------------
(* The theorems                                                            *)

\* The invariant holds when a task is created.
LEMMA Initially == Init => IInv
  <1> SUFFICES ASSUME Init PROVE IInv
    OBVIOUS
  <1> USE DEF Init
  <1>1. task \in Task /\ NoBinding \in Bindings \cup {NoBinding}
    BY DEF Task, Controls, Results, Deliveries, NoLease
  <1>2. /\ checkpoints \in Seq(Checkpoint) /\ snapshots \in Seq(Ids)
        /\ Len(snapshots) <= MaxSnapshots /\ completed \in Seq(Completion)
    OBVIOUS
  <1>3. Content \in Seen
    BY <1>1 DEF Content, Seen, Task
  <1>4. memory \in [Callers -> Known]
    BY <1>3 DEF Known
  <1>5. TypeOK
    <2>1. \A c \in Callers : memory[c].version <= task.version /\ memory[c].token <= tokens
      OBVIOUS
    <2>2. task.control = "ready" /\ task.lease.state = "none" /\ tokens \in 0 .. MaxTokens
      BY DEF NoLease
    <2>3. QED BY <1>1, <1>2, <2>1, <2>2 DEF TypeOK, Task
  <1>6. LeaseInv /\ ChainIsWhole /\ PhaseInv /\ VersionIdentifiesState
    BY DEF LeaseInv, ChainIsWhole, PhaseInv, VersionIdentifiesState, Content
  <1>7. QED BY <1>2, <1>4, <1>5, <1>6 DEF IInv, TypeInv

\* The inductive invariant holds in every reachable state of the task aggregate.
THEOREM Invariance == Spec => []IInv
  <1>1. IInv /\ [Next]_vars => IInv'
    BY StepsLead, TypeStep, ChainStep, PhaseStep, SeenStep DEF IInv
  <1>2. QED BY Initially, <1>1, PTL DEF Spec

\* The records of the aggregate have their types; only a running task has a
\* lease, and its token is the last one given out.
THEOREM TypeCorrect == Spec => []TypeOK
  <1>1. IInv => TypeOK
    BY DEF IInv, TypeInv
  <1>2. QED BY Invariance, <1>1, PTL

\* Whoever holds the present version of the task, for any number of callers and
\* any history of leases, has seen everything that the task is but its lease.
THEOREM VersionsIdentify == Spec => []VersionIdentifiesState
  <1>1. IInv => VersionIdentifiesState
    BY DEF IInv
  <1>2. QED BY Invariance, <1>1, PTL

\* The checkpoints of a task are one chain without gaps or forks, whatever its
\* callers present and whoever replaced whom: result snapshots point into it,
\* and what any caller has read of it is still how it begins.
THEOREM OneChain == Spec => []ChainIsWhole
  <1>1. IInv => ChainIsWhole
    BY DEF IInv
  <1>2. QED BY Invariance, <1>1, PTL

-----------------------------------------------------------------------------
(* The refinement                                                          *)

\* The phase that the log has reached is the phase of the task.
LEMMA ReachedIsPhase == IInv => Fenced!Reached = task.phase
  BY DEF IInv, PhaseInv, Fenced!Reached

\* Every step of the aggregate is a step of the log or leaves it as it is.
LEMMA StepsRefine ==
  ASSUME IInv, [Next]_vars
  PROVE  [Fenced!Next]_(Fenced!vars)
  <1> USE DEF Fenced!vars
  <1>0. task \in Task /\ checkpoints \in Seq(Checkpoint) /\ tokens \in Nat /\ TypeInv /\ LeaseInv
    BY DEF IInv, TypeInv, TypeOK, Task
  <1>1. CASE Look
    BY <1>1 DEF Look
  <1>2. CASE Change
    BY <1>2 DEF Change, Fenced!Next, Fenced!Close
  <1>3. ASSUME NEW c \in Callers, Lease(c) PROVE Fenced!Grant
    BY <1>0, <1>3 DEF Lease, Grant, Task, Fenced!Grant
  <1>4. ASSUME NEW c \in Callers, NEW p \in Phases, NEW d \in Drafts, Advance(c, p, d) PROVE Fenced!Complete(p)
    <2>1. task.control = "running" /\ task'.control = "running" /\ tokens > 0
          /\ UNCHANGED tokens /\ memory[c].token = tokens /\ p > task.phase
      BY <1>0, <1>4, WriterHoldsNewest DEF Advance, Task
    <2>2. completed' = Append(completed, [epoch |-> tokens, phase |-> p])
      BY <1>4, <2>1 DEF Advance
    <2>3. QED BY <2>1, <2>2, ReachedIsPhase DEF Fenced!Complete
  <1>5. QED BY <1>0, <1>1, <1>2, <1>3, <1>4, StepKinds DEF Fenced!Next

\* The task aggregate implements a log fenced by the tokens of its leases: a
\* holder that was replaced completes nothing, whenever its lease ran out.
THEOREM Refinement == Spec => ImplementsFencedLog
  <1>1. Init => Fenced!Init
    BY DEF Init, Fenced!Init
  <1>2. QED
    BY <1>1, Invariance, StepsRefine, PTL DEF Spec, ImplementsFencedLog, Fenced!Spec
=============================================================================
