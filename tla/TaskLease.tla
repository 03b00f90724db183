----------------------------- MODULE TaskLease -----------------------------
(***************************************************************************)
(* The task aggregate: TaskService with one Task, its checkpoints, its     *)
(* result snapshots and the fencing tokens of its execution leases.        *)
(*                                                                         *)
(* Callers are the processes that work on the task.  Each works from what  *)
(* it last saw, the version that a call returned or that it read, and the  *)
(* permit it was given.  Leases run out while their holders go on, so any  *)
(* call may come from a holder that has been replaced.  A lease id is as   *)
(* fresh as its fencing token: the token stands for both.                  *)
(*                                                                         *)
(* A checkpoint is made by its caller, who may say in it what it likes:    *)
(* Drafts.  Its kind, phase and scope are left out; nothing reads them.    *)
(***************************************************************************)
EXTENDS Integers, Sequences, FiniteSets

CONSTANTS Callers,        \* processes that call the service
          Bindings,       \* input bindings that a caller may present
          Phases,         \* ranks in _PHASE_ORDER of the phases gone through
          Ids,            \* ids that callers give their checkpoints
          LeaseTicks,     \* LEASE_SECONDS, in steps of the clock
          MaxTokens,      \* bound of the model: leases granted
          MaxSnapshots    \* bound of the model: result snapshots

ASSUME TaskAssumption ==
    /\ Phases \subseteq 1 .. 6
    /\ LeaseTicks \in Nat \ {0}
    /\ MaxTokens \in Nat
    /\ MaxSnapshots \in Nat

VARIABLES task,         \* the Task record of the service
          checkpoints,  \* its checkpoints, in order
          snapshots,    \* the id of the checkpoint each result snapshot names
          tokens,       \* the last fencing token given out
          unknown,      \* the task is among the unknown attempts
          lapsed,       \* the clock is past recovery_expires_at
          memory,       \* what each caller knows
          completed     \* the phases completed, and under which tokens; read by
                        \* properties only

vars == <<task, checkpoints, snapshots, tokens, unknown, lapsed, memory, completed>>

Created         == 0
InputNormalized == 2

Controls   == {"ready", "running", "paused", "terminated"}
\* The final states but "unknown" are handled alike.
Results    == {"pending", "complete", "unknown"}
Deliveries == {"not_ready", "pending"}

\* left: what the clock leaves of the lease until expires_at.
NoLease   == [state |-> "none", token |-> 0, left |-> 0]
NoBinding == "no_binding"
NoId      == "no_checkpoint"

\* A checkpoint names its predecessor.  What the first one names is left out:
\* nothing reads it.
Drafts == {d \in [id : Ids, sequence : 1 .. Cardinality(Phases),
                  predecessor : Ids \cup {NoId}] :
              d.sequence = 1 <=> d.predecessor = NoId}

\* What a version of the task stands for: all of it but the lease.
Content == [control |-> task.control, phase |-> task.phase, result |-> task.result,
            delivery |-> task.delivery, binding |-> task.binding, latest |-> task.latest,
            checkpoints |-> Len(checkpoints), snapshots |-> Len(snapshots)]

-----------------------------------------------------------------------------
(* Checks and updates that the operations share                            *)

\* is_valid_at
Valid == task.lease.state = "held" /\ task.lease.left > 0

\* _require_lease: the current lease, whether or not it still is valid.
RequireLease(c) == task.lease.state # "none" /\ task.lease.token = memory[c].token

\* The version alone, which is all that a task that does not run asks for.
\* Mutant of RequireWrite: it admits every write.
RequireVersion(c) == task.version = memory[c].version

\* _require_write
RequireWrite(c) == /\ task.version = memory[c].version
                   /\ RequireLease(c) /\ Valid

NewLease == [state |-> "held", token |-> tokens + 1, left |-> LeaseTicks]

\* The caller sees the task as it is after the step, holding this token.
Knows(c, token) ==
    memory' = [memory EXCEPT ![c] = [version |-> task'.version, token |-> token,
                                     seen |-> Content']]

Returned(c) == Knows(c, memory[c].token)

-----------------------------------------------------------------------------
(* The operations of the service                                           *)

\* get: any caller may look at the task at any time.
Get(c) == /\ UNCHANGED <<task, checkpoints, snapshots, tokens, unknown, lapsed, completed>>
          /\ Returned(c)

Grant(c) ==
    /\ tokens < MaxTokens
    /\ tokens' = tokens + 1
    /\ task' = [task EXCEPT !.control = "running", !.lease = NewLease, !.version = @ + 1]
    /\ UNCHANGED <<checkpoints, snapshots, lapsed, completed>>
    /\ Knows(c, tokens + 1)

AcquireExecution(c) == task.control = "ready" /\ Grant(c) /\ UNCHANGED unknown

Resume(c, confirm) ==
    /\ \/ task.control = "paused"
       \/ task.control = "running" /\ ~Valid
    /\ unknown => confirm
    /\ Grant(c)
    /\ unknown' = FALSE

RenewLease(c) ==
    /\ RequireLease(c) /\ Valid
    /\ task' = [task EXCEPT !.lease.left = LeaseTicks]
    /\ UNCHANGED <<checkpoints, snapshots, tokens, unknown, lapsed, memory, completed>>

\* A lease that has run out can still be released; the task stays "running".
ReleaseExecution(c) ==
    /\ RequireLease(c)
    /\ task' = [task EXCEPT !.lease.state = "released"]
    /\ UNCHANGED <<checkpoints, snapshots, tokens, unknown, lapsed, memory, completed>>

\* Mutant: the predecessor need only be some checkpoint of the task.
BranchesOff(draft) ==
    /\ draft.sequence = Len(checkpoints) + 1
    /\ draft.sequence > 1 => \E k \in DOMAIN checkpoints :
                                draft.predecessor = checkpoints[k].id

\* The checkpoint numbers itself after the last one and names it.  What it
\* calls itself is not looked at.
ExtendsChain(draft) ==
    /\ draft.sequence = Len(checkpoints) + 1
    /\ draft.sequence > 1 => draft.predecessor = checkpoints[Len(checkpoints)].id

CompletePhase(c, target, draft) ==
    /\ RequireWrite(c)
    /\ target > task.phase
    /\ ExtendsChain(draft)
    /\ checkpoints' = Append(checkpoints, draft)
    /\ task' = [task EXCEPT !.phase = target, !.latest = draft.id, !.version = @ + 1]
    /\ completed' = Append(completed, [epoch |-> memory[c].token, phase |-> target])
    /\ lapsed' = FALSE
    /\ UNCHANGED <<snapshots, tokens, unknown>>
    /\ Returned(c)

\* Mutant: binding the input is no new version.
BindInputInPlace(c, b) ==
    /\ task.binding = NoBinding /\ task.phase = InputNormalized
    /\ task' = [task EXCEPT !.binding = b]
    /\ UNCHANGED <<checkpoints, snapshots, tokens, unknown, lapsed, completed>>
    /\ Returned(c)

\* Neither lease nor version is asked for.
BindInput(c, b) ==
    /\ task.binding = NoBinding /\ task.phase = InputNormalized
    /\ task' = [task EXCEPT !.binding = b, !.version = @ + 1]
    /\ UNCHANGED <<checkpoints, snapshots, tokens, unknown, lapsed, completed>>
    /\ Returned(c)

Pause(c, result) ==
    /\ RequireWrite(c)
    /\ task.control = "running"    \* validate_control_transition
    /\ task' = [task EXCEPT !.control = "paused", !.result = result,
                            !.lease = NoLease, !.version = @ + 1]
    /\ unknown' = (unknown \/ result = "unknown")
    /\ UNCHANGED <<checkpoints, snapshots, tokens, lapsed, completed>>
    /\ Returned(c)

\* Mutant: the lease of the last holder stays with the terminated task.
TerminateWithLease(c) ==
    /\ task.control # "terminated"
    /\ IF task.control = "running" THEN RequireWrite(c) ELSE RequireVersion(c)
    /\ task' = [task EXCEPT !.control = "terminated", !.version = @ + 1]
    /\ UNCHANGED <<checkpoints, snapshots, tokens, unknown, lapsed, completed>>
    /\ Returned(c)

\* A task that does not run is terminated by whoever knows its version.
Terminate(c) ==
    /\ task.control # "terminated"
    /\ IF task.control = "running" THEN RequireWrite(c) ELSE RequireVersion(c)
    /\ task' = [task EXCEPT !.control = "terminated", !.lease = NoLease,
                            !.version = @ + 1]
    /\ UNCHANGED <<checkpoints, snapshots, tokens, unknown, lapsed, completed>>
    /\ Returned(c)

\* Neither lease nor version is asked for, and any control state will do.
CreateResultSnapshot(c, result, k) ==
    /\ Len(snapshots) < MaxSnapshots
    /\ k \in DOMAIN checkpoints
    /\ snapshots' = Append(snapshots, checkpoints[k].id)
    /\ task' = [task EXCEPT !.result = result, !.delivery = "pending", !.version = @ + 1]
    /\ UNCHANGED <<checkpoints, tokens, unknown, lapsed, memory, completed>>

\* recoverability, the query
Recoverability ==
    CASE task.control = "terminated" ->
             IF task.delivery = "pending" THEN "retry_pending" ELSE "not_applicable"
      [] task.control # "terminated" /\ lapsed -> "expired"
      [] task.control = "running" /\ ~lapsed /\ Valid -> "running"
      [] OTHER -> "recoverable"

-----------------------------------------------------------------------------
(* Time                                                                    *)

LeaseRunsDown ==
    /\ Valid
    /\ task' = [task EXCEPT !.lease.left = @ - 1]
    /\ UNCHANGED <<checkpoints, snapshots, tokens, unknown, lapsed, memory, completed>>

RecoveryLapses ==
    /\ ~lapsed
    /\ lapsed' = TRUE
    /\ UNCHANGED <<task, checkpoints, snapshots, tokens, unknown, memory, completed>>

-----------------------------------------------------------------------------
(* create_task, and the specification                                      *)

Init ==
    /\ task = [control |-> "ready", phase |-> Created, result |-> "pending",
               delivery |-> "not_ready", version |-> 1, lease |-> NoLease,
               binding |-> NoBinding, latest |-> NoId]
    /\ checkpoints = <<>>
    /\ snapshots = <<>>
    /\ tokens = 0
    /\ unknown = FALSE
    /\ lapsed = FALSE
    /\ memory = [c \in Callers |-> [version |-> 1, token |-> 0, seen |-> Content]]
    /\ completed = <<>>

Next ==
    \/ \E c \in Callers :
          \/ Get(c)
          \/ AcquireExecution(c)
          \/ \E confirm \in BOOLEAN : Resume(c, confirm)
          \/ RenewLease(c)
          \/ ReleaseExecution(c)
          \/ \E p \in Phases, d \in Drafts : CompletePhase(c, p, d)
          \/ \E b \in Bindings : BindInput(c, b)
          \/ \E r \in Results : Pause(c, r)
          \/ Terminate(c)
          \/ \E r \in Results, k \in DOMAIN checkpoints : CreateResultSnapshot(c, r, k)
    \/ LeaseRunsDown
    \/ RecoveryLapses

Spec == Init /\ [][Next]_vars

-----------------------------------------------------------------------------
(* Properties                                                              *)

\* The values of the aggregate: only a running task has a lease, and its
\* token is the last one given out; no caller knows a version or a token that
\* is yet to come.
TypeOK ==
    /\ task \in [control : Controls, phase : {Created} \cup Phases, result : Results,
                 delivery : Deliveries, version : Nat \ {0},
                 lease : [state : {"none", "held", "released"}, token : 0 .. tokens,
                          left : 0 .. LeaseTicks],
                 binding : Bindings \cup {NoBinding}, latest : Ids \cup {NoId}]
    /\ (task.control = "running") <=> (task.lease.state # "none")
    /\ task.control = "running" => task.lease.token = tokens
    /\ tokens \in 0 .. MaxTokens
    /\ unknown \in BOOLEAN /\ lapsed \in BOOLEAN
    /\ Len(snapshots) <= MaxSnapshots
    /\ \A c \in Callers : memory[c].version <= task.version /\ memory[c].token <= tokens

\* Optimistic concurrency does what it is for: a caller that holds the present
\* version has seen all of the present task but its lease, whichever of the
\* operations, with or without a lease of their own, came in between.
VersionIdentifiesState ==
    \A c \in Callers : memory[c].version = task.version => memory[c].seen = Content

\* The checkpoints are one gapless chain, whatever its callers present: each
\* numbers itself after the one before it and names it, the task names the last
\* one, and every result snapshot names one of them.  There is no fork either:
\* what any caller has read of the chain, however long ago and whoever has
\* replaced it since, is still how the chain begins.
ChainIsWhole ==
    LET Named(n) == IF n = 0 THEN NoId ELSE checkpoints[n].id
    IN /\ task.latest = Named(Len(checkpoints))
       /\ \A k \in DOMAIN checkpoints :
             /\ checkpoints[k].sequence = k
             /\ k > 1 => checkpoints[k].predecessor = checkpoints[k - 1].id
       /\ \A s \in DOMAIN snapshots : \E k \in DOMAIN checkpoints :
             snapshots[s] = checkpoints[k].id
       /\ \A c \in Callers :
             /\ memory[c].seen.checkpoints <= Len(checkpoints)
             /\ memory[c].seen.latest = Named(memory[c].seen.checkpoints)

\* A holder that was replaced leaves no trace: phases are completed in the
\* epochs of the fencing tokens, in order, by the holder of the last token
\* only, and a terminated task takes no new holder and no further phase.
Fenced == INSTANCE FencedLog
          WITH epoch  <- tokens,
               log    <- completed,
               closed <- task.control = "terminated"

ImplementsFencedLog == Fenced!Spec
=============================================================================
