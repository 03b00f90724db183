----------------------------- MODULE ReviewRun -----------------------------
(***************************************************************************)
(* One review task from `review` through any number of `resume` commands.  *)
(*                                                                         *)
(* Every command is a process of its own, one after the other; a process   *)
(* may die, by a crash or an exception, before each of its steps.  What it *)
(* leaves behind is in the SQLite store: the budget's reservations, the    *)
(* command, the pending model calls, the checkpoint and the result.        *)
(* A work unit makes at most one model call per run, so a call is named by *)
(* its run and its unit.                                                   *)
(***************************************************************************)
EXTENDS Naturals, FiniteSets

CONSTANTS UnitCount,  \* work units of the plan, in the order of their ranks
          RunCount    \* the review and at most RunCount - 1 resumes (a bound)

ASSUME ReviewRunAssumption ==
    /\ UnitCount \in Nat \ {0}
    /\ RunCount \in Nat \ {0}

Units == 1 .. UnitCount
Runs  == 1 .. RunCount
Calls == Runs \X Units

VARIABLES
    account,     \* the budget account is in the store
    command,     \* review_commands has the task
    hold,        \* state of each call's reservation in the stored budget
    row,         \* review_pending_model_calls.terminal_state of each call
    checkpoint,  \* review_checkpoints has the task
    completed,   \* what the checkpoint says of each completed unit
    unknown,     \* the unknown units of the checkpoint
    stored,      \* result_state in review_runs
    pc,          \* where the process stands
    run,         \* its number, 0 before the review
    confirmed,   \* its confirm_unknown_retry
    toSettle,    \* recovered calls whose reservation it has not settled yet
    unit,        \* the unit it is at
    executions,  \* the execution of each unit that it loaded or made
    answer,      \* the outcome of the model call it is at, until it is recorded
    saveFailed,  \* the runs that failed to save a checkpoint
    sent         \* the calls that reached the model provider

vars == <<account, command, hold, row, checkpoint, completed, unknown, stored,
          pc, run, confirmed, toSettle, unit, executions, answer, saveFailed,
          sent>>

saved   == <<checkpoint, completed, unknown>>
store   == <<account, command, hold, row, saved, stored>>
inputs  == <<run, confirmed>>
memory  == <<toSettle, unit, executions, answer>>
process == <<inputs, memory, saveFailed>>

\* "reviewed": the call succeeded and the unit is covered in full; "degraded":
\* WorkUnitExecutionState.PARTIAL, or a success with degraded coverage.
Completions == {"none", "reviewed", "degraded", "failed"}
Executions  == Completions \cup {"unknown"}
Answers     == {"succeeded", "failed_known", "unknown"}
Holds       == {"none", "active", "released", "known", "uncertain"}
Rows        == {"none", "open"} \cup Answers
Results     == {"none", "complete", "partial", "unknown"}

PCs == {"idle", "create", "recover", "settle", "start", "load", "unit",
        "reserved", "begun", "sent", "settled", "save", "finish", "ended"}

Alive == pc \notin {"idle", "ended"}

\* The model call of the unit the process is at.
Call == <<run, unit>>

Empty == [u \in Units |-> "none"]

-----------------------------------------------------------------------------
(* Starting and ending a run                                               *)

Begin(l, confirm) ==
    /\ run' = run + 1
    /\ confirmed' = confirm
    /\ pc' = l
    /\ UNCHANGED <<store, memory, saveFailed, sent>>

\* The process ends, and its memory goes with it.
End ==
    /\ pc' = "ended"
    /\ toSettle' = {}
    /\ unit' = 1
    /\ executions' = Empty
    /\ answer' = "none"
    /\ UNCHANGED <<inputs, saveFailed, sent>>

\* ConfiguredRuntime.review.
Review == pc = "idle" /\ Begin("create", FALSE)

\* It first creates the budget account.
CreateAccount ==
    /\ pc = "create"
    /\ account' = TRUE
    /\ pc' = "start"
    /\ UNCHANGED <<command, hold, row, saved, stored, process, sent>>

\* ConfiguredRuntime.resume: without a stored command or account it raises
\* before it has changed anything.
Resume(confirm) ==
    /\ pc = "ended"
    /\ run < RunCount
    /\ command /\ account
    /\ Begin("recover", confirm)

\* Mutant: the calls are only listed.
ListPending ==
    /\ pc = "recover"
    /\ toSettle' = {c \in Calls : row[c] = "open"}
    /\ pc' = "settle"
    /\ UNCHANGED <<store, inputs, unit, executions, answer, saveFailed, sent>>

\* recover_pending_model_calls: the calls without a terminal state become
\* unknown.
RecoverPending ==
    /\ pc = "recover"
    /\ toSettle' = {c \in Calls : row[c] = "open"}
    /\ row' = [c \in Calls |-> IF row[c] = "open" THEN "unknown" ELSE row[c]]
    /\ pc' = "settle"
    /\ UNCHANGED <<account, command, hold, saved, stored, inputs, unit,
                   executions, answer, saveFailed, sent>>

\* Mutant: the reservation of a recovered call is given back.
ReleaseRecovered(c) ==
    /\ pc = "settle"
    /\ c \in toSettle
    /\ toSettle' = toSettle \ {c}
    /\ hold' = [hold EXCEPT ![c] = IF @ = "active" THEN "released" ELSE @]
    /\ UNCHANGED <<account, command, row, saved, stored, pc, inputs, unit,
                   executions, answer, saveFailed, sent>>

\* resume charges the whole reservation of a recovered call; one that is
\* settled already is left as it is.
SettleRecovered(c) ==
    /\ pc = "settle"
    /\ c \in toSettle
    /\ toSettle' = toSettle \ {c}
    /\ hold' = [hold EXCEPT ![c] = IF @ = "active" THEN "uncertain" ELSE @]
    /\ UNCHANGED <<account, command, row, saved, stored, pc, inputs, unit,
                   executions, answer, saveFailed, sent>>

\* Mutant: only the checkpoint is asked.
HasUnknownUnit == unknown # {}

\* has_unknown_execution.
HasUnknownExecution ==
    \/ \E c \in Calls : row[c] \in {"open", "unknown"}
    \/ unknown # {}

\* can_resume refuses a task with unknown calls unless the user confirmed.
CheckResume ==
    /\ pc = "settle"
    /\ toSettle = {}
    /\ IF HasUnknownExecution /\ ~confirmed
       THEN End
       ELSE pc' = "start" /\ UNCHANGED <<process, sent>>
    /\ UNCHANGED store

\* LocalDiffReviewService.start.
SaveCommand ==
    /\ pc = "start"
    /\ command' = TRUE
    /\ pc' = "load"
    /\ UNCHANGED <<account, hold, row, saved, stored, process, sent>>

\* Mutant: every unit is executed again.
ForgetCheckpoint ==
    /\ pc = "load"
    /\ checkpoint
    /\ pc' = "unit"
    /\ UNCHANGED <<store, process, sent>>

\* load_checkpoint finds a valid checkpoint.  One that is expired, corrupt or
\* bound to other inputs raises, which ends the run like a crash here.
LoadCheckpoint ==
    /\ pc = "load"
    /\ checkpoint
    /\ executions' = completed
    /\ pc' = "unit"
    /\ UNCHANGED <<store, inputs, toSettle, unit, answer, saveFailed, sent>>

\* checkpoint_not_found: the first run makes the checkpoint "input_normalized"
\* or goes on without it.
MakeCheckpoint ==
    /\ pc = "load"
    /\ ~checkpoint
    /\ run = 1
    /\ \/ checkpoint' = TRUE /\ UNCHANGED saveFailed
       \/ saveFailed' = saveFailed \cup {run} /\ UNCHANGED checkpoint
    /\ pc' = "unit"
    /\ UNCHANGED <<account, command, hold, row, completed, unknown, stored,
                   inputs, memory, sent>>

\* On a resume it raises.
MissCheckpoint ==
    /\ pc = "load"
    /\ ~checkpoint
    /\ run > 1
    /\ End
    /\ UNCHANGED store

-----------------------------------------------------------------------------
(* The loop over the work units                                            *)

AtUnit == pc = "unit" /\ unit \in Units

\* A unit of the loaded checkpoint is reused.
SkipCompleted ==
    /\ AtUnit
    /\ executions[unit] # "none"
    /\ unit' = unit + 1
    /\ UNCHANGED <<store, pc, inputs, toSettle, executions, answer, saveFailed,
                   sent>>

\* should_stop: a pause was requested within this process.
StopAtBoundary ==
    /\ AtUnit
    /\ executions[unit] = "none"
    /\ pc' = "finish"
    /\ UNCHANGED <<store, process, sent>>

\* The loop is over.
LeaveLoop ==
    /\ pc = "unit"
    /\ unit = UnitCount + 1
    /\ pc' = "finish"
    /\ UNCHANGED <<store, process, sent>>

Executed(e) == executions' = [executions EXCEPT ![unit] = e]

\* The executor ends before a reservation: a tool that was needed failed
\* (PARTIAL), the request could not be prepared or is unsafe (FAILED), its
\* trace artifact could not be written (PARTIAL), the budget denied it (FAILED).
ExecuteWithoutCall ==
    /\ AtUnit
    /\ executions[unit] = "none"
    /\ \E e \in {"degraded", "failed"} : Executed(e)
    /\ pc' = "save"
    /\ UNCHANGED <<store, inputs, toSettle, unit, answer, saveFailed, sent>>

\* prepare_reservation, persisted with the budget.
Reserve ==
    /\ AtUnit
    /\ executions[unit] = "none"
    /\ hold' = [hold EXCEPT ![Call] = "active"]
    /\ pc' = "reserved"
    /\ UNCHANGED <<account, command, row, saved, stored, process, sent>>

\* begin_model_call writes the pending row.
BeginCall ==
    /\ pc = "reserved"
    /\ row' = [row EXCEPT ![Call] = "open"]
    /\ pc' = "begun"
    /\ UNCHANGED <<account, command, hold, saved, stored, process, sent>>

\* begin_model_call raises: the reservation is released, the unit PARTIAL.
BeginCallFails ==
    /\ pc = "reserved"
    /\ hold' = [hold EXCEPT ![Call] = "released"]
    /\ Executed("degraded")
    /\ pc' = "save"
    /\ UNCHANGED <<account, command, row, saved, stored, inputs, toSettle, unit,
                   answer, saveFailed, sent>>

\* send_prepared: the request leaves.
Send ==
    /\ pc = "begun"
    /\ sent' = sent \cup {Call}
    /\ pc' = "sent"
    /\ UNCHANGED <<store, process>>

\* The provider reports that no request was sent; _settle releases.
NotSent ==
    /\ pc = "begun"
    /\ answer' = "failed_known"
    /\ hold' = [hold EXCEPT ![Call] = "released"]
    /\ pc' = "settled"
    /\ UNCHANGED <<account, command, row, saved, stored, inputs, toSettle, unit,
                   executions, saveFailed, sent>>

\* Mutant: a request of unknown outcome is sent again by itself.
RetryUnknown ==
    /\ pc = "sent"
    /\ \/ \E a \in Answers \ {"unknown"}, h \in {"known", "uncertain"} :
            /\ answer' = a
            /\ hold' = [hold EXCEPT ![Call] = h]
            /\ pc' = "settled"
       \/ pc' = "begun" /\ UNCHANGED <<answer, hold>>
    /\ UNCHANGED <<account, command, row, saved, stored, inputs, toSettle, unit,
                   executions, saveFailed, sent>>

\* The outcome of the request and _settle: trusted usage is charged as known,
\* the usage of an unknown outcome never is.
Answer ==
    /\ pc = "sent"
    /\ \E a \in Answers, h \in {"known", "uncertain"} :
        /\ a = "unknown" => h = "uncertain"
        /\ answer' = a
        /\ hold' = [hold EXCEPT ![Call] = h]
    /\ pc' = "settled"
    /\ UNCHANGED <<account, command, row, saved, stored, inputs, toSettle, unit,
                   executions, saveFailed, sent>>

\* Mutant: whatever was answered counts as reviewed.
AnyAnswer(a) == IF a = "unknown" THEN {"unknown"} ELSE {"reviewed", "degraded"}

\* The execution states the executor derives from an outcome: a response that
\* is invalid or unsafe degrades the coverage.
ExecutionsOf(a) ==
    CASE a = "succeeded"    -> {"reviewed", "degraded"}
      [] a = "failed_known" -> {"failed"}
      [] a = "unknown"      -> {"unknown"}

\* finish_model_call writes the terminal state.
FinishCall ==
    /\ pc = "settled"
    /\ row' = [row EXCEPT ![Call] = answer]
    /\ \E e \in ExecutionsOf(answer) : Executed(e)
    /\ answer' = "none"
    /\ pc' = "save"
    /\ UNCHANGED <<account, command, hold, saved, stored, inputs, toSettle, unit,
                   saveFailed, sent>>

\* Mutant: an unknown execution is completed as well.
RecordAnyExecution ==
    /\ checkpoint' = TRUE
    /\ completed' = [completed EXCEPT ![unit] = executions[unit]]
    /\ UNCHANGED unknown

\* save_checkpoint merges the unit into the stored completed or unknown units.
RecordExecution ==
    /\ checkpoint' = TRUE
    /\ IF executions[unit] = "unknown"
       THEN unknown' = unknown \cup {unit} /\ UNCHANGED completed
       ELSE /\ completed' = [completed EXCEPT ![unit] = executions[unit]]
            /\ UNCHANGED unknown

\* Mutant: an unknown execution does not stop the run.
NextUnit == pc' = "unit" /\ unit' = unit + 1

\* The loop goes on after the unit, and stops after an unknown execution.
AfterUnit ==
    IF executions[unit] = "unknown"
    THEN pc' = "finish" /\ UNCHANGED unit
    ELSE pc' = "unit" /\ unit' = unit + 1

SaveCheckpoint ==
    /\ pc = "save"
    /\ \/ RecordExecution /\ UNCHANGED saveFailed
       \/ saveFailed' = saveFailed \cup {run} /\ UNCHANGED saved
    /\ AfterUnit
    /\ UNCHANGED <<account, command, hold, row, stored, inputs, toSettle,
                   executions, answer, sent>>

-----------------------------------------------------------------------------
(* The result                                                              *)

ResultOfCoverage ==
    IF \E u \in Units : executions[u] = "unknown" THEN "unknown"
    ELSE IF \A u \in Units : executions[u] = "reviewed" THEN "complete"
    ELSE "partial"

\* Mutant: a checkpoint that was not saved does not matter.
ResultDespite(traceFailed) ==
    IF traceFailed THEN "partial" ELSE ResultOfCoverage

\* The result_state of the run: a failed checkpoint makes it partial, a failed
\* trace too, except that a resume lets an unknown execution prevail over it.
ResultOf(traceFailed) ==
    IF run \in saveFailed THEN "partial"
    ELSE IF traceFailed /\ (run = 1 \/ ResultOfCoverage # "unknown")
         THEN "partial"
         ELSE ResultOfCoverage

\* Consolidate, snapshot, report, deliver and save the result.
Finish ==
    /\ pc = "finish"
    /\ \E traceFailed \in BOOLEAN : stored' = ResultOf(traceFailed)
    /\ End
    /\ UNCHANGED <<account, command, hold, row, saved>>

\* The process dies, or an exception ends it.
Crash ==
    /\ Alive
    /\ End
    /\ UNCHANGED store

-----------------------------------------------------------------------------
Init ==
    /\ account = FALSE
    /\ command = FALSE
    /\ hold = [c \in Calls |-> "none"]
    /\ row = [c \in Calls |-> "none"]
    /\ checkpoint = FALSE
    /\ completed = Empty
    /\ unknown = {}
    /\ stored = "none"
    /\ pc = "idle"
    /\ run = 0
    /\ confirmed = FALSE
    /\ toSettle = {}
    /\ unit = 1
    /\ executions = Empty
    /\ answer = "none"
    /\ saveFailed = {}
    /\ sent = {}

Step ==
    \/ CreateAccount
    \/ RecoverPending
    \/ \E c \in Calls : SettleRecovered(c)
    \/ CheckResume
    \/ SaveCommand
    \/ LoadCheckpoint
    \/ MakeCheckpoint
    \/ MissCheckpoint
    \/ SkipCompleted
    \/ StopAtBoundary
    \/ LeaveLoop
    \/ ExecuteWithoutCall
    \/ Reserve
    \/ BeginCall
    \/ BeginCallFails
    \/ Send
    \/ NotSent
    \/ Answer
    \/ FinishCall
    \/ SaveCheckpoint
    \/ Finish

Next ==
    \/ Review
    \/ \E confirm \in BOOLEAN : Resume(confirm)
    \/ Step
    \/ Crash

Spec == Init /\ [][Next]_vars

\* A running process goes on: no step waits for anything but the answer to a
\* request, which the client bounds by its time-out.
FairSpec == Spec /\ WF_vars(Step)

-----------------------------------------------------------------------------
(* Properties                                                              *)

\* The types of the variables.
TypeOK ==
    /\ account \in BOOLEAN /\ command \in BOOLEAN
    /\ hold \in [Calls -> Holds]
    /\ row \in [Calls -> Rows]
    /\ checkpoint \in BOOLEAN
    /\ completed \in [Units -> Completions]
    /\ unknown \in SUBSET Units
    /\ stored \in Results
    /\ pc \in PCs
    /\ run \in 0 .. RunCount
    /\ confirmed \in BOOLEAN
    /\ toSettle \in SUBSET Calls
    /\ unit \in 1 .. UnitCount + 1
    /\ executions \in [Units -> Executions]
    /\ answer \in Answers \cup {"none"}
    /\ saveFailed \in SUBSET Runs
    /\ sent \in SUBSET Calls

\* Whatever dies and whoever resumes, the tokens of a request that reached the
\* provider stay reserved or charged: its reservation is never given back.
SentCallsAreCharged ==
    \A c \in sent : hold[c] \in {"active", "known", "uncertain"}

\* Model calls are made one after the other across crashes as well: at most one
\* pending row has no terminal state, and the provider has seen no call without
\* a row.
OneOpenCall ==
    /\ Cardinality({c \in Calls : row[c] = "open"}) <= 1
    /\ \A c \in sent : row[c] # "none"

\* A request whose predecessor for the same task has no known outcome is sent
\* only by a run that the user confirmed.
NoSilentRetry ==
    [][\A c \in Calls : (c \in sent' /\ c \notin sent /\ ~confirmed)
            => \A d \in sent : row[d] \in {"succeeded", "failed_known"}]_vars

\* A unit that the checkpoint calls reviewed was answered with success in some
\* run, and that call was charged.
CheckpointIsTrue ==
    \A u \in Units : completed[u] = "reviewed" =>
        \E r \in Runs : /\ <<r, u>> \in sent
                        /\ row[<<r, u>>] = "succeeded"
                        /\ hold[<<r, u>>] \in {"known", "uncertain"}

\* The checkpoint keeps what it holds, and no later run pays for it again.
CompletedIsReused ==
    [][\A u \in Units : completed[u] # "none" =>
            /\ completed'[u] = completed[u]
            /\ \A r \in Runs : <<r, u>> \in sent' => <<r, u>> \in sent]_vars

\* A crash makes at most one unit to be paid for again: of the units a run sent
\* requests for, at most one is not completed in the checkpoint, as long as
\* saving the checkpoint did not fail in that run.
OneUnitToRedo ==
    \A r \in Runs \ saveFailed :
        Cardinality({u \in Units : <<r, u>> \in sent /\ completed[u] = "none"}) <= 1

\* A stored complete result rests on a checkpoint in which every unit is
\* reviewed.
CompleteIsDurable ==
    stored = "complete" => \A u \in Units : completed[u] = "reviewed"

\* A run ends.
RunsEnd == Alive ~> (pc = "ended")

\* What the orchestration module's design asks for: reserving and recording a
\* call is one transaction, and what is left without an end is charged by the
\* recovery.  Then a reservation is only active while a pending row, or the
\* process that is about to write it, stands for it.
HoldsAreReclaimable ==
    \A c \in Calls : hold[c] = "active" =>
        \/ row[c] = "open"
        \/ c \in toSettle /\ pc = "settle"
        \/ c = Call /\ pc = "reserved"
=============================================================================
