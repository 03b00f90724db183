----------------------------- MODULE TaskStore -----------------------------
(***************************************************************************)
(* The rows that ReviewStateStore keeps of one task, and the commands that *)
(* read and write them: review, resume, publish, terminate, cleanup, and   *)
(* the queries (status, trace show, report retry).                         *)
(*                                                                         *)
(* Every command is a process of its own, that opens the database, which   *)
(* deletes what has expired, and may die between any two of its            *)
(* transactions.  Each call of the store is one transaction, hence one     *)
(* step; only link_finding_trace reads before its transaction begins.      *)
(* Nothing but that keeps two commands on one task apart.                  *)
(*                                                                         *)
(* A review is reduced to what it writes: units, model calls and           *)
(* reservations are ReviewRun's, publication items Publication's.          *)
(***************************************************************************)
EXTENDS Integers, FiniteSets, FiniteSetsExt

CONSTANTS Procs,      \* processes at work at the same time
          Contents,   \* work units that a finding may come from
          Retention,  \* the seven days of events, links and checkpoints
          MaxTime,    \* bound of the model: readings of the clock
          MaxMoves    \* bound of the model: commands after the review, calls
                      \* that fail and processes that die, taken together

ASSUME StoreAssumption == /\ Retention \in Nat \ {0}
                          /\ MaxTime \in Nat
                          /\ MaxMoves \in Nat

VARIABLES rows,     \* what the tables hold of the task
          proc,     \* the command each process runs and what it holds
          now,      \* the clock
          history   \* what happened to the rows; read by properties only

vars == <<rows, proc, now, history>>

NoResult == [phase |-> "none", state |-> "none", published |-> FALSE,
             owes |-> {}]
NoLink   == [expires |-> 0, unit |-> "none", events |-> {}, life |-> 0]

\* The work units of a finding, or what any other event says.
NoUnit == "none"

NoRows == [command    |-> FALSE,     \* review_commands
           budget     |-> FALSE,     \* review_budget_states
           checkpoint |-> 0,         \* expires_at of review_checkpoints
           expired    |-> FALSE,     \* review_expired_checkpoints
           result     |-> NoResult,  \* review_runs
           plan       |-> FALSE,     \* review_publications
           events     |-> {},        \* review_trace_events
           link       |-> NoLink,    \* review_finding_traces
           marker     |-> FALSE,     \* review_trace_markers
           tombstone  |-> FALSE]     \* review_tombstones

\* failed: trace_persistence_failed; unsaved: checkpoint_failed;
\* owes: the events that this run had to write.
Idle == [at |-> "idle", run |-> 0, resumed |-> FALSE, failed |-> FALSE,
         unsaved |-> FALSE, unit |-> NoUnit, owes |-> {}, state |-> "none",
         link |-> NoLink, result |-> NoResult]

At(p, label) == proc[p].at = label
Goes(p, label) == proc' = [proc EXCEPT ![p].at = label]
Stops(p) == proc' = [proc EXCEPT ![p] = Idle]

\* A call of the store raises: the database is locked, the disk is full.
Fault == /\ history.moves < MaxMoves
         /\ history' = [history EXCEPT !.moves = @ + 1]
         /\ UNCHANGED <<rows, now>>

\* A call raises because of what it finds, or of what it cannot do.
Raises(conflict) == \/ conflict /\ UNCHANGED <<rows, now, history>>
                    \/ Fault

Keys(events)  == {e.key : e \in events}
Facts(events) == {[key |-> e.key, unit |-> e.unit] : e \in events}

\* Events of runs that are written again under their first key, and those
\* whose keys are new every time.
Stable(kind)   == <<kind, 0>>
Fresh(p, kind) == <<kind, proc[p].run>>

-----------------------------------------------------------------------------
(* What the transactions make of the rows                                  *)

\* _delete_expired_trace and _mark_expired_checkpoints
Expired(r) ==
    LET over == r.checkpoint # 0 /\ r.checkpoint <= now
    IN [r EXCEPT !.events     = {e \in @ : e.expires > now},
                 !.link       = IF @.expires <= now THEN NoLink ELSE @,
                 !.expired    = @ \/ over,
                 !.checkpoint = IF over THEN 0 ELSE @]

\* A cleanup that forgets that there was a trace.  Mutant of Cleaned.
CleanedWithMarker(r) == [NoRows EXCEPT !.tombstone = TRUE]

\* cleanup: what is left of a task.
Cleaned(r) == [NoRows EXCEPT !.marker = r.marker, !.tombstone = TRUE]

\* append_trace_event takes an event again only if it says the same.
Accepts(key, unit) == \A e \in rows.events : e.key = key => e.unit = unit

Appended(key, unit) ==
    IF key \in Keys(rows.events) THEN rows
    ELSE [rows EXCEPT !.marker = TRUE,
                      !.events = @ \cup {[key |-> key, unit |-> unit,
                                          expires |-> now + Retention]}]

Owing(p, key, unit) == proc[p].owes \cup {[key |-> key, unit |-> unit]}

\* _trace: whatever goes wrong is remembered, and the run goes on.
Trace(p, key, unit, label) ==
    \/ /\ Accepts(key, unit)
       /\ rows' = Appended(key, unit)
       /\ proc' = [proc EXCEPT ![p].at = label, ![p].unit = unit,
                               ![p].owes = Owing(p, key, unit)]
       /\ UNCHANGED <<now, history>>
    \/ /\ Raises(~Accepts(key, unit))
       /\ proc' = [proc EXCEPT ![p].at = label, ![p].unit = unit,
                               ![p].owes = Owing(p, key, unit), ![p].failed = TRUE]

\* An event that the command does not go on without (see Dies).
MustTrace(p, key, label) ==
    /\ rows' = Appended(key, NoUnit)
    /\ IF label = "idle" THEN Stops(p) ELSE Goes(p, label)
    /\ UNCHANGED <<now, history>>

-----------------------------------------------------------------------------
(* Commands begin                                                          *)

\* ReviewStateStore(...): any other command than review.  Those that come after
\* a cleanup with nothing else at work are not counted: they find too little.
Open(p) ==
    /\ At(p, "idle")
    /\ history.moves < MaxMoves \/ history.quiet
    /\ rows' = Expired(rows)
    /\ \E label \in {"resume", "publish", "terminate", "cleanup", "idle"} :
          proc' = [proc EXCEPT ![p] = [Idle EXCEPT !.at = label,
              !.run = IF label \in {"resume", "publish"} THEN history.moves + 1
                                                         ELSE 0,
              !.resumed = label = "resume"]]
    /\ history' = [history EXCEPT
          !.moves = IF history.quiet THEN @ ELSE @ + 1,
          !.gone = @ \cup (Facts(rows.events) \ Facts(rows'.events))]
    /\ UNCHANGED now

\* The process ends at any point: killed, or by an exception that the command
\* does not catch.
Dies(p) == ~At(p, "idle") /\ Stops(p) /\ Fault

\* review: BudgetService.create_account of a new task.
CreateAccount(p) ==
    /\ At(p, "create_account")
    /\ rows' = [rows EXCEPT !.budget = TRUE]
    /\ Goes(p, "save_command")
    /\ UNCHANGED <<now, history>>

\* A resume with a context at hand that it does not look up.  Mutant of
\* FindCommand.
FindCommandAtHand(p) ==
    /\ At(p, "resume")
    /\ Goes(p, "save_command")
    /\ UNCHANGED <<rows, now, history>>

\* resume: the command, the budget and again the command must be there.
FindCommand(p) ==
    /\ At(p, "resume")
    /\ IF rows.command /\ rows.budget THEN Goes(p, "save_command") ELSE Stops(p)
    /\ UNCHANGED <<rows, now, history>>

-----------------------------------------------------------------------------
(* A run: LocalDiffReviewService.start around ReviewOrchestrator.run       *)

SaveCommand(p) ==
    /\ At(p, "save_command")
    /\ rows' = [rows EXCEPT !.command = TRUE]
    /\ Goes(p, "normalize")
    /\ UNCHANGED <<now, history>>

Normalize(p) ==
    /\ At(p, "normalize")
    /\ Trace(p, Stable("input"), NoUnit, "load_checkpoint")

\* Without a row, only a review of a task that never had one goes on.  With
\* one, there may be nothing left to execute.
LoadCheckpoint(p) ==
    /\ At(p, "load_checkpoint")
    /\ \/ /\ rows.checkpoint > now
          /\ Goes(p, "execute") \/ Goes(p, "consolidate")
       \/ /\ rows.checkpoint = 0 /\ ~rows.expired /\ ~proc[p].resumed
          /\ Goes(p, "first_checkpoint")
       \/ /\ rows.checkpoint <= now
          /\ rows.checkpoint # 0 \/ rows.expired \/ proc[p].resumed
          /\ Stops(p)
    /\ UNCHANGED <<rows, now, history>>

SaveCheckpoint(p) ==
    /\ proc[p].at \in {"first_checkpoint", "unit_checkpoint"}
    /\ LET label == IF At(p, "first_checkpoint") THEN "execute" ELSE "consolidate"
       IN \/ /\ rows' = [rows EXCEPT !.checkpoint = now + Retention]
             /\ Goes(p, label)
             /\ UNCHANGED <<now, history>>
          \/ /\ Fault
             /\ proc' = [proc EXCEPT ![p].at = label, ![p].unsaved = TRUE]

\* A unit is executed: the ledger is saved, the attempt is traced.
Execute(p) ==
    /\ At(p, "execute")
    /\ rows' = [rows EXCEPT !.budget = TRUE]
    /\ Goes(p, "trace_unit")
    /\ UNCHANGED <<now, history>>

TraceUnit(p) ==
    /\ At(p, "trace_unit")
    /\ Trace(p, Fresh(p, "unit"), NoUnit, "unit_checkpoint")

\* consolidate, for a run without findings and for one with a finding.
NoFinding(p) ==
    /\ At(p, "consolidate")
    /\ Goes(p, "report")
    /\ UNCHANGED <<rows, now, history>>

Finding(p) ==
    /\ At(p, "consolidate")
    /\ \E unit \in Contents : Trace(p, Stable("finding"), unit, "link_read")

\* A link that lives as long as a new event.  Mutant of FirstExpiry.
OwnExpiry == now + Retention

\* What link_finding_trace bounds the life of a link by.
FirstExpiry == Min({e.expires : e \in rows.events} \cup {now + Retention})

\* link_finding_trace reads the events before it begins to write.
LinkRead(p) ==
    /\ At(p, "link_read")
    /\ IF rows.events = {}
       THEN proc' = [proc EXCEPT ![p].at = "report", ![p].failed = TRUE]
       ELSE proc' = [proc EXCEPT ![p].at = "link_write",
               ![p].link = [expires |-> FirstExpiry, unit |-> proc[p].unit,
                            events |-> Keys(rows.events), life |-> history.life]]
    /\ UNCHANGED <<rows, now, history>>

LinkWrite(p) ==
    /\ At(p, "link_write")
    /\ \/ /\ rows.link = NoLink
          /\ rows' = [rows EXCEPT !.link = proc[p].link]
          /\ proc' = [proc EXCEPT ![p].at = "report", ![p].link = NoLink]
          /\ UNCHANGED <<now, history>>
       \/ /\ rows.link # NoLink /\ rows.link.unit = proc[p].unit
          /\ proc' = [proc EXCEPT ![p].at = "report", ![p].link = NoLink]
          /\ UNCHANGED <<rows, now, history>>
       \/ /\ Raises(rows.link # NoLink /\ rows.link.unit # proc[p].unit)
          /\ proc' = [proc EXCEPT ![p].at = "report", ![p].link = NoLink,
                                  ![p].failed = TRUE]

\* A snapshot that does not look at the trace.  Mutant of Verdict.
VerdictOfCoverage(p) == "complete"

\* snapshot: what the result says if all the units were covered.  A result that
\* is partial for other reasons promises no more than one that is for these.
Verdict(p) == IF proc[p].failed THEN "partial" ELSE "complete"

\* snapshot, and then report, whose event comes too late: if it fails, report
\* marks its own copy of the snapshot as partial, the result stays what it was.
Report(p) ==
    /\ At(p, "report")
    /\ \/ /\ rows' = Appended(Stable("report"), NoUnit)
          /\ proc' = [proc EXCEPT ![p].at = "deliver", ![p].state = Verdict(p),
                                  ![p].owes = Owing(p, Stable("report"), NoUnit)]
          /\ UNCHANGED <<now, history>>
       \/ /\ Fault
          /\ proc' = [proc EXCEPT ![p].at = "deliver", ![p].state = Verdict(p),
                                  ![p].owes = Owing(p, Stable("report"), NoUnit),
                                  ![p].failed = TRUE]

Deliver(p) ==
    /\ At(p, "deliver")
    /\ \/ /\ rows' = Appended(Stable("delivered"), NoUnit)
          /\ proc' = [proc EXCEPT ![p].at = "save_result",
                                  ![p].owes = Owing(p, Stable("delivered"), NoUnit)]
          /\ UNCHANGED <<now, history>>
       \/ /\ Fault
          /\ proc' = [proc EXCEPT ![p].at = "save_result",
                                  ![p].owes = Owing(p, Stable("delivered"), NoUnit),
                                  ![p].failed = TRUE]

\* start saves the result; resume returns it.
SaveResult(p) ==
    /\ At(p, "save_result")
    /\ LET result == [phase |-> "completed", published |-> FALSE,
                      state |-> IF proc[p].unsaved THEN "partial"
                                                   ELSE proc[p].state,
                      owes |-> proc[p].owes]
       IN /\ rows' = [rows EXCEPT !.result = result]
          /\ IF proc[p].resumed THEN Stops(p)
             ELSE proc' = [proc EXCEPT ![p].result = result,
                     ![p].at = IF proc[p].failed THEN "save_partial" ELSE "plan"]
    /\ UNCHANGED <<now, history>>

\* review looks at the trace a last time, after both events of the report, and
\* saves the result once more.
SavePartial(p) ==
    /\ At(p, "save_partial")
    /\ LET result == [proc[p].result EXCEPT !.state = "partial"]
       IN /\ rows' = [rows EXCEPT !.result = result]
          /\ proc' = [proc EXCEPT ![p].result = result, ![p].at = "plan"]
    /\ UNCHANGED <<now, history>>

-----------------------------------------------------------------------------
(* Publication, termination, cleanup                                       *)

\* A review of a pull request leaves a plan, any other one ends.
SavePlan(p) ==
    /\ At(p, "plan")
    /\ \/ rows' = [rows EXCEPT !.plan = TRUE] /\ Goes(p, "trace_plan")
       \/ UNCHANGED rows /\ Stops(p)
    /\ UNCHANGED <<now, history>>

\* Whether a review publishes is up to its --publish.
TracePlan(p) == /\ At(p, "trace_plan")
                /\ \E label \in {"publish_items", "idle"} :
                      MustTrace(p, Stable("planned"), label)

ReadPlan(p) ==
    /\ At(p, "publish")
    /\ IF rows.plan THEN Goes(p, "publish_items") ELSE Stops(p)
    /\ UNCHANGED <<rows, now, history>>

\* Publication's items, of which the events are kept.  publish then reads the
\* review that it writes its result into; a review has it at hand.
PublishItems(p) ==
    /\ At(p, "publish_items") /\ rows.plan
    /\ MustTrace(p, Fresh(p, "published"),
                 IF proc[p].result = NoResult THEN "read_result"
                                              ELSE "save_published")

ReadResult(p) ==
    /\ proc[p].at \in {"read_result", "terminate"}
    /\ IF rows.result = NoResult THEN Stops(p)
       ELSE proc' = [proc EXCEPT ![p].result = rows.result,
               ![p].at = IF At(p, "terminate") THEN "save_terminated"
                                               ELSE "save_published"]
    /\ UNCHANGED <<rows, now, history>>

SavePublished(p) ==
    /\ At(p, "save_published")
    /\ rows' = [rows EXCEPT !.result = [proc[p].result EXCEPT !.published = TRUE]]
    /\ Stops(p)
    /\ UNCHANGED <<now, history>>

SaveTerminated(p) ==
    /\ At(p, "save_terminated")
    /\ rows' = [rows EXCEPT !.result = [proc[p].result EXCEPT !.phase = "terminated"]]
    /\ Stops(p)
    /\ UNCHANGED <<now, history>>

\* cleanup: the task must have a result, then all of it is deleted.
FindResult(p) ==
    /\ At(p, "cleanup")
    /\ IF rows.result = NoResult THEN Stops(p) ELSE Goes(p, "delete")
    /\ UNCHANGED <<rows, now, history>>

Delete(p) ==
    /\ At(p, "delete")
    /\ rows' = Cleaned(rows)
    /\ Stops(p)
    /\ history' = [history EXCEPT
          !.life  = @ + 1,
          !.gone  = @ \cup Facts(rows.events),
          !.quiet = \A q \in Procs \ {p} : At(q, "idle")]
    /\ UNCHANGED now

Tick == now < MaxTime /\ now' = now + 1 /\ UNCHANGED <<rows, proc, history>>

-----------------------------------------------------------------------------
\* A task begins with its review, under an id of its own.
Init ==
    /\ rows = NoRows
    /\ \E reviewer \in Procs :
          proc = [p \in Procs |-> IF p = reviewer
                                  THEN [Idle EXCEPT !.at = "create_account"]
                                  ELSE Idle]
    /\ now = 0
    /\ history = [moves |-> 0, life |-> 0, gone |-> {}, quiet |-> FALSE]

RunStep(p) ==
    \/ SaveCommand(p) \/ Normalize(p) \/ LoadCheckpoint(p) \/ SaveCheckpoint(p)
    \/ Execute(p) \/ TraceUnit(p)
    \/ NoFinding(p) \/ Finding(p) \/ LinkRead(p) \/ LinkWrite(p)
    \/ Report(p) \/ Deliver(p) \/ SaveResult(p) \/ SavePartial(p)

Next ==
    \/ \E p \in Procs :
          \/ Open(p) \/ Dies(p) \/ CreateAccount(p) \/ FindCommand(p)
          \/ RunStep(p)
          \/ SavePlan(p) \/ TracePlan(p) \/ ReadPlan(p) \/ PublishItems(p)
          \/ ReadResult(p) \/ SavePublished(p) \/ SaveTerminated(p)
          \/ FindResult(p) \/ Delete(p)
    \/ Tick

Spec == Init /\ [][Next]_vars

-----------------------------------------------------------------------------
(* Properties                                                              *)

\* While the link of a finding lives, the trace that it leads to has every
\* event it had when the link was made: link_finding_trace ends a link with
\* the first of them.  After a cleanup a link of the time before, written by
\* a run that went on, leads nowhere.
LinkedTraceIsWhole ==
    LET link == rows.link
    IN link.expires > now /\ link.life = history.life
          => link.events \subseteq Keys(rows.events)

\* A cleanup that had the task to itself is final: no command brings anything
\* of the task back, whatever it is asked and however it interleaves with
\* others.  A run that a cleanup overtakes does write again.
CleanedStaysClean ==
    history.quiet => rows = [NoRows EXCEPT !.marker = rows.marker,
                                           !.tombstone = TRUE]

\* The events that come after the snapshot, and what a run owes before it.
AfterSnapshot  == {Stable("report"), Stable("delivered")}
Evidence(owes) == {fact \in owes : fact.key \notin AfterSnapshot}

\* A result that says "complete" can be shown how it came about: every event
\* that its run had to write before its snapshot, of the input, the units and
\* the finding, is in the trace as the run wrote it, or was there until it
\* expired or was cleaned up.  What a review goes on to plan the publication of
\* owes nothing at all: its last look at the trace covers the report as well.
CompleteResultIsTraced ==
    LET traced == Facts(rows.events) \cup history.gone
    IN /\ rows.result.state = "complete" => Evidence(rows.result.owes) \subseteq traced
       /\ \A p \in Procs : At(p, "plan") /\ proc[p].result.state = "complete" =>
                              proc[p].result.owes \subseteq traced

\* What the documents ask for, and the code does not have: a failed write of the
\* trace makes the result partial, so that once the commands are through a result
\* that says "complete" is of a run all of whose events were written.  But
\* report.generation_started and report.delivered come after the snapshot, a
\* resume does not look at what became of them, and a review may die before it
\* does.
TraceFailureMeansPartial ==
    (\A p \in Procs : At(p, "idle")) /\ rows.result.state = "complete" =>
        rows.result.owes \subseteq Facts(rows.events) \cup history.gone

\* What trace show answers for the task id: get_trace falls back on the
\* phases of the result only if the task never had a trace.
TraceAnswer ==
    IF rows.events # {} THEN "events"
    ELSE IF rows.marker THEN "trace_not_found"
    ELSE IF rows.result # NoResult THEN "phases"
    ELSE "task_not_found"

\* The phases of a result never stand in for a trace that is gone: not when
\* it expired, not after a cleanup that a running review outlived.
NoStandInForTrace == TraceAnswer = "phases" => history.gone = {}
=============================================================================
