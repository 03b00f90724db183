# CR-Agent in TLA+

CR-Agent reviews a diff, or a GitHub or GitLab pull request, with a language
model: it splits the change into work units, pays for one model call per unit
from a token budget, consolidates the findings, writes a report and can publish
the findings as comments. It is a command-line tool; every command (`review`,
`resume`, `publish`, `terminate`, `cleanup`, ...) is a process of its own, and
what survives a process is one SQLite file.

The hard part is therefore not in any single function. It is what two processes,
or one process and the crash of its predecessor, make of the same rows: a comment
posted twice, tokens paid twice or forgotten, a call of unknown outcome silently
repeated, a result that claims more than is stored. This directory models those
protocols, and the path from a diff to a frozen plan on which everything after it
relies, checks them with TLC and proves the ones that matter most with TLAPS.

Contents: [Inventory](#inventory) · [Modules](#modules) · [Runs](#runs) ·
[Bounds, fairness, assumptions](#bounds-fairness-and-assumptions) ·
[Proofs](#proofs) · [Findings](#findings) · [Not modelled](#not-modelled) ·
[Plan](#plan)

Run everything from this directory: `tlc -config PublicationSafety.cfg
MCPublication`, `tlapm PublicationProofs.tla`. Paths below are relative to
`src/src/code_review_agent/`.

## Inventory

| Component | State it keeps | Operations | What makes it correct |
| --- | --- | --- | --- |
| Remote publication (`application/publication_service.py`) | item rows with state, version and fencing token; lease row; fence counter | `prepare`, `publish`: acquire, read, renew, verify, list, create, record, release | no planned item is commented twice; "succeeded" is true and final; only the newest token writes; an invocation ends whatever becomes of the others |
| Publication adapters (`adapters/publication/`) | none | `verify_target`, `find_markers`, `create_*_comment` | every answer is classified as created, refused or unknown; an incomplete listing is an error |
| Publication planner (`domain/publication/planner.py`) | none | `plan` | one marker per item, stable across runs |
| Token budget (`domain/budget/`) | accounts, reservations, append-only ledger; one row in the store | create, restore, reserve, release, settle known, settle uncertain, add authorization, unfreeze | ledger and reservations agree; nothing is reserved beyond the authorization; overage freezes; nothing is settled twice |
| Review orchestration (`application/orchestration.py`) | the executions of this run | `run`: normalize, load checkpoint, plan, loop over units, consolidate, snapshot, report, deliver | completed units are reused; an unknown stops the run; the result is no better than the facts |
| Review execution (`domain/execution/`) | none of its own | `execute`: tools, prepare, egress check, reserve, pending row, send, settle, finish | every request sent has a reservation and a row before it leaves |
| Runtime wiring and resume (`bootstrap.py`, `application/task_service.py`) | pause requests, in memory | `review`, `resume`, `publish`, `terminate`, `cleanup`, `retry_delivery` | recovery charges what was left open; an unknown call is repeated only after confirmation; a run whose trace failed before its verdict does not claim completeness |
| State store (`application/persistence.py`) | all tables | one transaction per method | a checkpoint only grows; links expire with what they lead to; what was cleaned up stays away |
| Model gateway and provider (`adapters/model/`) | prepared requests | `prepare`, `send`, `discard` | one attempt per permit; unknown outcomes are never charged as known |
| Task aggregate (`domain/task/`) | task, lease, phase, versions | acquire, renew, release, bind, complete phase, pause, resume, terminate | fenced leases and optimistic versions; not yet called by the command line |
| Trace (`domain/trace/`, trace rows of the store) | events, edges, sequence numbers | commit, append, link | idempotent, gapless sequence per task |
| Security (`domain/security/`, `adapters/security/`) | prepared and committed artifacts | evaluate, commit, resolve | only content found safe, or made so, is committed or resolved |
| Findings and report (`domain/findings/`, `domain/report/`) | none | process, build | coverage is honest; result state follows from coverage |
| Review planning (`domain/planning/`) | none | `plan` | every line is in one work unit, or its hunk is declared unreviewable; scopes do not overlap |
| Input (`domain/input/`, `adapters/input/`) | the pages read so far of a pull request | acquire (text, file, GitHub, GitLab), normalize | what is committed is the whole diff of one version; both sides of a diff are judged alike; parser and aggregate agree |
| Tools (`adapters/tools/`) | frozen catalogue | execute | declared limits hold |
| Registries (`adapters/registry.py`) | providers, frozen flag | register, freeze, resolve | exact resolution after freeze |
| SQLite repositories and unit of work (`adapters/sqlite/`) | connection | commit, rollback | only the connection is used by the wired runtime |
| Command line, configuration, credentials, output | none | | input and output |

**Interactions.** `review` creates the budget account, stores the command, and
runs the orchestrator, which calls the executor for every unit; the executor
calls the budget, the store (pending rows) and the gateway. `resume` restores the
budget from the store, turns pending rows into unknown calls, charges them, and
runs the orchestrator again with the checkpoint. `publish` works on a stored plan
and talks to the platform. Everything is shared through the store; each store
method is one or two transactions, and each process keeps copies of what it read.

**Hard behaviours.** Crashes between two transactions (reserve / pending row /
send / settle / terminal state / checkpoint / result); lost answers of the model
and of the platform; a lease that expires while its holder works; requests that
land late; two runtimes with their own copy of one budget; repeated resumes;
partial failure of a list of items; tokens above what was reserved; `cleanup`
under a running command; rows that expire one by one while links between them live;
a pull request that changes between the requests that read it; a task lease that
runs out under its holder; hunks at the edge of a model's capacity. `PROJECT.json` lists them at their lines under
"hazards", with the properties that watch them.

## Modules

| Module | Models | Lines of the code |
| --- | --- | --- |
| `PublishOnce` | the promise of publication: at most one comment per item, reported only when it is there | abstract |
| `Publication` | `publish` by any number of processes, the platform, the clock, `cleanup` | `publication_service.py`, publication part of `persistence.py`, `adapters/publication/base.py` |
| `PublicationProofs` | theorems about `Publication` | |
| `TokenCap` | the promise of a budget: holds within a limit, closed once, blocked by overage | abstract |
| `Budget` | `BudgetService`, the ledger's projection, persistence, several runtimes | `domain/budget/`, `save_budget_state` |
| `BudgetProofs` | theorems about `Budget` | |
| `DataTheorems` | lemmas about sums, minima and flattened sequences, for `BudgetProofs` and `ReviewInputProofs` | |
| `ReviewRun` | one task from `review` through its `resume`s, with a crash before any step | `bootstrap.py`, `task_service.py`, `orchestration.py`, `executor.py`, `gateway.py`, checkpoint and pending-call parts of `persistence.py` |
| `ReviewRunProofs` | theorems about `ReviewRun` | |
| `TaskStore` | the rows of one task under `review`, `resume`, `publish`, `terminate`, `cleanup` and the queries, with expiry, faults and deaths | `persistence.py`, `bootstrap.py`, `task_service.py`, `query_service.py` |
| `TaskStoreProofs` | theorems about `TaskStore` | |
| `FencedLog` | the promise of the task aggregate: an append-only log of completed phases written in epochs | abstract |
| `TaskLease` | the task aggregate: every operation of `TaskService`, leases that run out | `domain/task/` |
| `TaskLeaseProofs` | theorems about `TaskLease` | |
| `SecurityBoundary` | the decision on an artifact, the journal that references are resolved against | `domain/security/service.py` |
| `RemoteInput` | acquisition of a change from GitHub or GitLab, which changes meanwhile | `adapters/input/` |
| `DiffParser` | the unified diff parser and the checks of its models, as a fold over kinds of lines | `domain/input/` |
| `ReviewPlanner` | the planner: order, boxes, hunk groups, line blocks, the checks of a plan | `domain/planning/` |
| `ReviewInput` | composition: acquisition, boundary, parser, change set, plan | `InputService`, `plain_diff.py` |
| `ReviewInputProofs` | theorems about acquisition and the parser in `ReviewInput` | |
| `ReviewPlannerProofs` | theorems about the plans of `ReviewInput` | |
| `MCPublication`, `MCBudget`, `MCReviewRun`, `MCTaskStore`, `MCTaskLease`, `MCReviewInput` | instances for TLC | |

Operators named in a comment "Mutant: ..." are deliberately wrong variants of the
definition that follows them; no specification uses them. Each shows that some
property notices that mistake.

### Publication

The variables are the rows (`prepared`, `items`, `lease`, `fence`), the local
variables of every invocation (`pc`, `token`, `prior`, `todo`, `found`,
`result`), and the platform (`inflight` requests that it has not decided,
`comments`). An action is one transaction or one remote call together with the
local computation after it:

- `Acquire`/`Refuse` are `acquire_publication_lease`; the fencing token is the
  next value of `fence`, which `cleanup` resets.
- `ReadRows`, `RowsGone`, `Renew`, `VerifyTarget`, `FindMarkers` follow
  `_publish_locked` in order; `AdoptFound`, `RejectContent`, `SendComment` and
  `RecordCreated`/`RecordRefused`/`RecordUnknown` are its loop; `FailItem` is
  `_fail_remaining` with and without `preserve_unknowns`.
- Every write of a row goes through `Settle`, the compare-and-swap of
  `update_publication_item` (owner, token, live lease, version), which either
  writes or leaves the `try` block.
- `Interrupt` is any exception inside the `try`, `Release` the `finally`,
  `Crash` the death of the process with its lease row left behind.
- `Land` and `Drop` decide a request at any later time: an invocation may record
  "unknown", release its lease and be gone before its comment appears.
- `ExpireLease` replaces the 600 second clock by a nondeterministic end.

What a comment says, how a line is addressed and how pages are read is left out.
The content scan can reject any item.

### Budget

Each runtime has the service's whole state in `memory[r]` (authorization state,
pending re-validation, ledger entries with their sequence numbers, reservations);
`saved` is the row of `review_budget_states`, overwritten by every operation
without a look at its revision, which is what the code does. The projection
(`Known`, `Uncertain`, `Active`, `Overage`, `Spendable`, ...) is computed from
the entries as in `BudgetLedger.project`. Usage may be zero, below, equal to or
above what was reserved. Identities, digests and the capability of the provider
are taken as valid ones; a denied reservation changes nothing.

### ReviewRun

Processes follow each other; the store keeps `account`, `command`, `hold` (state
of the reservation of every call), `row` (pending calls), the checkpoint
(`checkpoint`, `completed`, `unknown`) and `stored` (the result). The executor
makes at most one call per unit and run, so a call is named `<<run, unit>>`. The
control points follow the code: `CreateAccount`, `SaveCommand`,
`LoadCheckpoint`/`MakeCheckpoint`/`MissCheckpoint`, then per unit
`SkipCompleted`, `StopAtBoundary`, `ExecuteWithoutCall` or `Reserve`, `BeginCall`
(or `BeginCallFails`), `Send` (or `NotSent`), `Answer` with `_settle`,
`FinishCall`, `SaveCheckpoint`, and `Finish`. A resume passes `RecoverPending`,
`SettleRecovered` and `CheckResume` first, in the order of `bootstrap.resume`: the
recovery is done even if the resume is then refused. `Crash` may hit before any
step and stands for uncaught exceptions too (an expired, corrupt or differently
bound checkpoint, a failing write outside a `try`). A checkpoint that cannot be
saved is an outcome of its own, since the code goes on.

Amounts are left to `Budget`, and whether the budget denies a reservation is a
free choice here. Plan, tools, prompt, parsing and report are reduced to the
execution state they lead to.

### TaskStore

`rows` is what the tables hold of one task; `proc[p]` is the command that process
`p` runs, its place and its local variables; `now` is the clock; `history` is read
by properties only. One step is one transaction, in the order of the code:
`CreateAccount`, `SaveCommand`, `Normalize`, `LoadCheckpoint`, `SaveCheckpoint`,
`Execute`, `TraceUnit`, `Finding`, `LinkRead`, `LinkWrite`, `Report`, `Deliver`,
`SaveResult`, `SavePartial`, `SavePlan`, `TracePlan` for `review`; `FindCommand` and
then the same for `resume`; `ReadPlan`, `PublishItems`, `ReadResult`,
`SavePublished` for `publish`; `ReadResult`, `SaveTerminated`; `FindResult`,
`Delete` for `cleanup`. Opening the database (`Open`) deletes what has expired, as
the constructor of the store does. `link_finding_trace` reads the events outside
its writing transaction, so it is two steps. Any call may raise (`Fault`) and any
process may die (`Dies`); `Trace` is `_trace`, which remembers a failure and goes
on. The state of a result is decided by the snapshot, in the step `Report`. The two
events of the report (`report.generation_started`, `report.delivered`) come after it: a
failure of the first makes `report()` mark its own copy of the snapshot, which the
orchestrator never sees, and only `review` looks at both once more (`SavePartial`).
The commands find each other's rows at any state. What a review does between
its writes is `ReviewRun`'s, the items of a publication are `Publication`'s.

### TaskLease

`task`, `checkpoints`, `snapshots`, `tokens`, `unknown` are the dictionaries of
`TaskService` for one task; `memory[c]` is what a caller last saw: the version and the
permit it will present, and what it has seen of the task. One action per method,
with the checks of `_require_lease` and `_require_write` as they are: `bind_input` and
`create_result_snapshot` ask for neither. `LeaseRunsDown` is the clock against
`expires_at`. A checkpoint is its caller's (`Drafts`): any id, one that was used before
included, any number and any predecessor. `ExtendsChain` is what `complete_phase` looks
at, the number and the predecessor. It does not compare the checkpoint's own phase with
the phase that is completed, and nothing reads its kind, phase and scope, so that they
are left out; `completed` remembers the phases completed and the tokens they were
completed under, for the properties. `FencedLog` is implemented with `epoch` = the last
token given out, `log` = `completed`, `closed` = terminated.

### From a change to a plan

`RemoteInput` follows `acquire_url` of both adapters: metadata, pages until there is
no next link, for GitHub the raw diff if a file came without its patch, commit. A
request is one step and its answer one of those the code tells apart: the faults of
`FaultCode`, a wrapped list, an overflow, a file without its lines (`folded`), an item
or metadata that is no object, something that is no list or no JSON, a link to another
host. A platform that silently leaves a file out of a list is not among them: nothing
in the code could tell. Between any two steps `Push` and `Close` change what the
platform has; a version is the number of its pages.

`DiffParser` reads a document line by line, a line being one of the kinds that the
code tells apart (header, marker, mode, index, rename, similarity, binary, hunk
header, content, "no newline", unknown) with the values that its checks compare. It
keeps the order of the checks, since the first error is the result. The three
model classes (`ChangedFile`, `ChangeSet`, `CompletenessProof`) check again what the
parser built; they are operators of their own. `ReviewPlanner` is a set of pure
operators from the files and a capacity to a plan. `ReviewInput` feeds every
document over a set of lines, accepts or refuses it, and plans it for each
capacity. How text becomes a kind of line is left out.

## Runs

| Run | Instance | Checks | Shows |
| --- | --- | --- | --- |
| `publication_safety` | 2 invocations, 2 items, `Prompt` | `TypeOK`, `IInv`, `OneWriter`, `NoDuplicateComments`, `ImplementsPublishOnce` | leases, markers and fencing together give at most one comment per item; the invariant used by the proofs |
| `publication_any_timing` | 2 × 2, no timing assumption, with fairness | `SucceededIsPublished`, `SuccessReportIsTrue`, `SucceededIsFinal`, `WritesAreFenced`, `InvocationsEnd` | what rows and results claim stays true even if requests land after their lease; every invocation ends |
| `publication_failed` | 2 × 1 | `FailedMeansNotPublished` **violated** | finding 1 |
| `budget_ledger` | 1 runtime, 3 calls, amounts 1..2, 3 of at most 4 tokens | `TypeOK`, `LedgerMatchesReservations`, `DeficitBlocks`, `OverageIsDisclosed`, `HistoryIsKept`, `ImplementsTokenCap` | the ledger, the reservations and the balance agree in every history, and implement the cap |
| `budget_sequences` | 1 runtime | `SequencesAreUnique` **violated** | finding 2 |
| `budget_shared` | 2 runtimes | `HoldsFitAuthorization` **violated** | finding 3 |
| `review_run` | 2 units, a review and a resume, with fairness | `TypeOK`, `SentCallsAreCharged`, `OneOpenCall`, `CheckpointIsTrue`, `OneUnitToRedo`, `CompleteIsDurable`, `NoSilentRetry`, `CompletedIsReused`, `RunsEnd` | crashes at any step lose no tokens of a sent request, repeat at most one unit, and never repeat an unknown call unasked |
| `review_holds` | 1 unit, 2 runs | `HoldsAreReclaimable` **violated** | finding 4 |
| `task_store` | 2 processes, 2 units, rows that live one tick, 2 moves | `LinkedTraceIsWhole`, `CleanedStaysClean`, `CompleteResultIsTraced`, `NoStandInForTrace` | however the commands on a task interleave, fail and die, a link leads to all it was made from, a complete result has the trace of all that it rests on, and of its report too if a review goes on with it, and a cleanup that had the task to itself is final |
| `task_lease` | 2 callers, 3 phases, 2 checkpoint ids, 2 leases of 2 ticks, 1 snapshot | `TypeOK`, `VersionIdentifiesState`, `ChainIsWhole`, `ImplementsFencedLog` | two holders, who present what checkpoints they like, leave one unbroken chain, fenced by their tokens; the version stands for all of the task but its lease |
| `review_input` | 5 kinds of documents, 3 capacities, a platform with 3 versions | `AcquiredIsWhole`, `ReversedIsReversed`, `AggregateAgrees`, `PlanConservesLines`, `ScopesAreDisjoint`, `RefusedPlansRepeat` | partial answers of a platform do not pass for a change; every short diff is judged like its reverse, counted consistently, and planned without loss or overlap |
| `remote_version` | as `review_input` | `VersionIsFixed` **violated** | finding 5 |

## Bounds, fairness and assumptions

**Publication.** Two invocations are enough for every pairwise conflict (holder
and successor); the proofs cover any number. Two items make a partial result, an
item handled before and one after a lost lease. Invocations are interchangeable,
so `publication_safety` uses symmetry; the run with liveness does not. No
counter is cut: versions and tokens are bounded by the invocations.

**Budget.** Three calls let two reservations be active while a third is settled;
amounts 1 and 2 against a budget of 3 and a maximum of 4 reach denial, exact
exhaustion, overage, a deficit, one extension and unfreezing. The one bound is
`MaxAuthorization` (`MAX_AUTHORIZATION` in the code, scaled down).
`budget_ledger` disables the deadlock check: once an authorization was added and
the runtime is gone, `restore_account` refuses the task, so the system does stop.

**ReviewRun.** Two units give an earlier and a later one, two runs a process that
died and its successor. `RunCount` cuts the number of resumes; the last run ends,
hence no deadlock check. One unit with three runs was checked as well while the
model was written, with the same answer.

**TaskStore.** One process that runs a review and a second one that takes whatever
command comes, also a second resume after the first process is done. `MaxMoves`
counts the further commands, the failing calls and the deaths together: two of
them give, for example, a cleanup and a resume inside a review, or a fault and a
resume that meets its rows. With `Retention` 1 and a clock that reaches 1, all that
was written at 0 expires at 1 and what was written at 1 does not, which is the
difference the properties are about. Commands that come after a quiet cleanup are
not counted. Processes and units are symmetric. The deadlock check is off, since the
moves run out.

**TaskLease.** Two callers are a holder and its successor; the lease lasts two
ticks, so that it can be renewed half-way. `MaxTokens` bounds the leases granted and
`MaxSnapshots` the result snapshots; three phases bound the chain. With two ids a chain
of three repeats one, so that a snapshot or a predecessor may name either of two
checkpoints. A draft has no predecessor exactly if it is the first: `Checkpoint` wants
one of every later draft, and what a first one names is neither checked nor read. The proofs
have no bound on callers, bindings, ids, lease length, tokens or snapshots.

**Review input.** A document is over when the reader says so, hence every document
up to `size` lines is read. `Metadata` (7 lines) has everything that may be stated
about one file and a hunk; `Hunks` (9) hunk headers of many shapes, adjacent,
overlapping and on one side only; `Files` (12) up to three files against a limit of
two; `Long` (13) one line more than the limit of physical lines; `Remote` (5) a
document of a platform, whose answers do not depend on it. The limits are those of
`InputLimits`, scaled down (2 files, 4 changed lines, 12 physical lines). Texts have
two lengths, and the capacities are below, at and above what one, two and four lines
are estimated at. Three versions have 2, 1 and 3 pages, so that a push may add and
remove pages. A run ends with its plan: no deadlock check. The proofs have no bound on
documents, limits, versions or capacities. `DialectAssumption` says that a document is
made of the kinds of lines the parser tells apart, with the values that its patterns
can match (numbers of a hunk header are natural, a path is one of `Paths`), and
`CapacityAssumption` that a capacity is two natural numbers (`ModelCapacitySummary`
even wants positive ones); TLC evaluates both for the instance.

**Fairness.** `Publication`: weak fairness of each invocation's own steps (a
started process is scheduled) and of the platform's decision on a request (clients
give up after 20 s); the clock is not fair, no invocation waits for it. `ReviewRun`: weak
fairness of `Step`, the process's own steps including the arrival of an answer,
which the client bounds by `httpx.Timeout` (60 s per network operation by
default). `Crash`, `Interrupt`, `Cleanup` and starting a command are never fair. The
other modules state no liveness: nothing in them waits for anything.

**Prompt.** `NoDuplicateComments` and `OneWriter` cannot hold without any timing:
a process may be suspended between its renewal and its request, or the platform
may execute a request after the client was interrupted and released the lease;
then two invocations can both see no marker. `Prompt` states the assumption under
which they hold: what relies on a lease (the step after a renewal, and a request
on its way) ends before that lease does. A request has 20 s and the lease 600 s,
which supports it, but no code enforces it. The properties of
`publication_any_timing` need no such assumption, and `OneWriter`, `NoDuplicateComments`
and `IInv` carry it as a hypothesis, so that `Spec` and its theorems are about both
cases; only `Refinement` assumes it outright.

## Proofs

`PublicationProofs` proves, for every set of invocations and every positive
number of items, from the one assumption `PublicationAssumption`
(`ItemCount \in Nat \ {0}`, `Prompt \in BOOLEAN`):

| Theorem | Property |
| --- | --- |
| `TypeCorrect` | `TypeOK` |
| `Invariance` | `IInv` |
| `MutualExclusion` | `OneWriter` |
| `AtMostOneComment` | `NoDuplicateComments` |
| `SuccessIsReal` | `SucceededIsPublished` |
| `ReportsAreTrue` | `SuccessReportIsTrue` |
| `SuccessIsFinal` | `SucceededIsFinal` |
| `Fencing` | `WritesAreFenced` |
| `Refinement` | `ImplementsPublishOnce`, assuming `Prompt` |

None of the safety properties is inductive. That no item gets a second comment
depends on what the creator *remembers*: it creates only what its listing did not
find, so nothing may have been created between the listing and the request. The
parts of `IInv` follow that argument.

- `LeaseInv`: the live lease belongs to somebody whose token is the newest, so a
  compare-and-swap under the lease writes with the newest token.
- `MemoryInv`: the rows an invocation remembers are at most as new as the stored
  ones, and equal versions mean equal states: a successful compare-and-swap never
  overwrites a success.
- `CriticalInv` (under `Prompt`): whoever is about to create, or has a request on
  its way, holds the lease. With `LeaseInv` this is mutual exclusion.
- `AbsentInv` (under `Prompt`): what the lease holder's listing did not find is
  still not on the platform, but for the one item it is posting.

The proof classifies every action of `Next` into kinds of steps (`StepKinds`) and
shows for each part that each kind keeps it. `Refinement` maps the rows in state
succeeded to `PublishOnce`'s `reported`; each step is a `Comment`, a `Report` or a
stutter. `cleanup` is covered, although it resets the fencing counter: it makes
every later write fail.

`TaskLeaseProofs` proves about the task aggregate, for every set of callers and
all bounds, from `TaskAssumption`:

| Theorem | Property |
| --- | --- |
| `Invariance` | its inductive invariant `IInv` |
| `TypeCorrect` | `TypeOK` |
| `VersionsIdentify` | `VersionIdentifiesState` |
| `OneChain` | `ChainIsWhole` |
| `Refinement` | `ImplementsFencedLog` |

The invariant adds to these what makes them inductive. `LeaseInv`: a task has a
lease exactly while it runs, and the lease has the newest token, so whoever passes
`RequireWrite` holds the newest token and the present version. `PhaseInv`: the task is
in the phase that was completed last. Of the chain itself, `OneChain` says what
`complete_phase` makes of drafts that it does not trust: each checkpoint has its number
and names the one before it, and no caller ever has to take back what it read of the
chain. Ids may repeat, as nothing in the code forbids it, hence nothing rests on them
being different. The steps are again sorted into kinds: a `Look` changes nothing but what a caller
knows, a `Lease` changes the holder, an `Advance` appends a checkpoint, a `Change`
is any other change; each kind that touches what a version stands for makes a new
version.

`ReviewInputProofs` proves about acquisition, inside the whole of `ReviewInput` and
for every number of versions and pages (`PagesOfAssumption`):

| Theorem | Property |
| --- | --- |
| `Invariance` | its inductive invariant `RemoteInv` |
| `AcquisitionIsWhole` | `AcquiredIsWhole` |

`ReadInv` says what was read at each step, as long as the head of the metadata is
still the head on the platform: before page n the files of the first n - 1 pages, in
order. Heads only grow, so once a push has made the head old the claim is void and
stays void; that is the gap `remote_version` shows.

For every document, every limit (`InputAssumption`, `DialectAssumption`) and every
capacity (`CapacityAssumption`), `ReviewInputProofs` and `ReviewPlannerProofs` prove:

| Theorem | Property |
| --- | --- |
| `PathInvariance` | its inductive invariant `PathInv` |
| `AggregatesAgree` | `AggregateAgrees` |
| `ReverseIsReverse` | `ReversedIsReversed` |
| `ScopesApart` | `ScopesAreDisjoint` |
| `LinesConserved` | `PlanConservesLines` |
| `RefusalsRepeat` | `RefusedPlansRepeat` |

`PathInv` says what the parser keeps from line to line, which no property says. Every
hunk it has is a `GoodHunk`: its lines are numbered on from its start on each side, with
no number on a side where a line is not, and no side is more than full. `CountsAgree`:
the changed lines that were counted are those of the files, of the complete hunks and
of the open one. Files are valid and differ in their identity, and a plan is the
planner's for the accepted change. `AggregateAgrees` follows, since the models count
the same lines once more. For `ReversedIsReversed` the facts of a section and of its
reverse are put into a relation (`Mirror`), under which each check of the parser
passes or fails on both alike.

The theorems about plans name a line by its place, its hunk and its number in it
(`LinePlaces`). On either side numbers grow with the place (`NumbersGrow`), because a
hunk begins behind the end of the one before it. Boxes of hunks, blocks of lines and
the groups of a file are then shown to cut its places into consecutive pieces:
`ScopesAre` says of a whole plan which places each scope is about, that those of one
file come one after the other, and that they are all there. The three properties
are consequences: ranges of consecutive pieces do not meet; a line is named by one
place, hence by one unit or by the hunk that is declared; and two scopes that are named
alike have a place in common, unless their hunk has no lines or repeats a text. The
folds of the planner are proved by induction on the hunks taken so far, with the set
of lengths for which the claim holds in place of a predicate.

`ReviewRunProofs` proves about one task, for every number of units and of runs
(`ReviewRunAssumption`: both positive), with a crash before any step:

| Theorem | Property |
| --- | --- |
| `Invariance` | its inductive invariant `IInv` |
| `TypeCorrect` | `TypeOK` |
| `RequestsStayCharged` | `SentCallsAreCharged` |
| `CallsAreSequential` | `OneOpenCall` |
| `CompletionsAreTrue` | `CheckpointIsTrue` |
| `CrashCostsOneUnit` | `OneUnitToRedo` |
| `CompleteRestsOnCheckpoint` | `CompleteIsDurable` |
| `UnknownIsNotRetried` | `NoSilentRetry` |
| `CompletionsAreReused` | `CompletedIsReused` |

What recovery relies on is where a process can have died, which no property says.
The parts of `IInv` say it:

- `PlaceInv`: which run and which unit the process is at.
- `AheadInv`: a call of a later run or unit has no row and was not sent. So a
  request is always the first of its call.
- `CallInv`: what reservation, pending row and answer are at each step of the call at
  hand, from the reservation to the record in the checkpoint.
- `OpenInv`: the one open row belongs to the call at hand, or to a process that died;
  it is there before the request leaves.
- `KnownInv`: without a confirmation, a row of unknown outcome either has not been
  looked at yet or ends the run. This is what `NoSilentRetry` needs before a `Send`.
- `LoopInv`: the executions in memory are those of the checkpoint ahead of the
  present unit; behind it only if no save failed.
- `RedoInv`: what a run sent and the checkpoint lacks is at most the unit it is at.

`TaskStoreProofs` proves about the rows of one task, for every set of processes and of
units, every retention and every number of commands, faults and deaths
(`StoreAssumption`):

| Theorem | Property |
| --- | --- |
| `Invariance` | its inductive invariant `IInv` |
| `LinksLead` | `LinkedTraceIsWhole` |
| `CleanupIsFinal` | `CleanedStaysClean` |
| `CompleteMeansTraced` | `CompleteResultIsTraced` |
| `MarkerOutlivesTrace` | `NoStandInForTrace` |

Each property is about rows, and each breaks through what a process holds while the
rows change. `LinkInv` therefore claims of a link that is computed but not yet
written what it claims of the stored one, as long as no `cleanup` came between;
`DebtInv` claims of a running review, as long as it has not failed, that every event it
owes was written, and from its snapshot on what is claimed of a stored result, the
events before the snapshot (`Evidence`); `LookedInv` claims of a review that looked at its
trace a last time that a complete result owes nothing at all; `QuietInv` says that after a quiet cleanup the processes are at most
asking whether the task exists. `EventInv` ties the marker to events that have ever
been there. The expiry of a link is the least expiry of its events, hence a lemma on
minima (`MinIsFirst`).

`BudgetProofs` proves about the budget, for every finite set of calls, all amounts, any
authorization and any bound on it (`BudgetAssumption`):

| Theorem | Property | Processes |
| --- | --- | --- |
| `Invariance` | its inductive invariant `BInv` | any number |
| `TypeCorrect` | `TypeOK` | any number |
| `LedgerIsBalanced` | `LedgerMatchesReservations` | any number |
| `UncoveredIsBlocked` | `DeficitBlocks` | any number |
| `OverageIsExact` | `OverageIsDisclosed` | any number |
| `HistoryIsFinal` | `HistoryIsKept` | one at a time |
| `Refinement` | `ImplementsTokenCap` | one at a time |

The invariant says of every account, stored or in the memory of a process, that it is
`Sound`: the totals of its ledger are those of its reservations before the "active"
total is cut off at zero (`Balanced`); it is blocked or covered; a call that never
reserved costs nothing. Processes that overwrite each other's row replace one sound
account by another, so these facts need no assumption on how many there are. That
history is kept, and that the row implements the cap, is false for two processes at
once, which overwrite each other's row as in `budget_shared`; both theorems assume
`[]OneAtATime`: no two processes have the account loaded at the same time. Then memory and store agree
(`Current`), and each operation has one of four effects on the row: it holds,
charges, authorizes or unblocks.

The balances are sums over a ledger and over the calls. `DataTheorems` proves what
`SumFunction` of the community modules computes on a finite domain: its recursion picks
the elements in an order that nobody knows, so the lemmas first show that a sum in any
order exists and is the same one (`SumExists`, `SumIs`), then what one more element
(`SumAdd`) or one changed value (`SumChange`) does to it. The induction over subsets
(`SubsetInduction`) is stated with a set of sets instead of a predicate and rests on the
library's theorem that a well-founded relation has minimal elements. For the input path
it also proves what a sum gains when a sequence grows (`SumAppend`), and which element
of which sequence stands at each place of `FlattenSeq` (`FlattenSequences`).

Only model-checked: the two liveness properties, `RunsEnd` of `ReviewRun` and
`InvocationsEnd` of `Publication`, since fairness is outside the prover's reach; and
what the runs that expect a violation refute. Every safety property of a passing run
is a theorem.

## Findings

1. `publication_failed`: on a failed target check `_fail_remaining` records items
   of unknown outcome as failed (`application/publication_service.py:131`),
   although the design says failed means a known failure and unknown items are
   first reconciled by listing the comments. The item's comment can be on the
   platform. A later publish repairs the row.
2. `budget_sequences`: `add_authorization` stores an account read before its
   ledger entry was numbered (`domain/budget/service.py:277`), so the next entry
   repeats the sequence number, which the design calls unique.
3. `budget_shared`: the budget row is replaced without comparing revisions
   (`application/persistence.py:446`), so two runtimes of one task can both
   reserve the last tokens.
4. `review_holds`: the reservation and the pending row are two transactions
   (`domain/execution/executor.py:220`), where the design asks for one. A crash
   between them leaves a reservation active that no resume finds, which the run shows;
   so does one between marking a recovered call unknown and settling it
   (`bootstrap.py:779`). Its tokens stay blocked; nothing is paid twice.
5. `remote_version`: `acquire_url` reads the head of a pull request with its
   metadata and then the pages of whatever the head is by then
   (`adapters/input/github.py:60`, `gitlab.py:53`). The head is not read again, and the
   completeness proof states `version_drifted=False` and `counts_match=True` as
   constants (`domain/input/service.py:206`), where the design says that version drift
   must fail. The lines of the new version get the head of the old one; comments
   are then posted to lines of a version that does not have them.

Each is quoted with the sentence it contradicts in `PROJECT.json`.

Other places where the code and its documents part, met while modelling and shown by
no run (paths of documents are below `src/docs/`):

- *Plan.* `_estimate_lines` counts 20 bytes for any line of a block
  (`domain/planning/planner.py:351`), so a block of long lines is planned although it
  is over the capacity; `模块设计/审查规划模块.md:88` asks for a conservative bound.
  `PlannedUnitsFit` in `ReviewInput` states the promise; TLC refutes it with the
  constants of `ReviewInput.cfg`.
- *Plan.* The id of a line block is made of its texts without its range
  (`planner.py:519`, against `审查规划模块.md:69`): two equal blocks of one hunk make
  `ReviewPlan` refuse the whole plan. An accepted hunk without lines
  (`@@ -1,0 +1,0 @@`) does so too. `RefusedPlansRepeat` says that nothing else does.
- *Input.* GitLab's adapter does not map answers that are not JSON or lack
  `diff_refs` to an error code; GitHub's does, but for metadata or an item that is no
  object, whose `AttributeError` neither catches. In `RemoteInput` they end as `uncaught`.
- *Task aggregate.* `bind_input` and `create_result_snapshot` need neither lease nor
  version (`domain/task/service.py:154`, `:265`; `模块设计/任务模块.md:45`, `:226`);
  releasing a lease does not bump the version (`:287`); resume does not look at
  `recovery_expires_at` (`:190`); a phase may be skipped; `complete_phase` refuses neither
  a checkpoint id that the task already has (`:91`, `:737`) nor a checkpoint of another phase
  than the one it completes.
- *Store.* A trace write that fails after the snapshot does not make the result partial
  (`bootstrap.py:664`): `report()` marks its own copy, and the orchestrator stores the
  state of the snapshot it had before (`application/orchestration.py:189`). `review` looks
  at the trace once more and saves its result again (`bootstrap.py:726`), unless it dies
  between; `resume` (`bootstrap.py:795`) does not. The design asks for a partial result
  whenever a trace write fails
  (`superpowers/specs/2026-09-13-trace-persistence-report-presentation-design.md:98`,
  `:177`). `TraceFailureMeansPartial` in `TaskStore` states that; TLC refutes it with the
  constants of `TaskStore.cfg`. `CompleteResultIsTraced` is what is left of it.
- *Store.* A terminated task can be resumed, which overwrites its phase
  (`任务模块.md:152`); a resume stores a result without the stored publication; a finding's trace id answers `task_not_found` once it has expired.
- *Security.* A finding that spans lines is replaced by one placeholder
  (`domain/security/service.py:255`), which changes the number of lines of a diff that
  `模块设计/安全模块.md:340` wants kept.

## Not modelled

- Text processing: how a line of a diff is recognised, prompt and report rendering,
  the patterns of the secret scanner and the replaced text, the tools' rules, the
  marker syntax. They are input and output of the protocols and have ordinary unit
  tests.
- Two processes serving one *review* at once: the documents describe one local
  process per task. What two runtimes do to the budget is in `budget_shared`.
- Contents of a checkpoint; what trace events say; session phases, which only advance
  in a fixed order.
- `retry_delivery`, `status` and `providers`: they read. Pausing: nothing calls it.
- The trace domain (`domain/trace/`), which the wired runtime does not use: its
  events are those of the store, in `TaskStore`. The provider registries, which are
  filled once at the start.
- SQLite itself: a transaction is atomic and durable.
- The SQLite repositories and the unit of work, which the wired runtime does not
  use; command line, configuration and credential storage.

## Plan

| Step | Module | Content | Runs and bounds | Theorems |
| --- | --- | --- | --- | --- |
| done | `Publication` with `PublishOnce` | above | above | above |
| done | `Budget` with `TokenCap` | above | above | above |
| done | `ReviewRun` | above | above | above |
| done | `TaskLease` with `FencedLog` | above | above | above |
| done | `TaskStore` | above | above | above |
| done | `RemoteInput`, `DiffParser`, `ReviewPlanner`, `SecurityBoundary`, `ReviewInput` | above | above | above |
| 1 | tools | the budgets of the interpreter of declarative rules (`adapters/tools/runtime.py`) | bounded inputs | |

`ReviewRun` composes orchestration, execution and store, and takes from `Budget`
only the life of a reservation; a later step states that life as an abstract
specification that both implement.
