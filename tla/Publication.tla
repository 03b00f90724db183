---------------------------- MODULE Publication ----------------------------
(***************************************************************************)
(* Publishing the comments of one persisted review to GitHub or GitLab.    *)
(*                                                                         *)
(* Every `publish` command is an invocation of PublicationService.publish  *)
(* with a fresh owner id.  Invocations run in processes of their own and   *)
(* share one SQLite store, where every transaction is atomic, and one pull *)
(* request.  A lease row with an expiry and a fencing token is to keep     *)
(* them apart; marker comments are to make a retry idempotent.             *)
(*                                                                         *)
(* An action is one transaction or one remote call, and whatever local     *)
(* computation follows it.                                                 *)
(***************************************************************************)
EXTENDS Naturals

CONSTANTS Owners,     \* invocations of publish, each with its own owner_id
          ItemCount,  \* items of the publication plan; the last is the summary
          Prompt      \* TRUE: the platform has decided every request, and no
                      \* process sleeps between a renewal and its request,
                      \* before the lease they rely on ends

ASSUME PublicationAssumption ==
    /\ ItemCount \in Nat \ {0}
    /\ Prompt \in BOOLEAN

Items == 1 .. ItemCount

VARIABLES
    prepared,  \* the plan and its item rows are in the store
    items,     \* review_publication_items: [state, version, token]
    lease,     \* review_publication_leases: [owner, token, live] or NoLease
    fence,     \* review_publication_fences.last_token, 0 when there is no row
    pc,        \* where each invocation stands
    token,     \* the fencing token each invocation was given
    prior,     \* the item rows each invocation read when it started
    todo,      \* the remaining items it has not dealt with yet
    found,     \* the items whose marker its listing found
    result,    \* the overall state it returns to its caller
    inflight,  \* creation requests the platform has not decided, <<owner, item>>
    comments   \* comments on the platform, as <<creator, item>>

vars == <<prepared, items, lease, fence, pc, token, prior, todo, found,
          result, inflight, comments>>

store  == <<prepared, items, lease, fence>>
memory == <<token, prior, todo, found, result>>
remote == <<inflight, comments>>

NoLease == [owner |-> "none", token |-> 0, live |-> FALSE]

ItemStates   == {"pending", "succeeded", "failed", "unknown"}
ResultStates == {"pending", "succeeded", "partial", "failed", "unknown"}

\* "acquired" to "posting" are inside the try block of publish, "release" is
\* its finally clause; "refused", "done" and "crashed" are ends.
Running == {"acquired", "started", "verify", "verified", "list", "items",
            "scan", "posting", "fail_all", "fail_keep"}
Ended   == {"done", "refused", "crashed"}
PCs     == {"idle", "release"} \cup Running \cup Ended

-----------------------------------------------------------------------------
(* What the store and the platform answer                                  *)

\* The WHERE clauses of update_publication_item and renew_publication_lease:
\* the lease row is this invocation's and has not expired.
HoldsLease(p) == lease.live /\ lease.owner = p /\ lease.token = token[p]

HasComment(i) == \E p \in Owners : <<p, i>> \in comments

\* Mutant: only a failure spoils the success of the whole publication.
AggregateFailuresOnly(states) ==
    IF "failed" \notin states THEN "succeeded"
    ELSE IF "succeeded" \in states THEN "partial" ELSE "failed"

AggregateState(states) ==
    IF "unknown" \in states THEN "unknown"
    ELSE IF states = {"succeeded"} THEN "succeeded"
    ELSE IF "succeeded" \in states /\ "failed" \in states THEN "partial"
    ELSE IF "failed" \in states THEN "failed"
    ELSE "pending"

StoredResult == AggregateState({items[i].state : i \in Items})

\* The next item of the loop over the plan's items.
IsNext(p, i) == i \in todo[p] /\ \A j \in todo[p] : i <= j

-----------------------------------------------------------------------------
(* Steps shared by the actions                                             *)

Goto(p, l) == pc' = [pc EXCEPT ![p] = l]

SkipItem(p, i) == todo' = [todo EXCEPT ![p] = @ \ {i}]

\* An exception leaves the try block; nothing else changes.
Abort(p) == Goto(p, "release") /\ UNCHANGED <<store, memory, remote>>

\* Mutant: the version alone guards a row.
CanUpdateByVersion(p, i) == prepared /\ items[i].version = prior[p][i].version

\* update_publication_item: compare-and-swap on the item's version under the
\* lease.  A row that does not match raises publication_fence_lost.
CanUpdate(p, i) ==
    /\ prepared
    /\ HoldsLease(p)
    /\ items[i].version = prior[p][i].version

UpdateItem(p, i, s) ==
    items' = [items EXCEPT ![i] = [state   |-> s,
                                   version |-> @.version + 1,
                                   token   |-> token[p]]]

\* Settle item i as s and go on with the loop at l, or lose the fence.
Settle(p, i, s, l) ==
    \/ /\ CanUpdate(p, i)
       /\ UpdateItem(p, i, s)
       /\ SkipItem(p, i)
       /\ Goto(p, l)
       /\ UNCHANGED <<prepared, lease, fence, token, prior, found, result, remote>>
    \/ ~CanUpdate(p, i) /\ Abort(p)

-----------------------------------------------------------------------------
(* The steps of an invocation                                              *)

\* Mutant: a live lease does not refuse the caller.
AcquireAnyway(p) ==
    /\ pc[p] = "idle"
    /\ fence' = fence + 1
    /\ lease' = [owner |-> p, token |-> fence + 1, live |-> TRUE]
    /\ token' = [token EXCEPT ![p] = fence + 1]
    /\ Goto(p, "acquired")
    /\ UNCHANGED <<prepared, items, prior, todo, found, result, remote>>

\* acquire_publication_lease: an expired row is deleted, a live one refuses
\* the caller, otherwise the next fencing token is handed out.
Acquire(p) ==
    /\ pc[p] = "idle"
    /\ ~lease.live
    /\ fence' = fence + 1
    /\ lease' = [owner |-> p, token |-> fence + 1, live |-> TRUE]
    /\ token' = [token EXCEPT ![p] = fence + 1]
    /\ Goto(p, "acquired")
    /\ UNCHANGED <<prepared, items, prior, todo, found, result, remote>>

Refuse(p) ==
    /\ pc[p] = "idle"
    /\ lease.live
    /\ Goto(p, "refused")
    /\ UNCHANGED <<store, memory, remote>>

\* Mutant: a retry takes up every item again.
ReadEveryRow(p) ==
    /\ pc[p] = "acquired"
    /\ prepared
    /\ prior' = [prior EXCEPT ![p] = items]
    /\ todo' = [todo EXCEPT ![p] = Items]
    /\ Goto(p, "started")
    /\ UNCHANGED <<store, token, found, result, remote>>

\* _publish_locked reads the plan and the rows; nothing left means the result
\* is returned without any remote call.
ReadRows(p) ==
    /\ pc[p] = "acquired"
    /\ prepared
    /\ LET remaining == {i \in Items : items[i].state # "succeeded"}
       IN  /\ prior'  = [prior EXCEPT ![p] = items]
           /\ todo'   = [todo EXCEPT ![p] = remaining]
           /\ result' = [result EXCEPT ![p] =
                            IF remaining = {} THEN StoredResult ELSE @]
           /\ Goto(p, IF remaining = {} THEN "release" ELSE "started")
    /\ UNCHANGED <<store, token, found, remote>>

RowsGone(p) ==
    /\ pc[p] = "acquired"
    /\ ~prepared
    /\ Abort(p)

\* The three calls of _renew: before verify_target, before find_markers and
\* before the creation of each item that the listing did not find.
Renewed(l) == IF l = "started" THEN "verify"
              ELSE IF l = "verified" THEN "list" ELSE "scan"

\* Mutant: a lost lease goes unnoticed.
RenewUnchecked(p) ==
    /\ \/ pc[p] \in {"started", "verified"}
       \/ pc[p] = "items" /\ \E i \in Items \ found[p] : IsNext(p, i)
    /\ Goto(p, Renewed(pc[p]))
    /\ UNCHANGED <<store, memory, remote>>

\* Mutant: the renewal is tried until it succeeds.
RenewPersistently(p) ==
    /\ \/ pc[p] \in {"started", "verified"}
       \/ pc[p] = "items" /\ \E i \in Items \ found[p] : IsNext(p, i)
    /\ HoldsLease(p)
    /\ Goto(p, Renewed(pc[p]))
    /\ UNCHANGED <<store, memory, remote>>

Renew(p) ==
    /\ \/ pc[p] \in {"started", "verified"}
       \/ pc[p] = "items" /\ \E i \in Items \ found[p] : IsNext(p, i)
    /\ IF HoldsLease(p) THEN Goto(p, Renewed(pc[p])) ELSE Goto(p, "release")
    /\ UNCHANGED <<store, memory, remote>>

\* verify_target: open with the reviewed head, or else every remaining item
\* fails, those whose outcome was unknown included.
VerifyTarget(p) ==
    /\ pc[p] = "verify"
    /\ Goto(p, "verified") \/ Goto(p, "fail_all")
    /\ UNCHANGED <<store, memory, remote>>

\* Mutant: only the items known to be unknown are looked for.
FindUnknownMarkers(p) ==
    /\ pc[p] = "list"
    /\ \/ /\ found' = [found EXCEPT ![p] = {i \in todo[p] :
                           HasComment(i) /\ prior[p][i].state = "unknown"}]
          /\ Goto(p, "items")
       \/ Goto(p, "fail_keep") /\ UNCHANGED found
    /\ UNCHANGED <<store, token, prior, todo, result, remote>>

\* find_markers lists the comments completely, or fails; then items whose
\* outcome was unknown stay so.
FindMarkers(p) ==
    /\ pc[p] = "list"
    /\ \/ /\ found' = [found EXCEPT ![p] = {i \in todo[p] : HasComment(i)}]
          /\ Goto(p, "items")
       \/ Goto(p, "fail_keep") /\ UNCHANGED found
    /\ UNCHANGED <<store, token, prior, todo, result, remote>>

\* _fail_remaining, one item at a time.
FailItem(p, i) ==
    /\ pc[p] \in {"fail_all", "fail_keep"}
    /\ IsNext(p, i)
    /\ IF pc[p] = "fail_keep" /\ prior[p][i].state = "unknown"
       THEN SkipItem(p, i) /\ UNCHANGED <<store, pc, token, prior, found, result, remote>>
       ELSE Settle(p, i, "failed", pc[p])

\* The listing found the item's marker: it is published already.
AdoptFound(p, i) ==
    /\ pc[p] = "items"
    /\ IsNext(p, i)
    /\ i \in found[p]
    /\ Settle(p, i, "succeeded", "items")

\* The body no longer passes the security scan.
RejectContent(p, i) ==
    /\ pc[p] = "scan"
    /\ IsNext(p, i)
    /\ Settle(p, i, "failed", "items")

\* create_line_comment or create_summary_comment sends its request.
SendComment(p, i) ==
    /\ pc[p] = "scan"
    /\ IsNext(p, i)
    /\ inflight' = inflight \cup {<<p, i>>}
    /\ Goto(p, "posting")
    /\ UNCHANGED <<store, memory, comments>>

\* The answer: 2xx, a definite refusal, or anything after which the comment
\* may exist (transport error, time-out, 5xx, unreadable answer).
RecordCreated(p, i) ==
    /\ pc[p] = "posting"
    /\ IsNext(p, i)
    /\ <<p, i>> \in comments
    /\ Settle(p, i, "succeeded", "items")

RecordRefused(p, i) ==
    /\ pc[p] = "posting"
    /\ IsNext(p, i)
    /\ <<p, i>> \notin comments \cup inflight
    /\ Settle(p, i, "failed", "items")

\* Mutant: any answer of the platform counts as success.
RecordOptimistically(p, i) ==
    /\ pc[p] = "posting"
    /\ IsNext(p, i)
    /\ Settle(p, i, "succeeded", "items")

\* Mutant: a state the table does not have.
RecordTimeout(p, i) ==
    /\ pc[p] = "posting"
    /\ IsNext(p, i)
    /\ Settle(p, i, "timeout", "items")

RecordUnknown(p, i) ==
    /\ pc[p] = "posting"
    /\ IsNext(p, i)
    /\ Settle(p, i, "unknown", "items")

\* The loop is over: the stored result is read again and returned.
Finish(p) ==
    /\ pc[p] \in {"items", "fail_all", "fail_keep"}
    /\ todo[p] = {}
    /\ result' = [result EXCEPT ![p] = IF prepared THEN StoredResult ELSE @]
    /\ Goto(p, "release")
    /\ UNCHANGED <<store, token, prior, todo, found, remote>>

\* Any other exception inside the try block: a trace write that fails, a
\* keyboard interrupt, also one while the answer is awaited.
Interrupt(p) == pc[p] \in Running /\ Abort(p)

\* The request of p is decided, as far as Prompt asks for it.
Quiet(p) == Prompt => \A i \in Items : <<p, i>> \notin inflight

\* Mutant: the finally clause deletes whichever lease row it finds.
ReleaseAnyLease(p) ==
    /\ pc[p] = "release"
    /\ Quiet(p)
    /\ lease' = NoLease
    /\ Goto(p, "done")
    /\ UNCHANGED <<prepared, items, fence, memory, remote>>

\* The finally clause deletes the lease row if it still is this invocation's.
Release(p) ==
    /\ pc[p] = "release"
    /\ Quiet(p)
    /\ lease' = IF lease.owner = p /\ lease.token = token[p] THEN NoLease ELSE lease
    /\ Goto(p, "done")
    /\ UNCHANGED <<prepared, items, fence, memory, remote>>

-----------------------------------------------------------------------------
(* The platform, the clock, the operator                                   *)

\* The platform creates the comment of a request, or never will.
Land(p, i) ==
    /\ <<p, i>> \in inflight
    /\ inflight' = inflight \ {<<p, i>>}
    /\ comments' = comments \cup {<<p, i>>}
    /\ UNCHANGED <<store, pc, memory>>

Drop(p, i) ==
    /\ <<p, i>> \in inflight
    /\ inflight' = inflight \ {<<p, i>>}
    /\ UNCHANGED <<store, pc, memory, comments>>

\* 600 seconds without a renewal.
ExpireLease ==
    /\ lease.live
    /\ Prompt => pc[lease.owner] # "scan"
    /\ Quiet(lease.owner)
    /\ lease' = [owner |-> lease.owner, token |-> lease.token, live |-> FALSE]
    /\ UNCHANGED <<prepared, items, fence, pc, memory, remote>>

\* The process dies; its lease row stays.
Crash(p) ==
    /\ pc[p] \in Running \cup {"release"}
    /\ Goto(p, "crashed")
    /\ UNCHANGED <<store, memory, remote>>

\* The cleanup command deletes plan, items, lease and fence, whoever publishes.
Cleanup ==
    /\ prepared
    /\ prepared' = FALSE
    /\ lease' = NoLease
    /\ fence' = 0
    /\ UNCHANGED <<items, pc, memory, remote>>

Quiescent ==
    /\ \A p \in Owners : pc[p] \in Ended
    /\ UNCHANGED vars

-----------------------------------------------------------------------------
\* save_publication_plan has inserted every item as pending.
Init ==
    /\ prepared = TRUE
    /\ items = [i \in Items |-> [state |-> "pending", version |-> 1, token |-> 0]]
    /\ lease = NoLease
    /\ fence = 0
    /\ pc = [p \in Owners |-> "idle"]
    /\ token = [p \in Owners |-> 0]
    /\ prior = [p \in Owners |-> items]
    /\ todo = [p \in Owners |-> {}]
    /\ found = [p \in Owners |-> {}]
    /\ result = [p \in Owners |-> "none"]
    /\ inflight = {}
    /\ comments = {}

ItemStep(p) == \E i \in Items :
    \/ FailItem(p, i)      \/ AdoptFound(p, i)    \/ RejectContent(p, i)
    \/ SendComment(p, i)   \/ RecordCreated(p, i) \/ RecordRefused(p, i)
    \/ RecordUnknown(p, i)

Run(p) ==
    \/ Acquire(p) \/ Refuse(p) \/ ReadRows(p) \/ RowsGone(p) \/ Renew(p)
    \/ VerifyTarget(p) \/ FindMarkers(p) \/ ItemStep(p) \/ Finish(p)
    \/ Release(p)

Platform == \E p \in Owners, i \in Items : Land(p, i) \/ Drop(p, i)

Next ==
    \/ \E p \in Owners : Run(p) \/ Interrupt(p) \/ Crash(p)
    \/ Platform
    \/ ExpireLease
    \/ Cleanup
    \/ Quiescent

Spec == Init /\ [][Next]_vars

\* A started process that does not crash keeps running, a request is decided
\* some day (a time-out bounds the wait for it).
Fairness ==
    /\ \A p \in Owners : WF_vars(Run(p))
    /\ WF_vars(Platform)

FairSpec == Spec /\ Fairness

-----------------------------------------------------------------------------
(* Properties                                                              *)

Rows == [state : ItemStates, version : Nat, token : Nat]

\* Type invariant: the values the store rows, the invocations of publish and
\* the platform can take.
TypeOK ==
    /\ prepared \in BOOLEAN
    /\ items \in [Items -> Rows]
    /\ lease \in [owner : Owners \cup {"none"}, token : Nat, live : BOOLEAN]
    /\ fence \in Nat
    /\ pc \in [Owners -> PCs]
    /\ token \in [Owners -> Nat]
    /\ prior \in [Owners -> [Items -> Rows]]
    /\ todo \in [Owners -> SUBSET Items]
    /\ found \in [Owners -> SUBSET Items]
    /\ result \in [Owners -> ResultStates \cup {"none"}]
    /\ inflight \in SUBSET (Owners \X Items)
    /\ comments \in SUBSET (Owners \X Items)

\* Between its last renewal and the decision of its last request, an
\* invocation relies on nobody else creating comments.
Critical(p) == pc[p] = "scan" \/ \E i \in Items : <<p, i>> \in inflight

\* However invocations of publish overlap, crash, are interrupted or lose
\* their lease, and whatever the cleanup command deletes meanwhile, only one
\* of them at a time is about to create, or creating, a comment.
OneWriter == Prompt => \A p, q \in Owners : Critical(p) /\ Critical(q) => p = q

\* No planned item gets two comments on the platform: the marker listing and
\* the lease of publish make every retry safe.
NoDuplicateComments ==
    Prompt => \A i \in Items : \A p, q \in Owners :
        <<p, i>> \in comments /\ <<q, i>> \in comments => p = q

\* A row says succeeded only if the item's comment is on the platform,
\* whichever invocation created it and whichever one recorded it.
SucceededIsPublished ==
    \A i \in Items : items[i].state = "succeeded" => HasComment(i)

\* An invocation that returns succeeded has every planned comment behind it,
\* also when other invocations changed the rows under it.
SuccessReportIsTrue ==
    \A p \in Owners : result[p] = "succeeded" => \A i \in Items : HasComment(i)

\* Confirmed successes are not rolled back: no later invocation, and no late
\* write of an earlier one, takes a row out of succeeded.
SucceededIsFinal ==
    [][\A i \in Items : items[i].state = "succeeded" => items'[i].state = "succeeded"]_vars

\* A row is only ever changed under the newest fencing token handed out, so an
\* invocation whose lease was taken over can no longer write.
WritesAreFenced ==
    [][\A i \in Items : items'[i] # items[i] =>
            items'[i].token = fence /\ items'[i].token >= items[i].token]_vars

\* A row says failed only if the platform holds no comment of that item: the
\* result failed stands for "all attempted items have known failures".
FailedMeansNotPublished ==
    \A i \in Items : items[i].state = "failed" => ~HasComment(i)

\* Every invocation that was given the lease ends or its process dies: none is
\* for ever between acquire_publication_lease and its release.
InvocationsEnd ==
    \A p \in Owners : []<>(pc[p] \in {"idle", "refused", "done", "crashed"})

\* Publication implements "at most one comment per item, reported only once
\* it is there".
Once == INSTANCE PublishOnce WITH
            reported <- {i \in Items : items[i].state = "succeeded"}

ImplementsPublishOnce == Once!Spec

-----------------------------------------------------------------------------
(* The inductive invariant behind these properties                         *)

\* The lease row and the counter behind it.
LeaseInv ==
    /\ lease.live => /\ lease.owner \in Owners
                     /\ lease.token = token[lease.owner]
                     /\ lease.token = fence
                     /\ pc[lease.owner] \notin {"idle", "refused", "done"}
    /\ prepared => \A i \in Items : items[i].token <= fence
    /\ lease.live /\ ~prepared =>
           pc[lease.owner] \in {"acquired", "release", "crashed"}

\* What an invocation remembers of the rows it still has to deal with.
MemoryInv ==
    \A p \in Owners :
        /\ \A i \in todo[p] :
               /\ prior[p][i].state # "succeeded"
               /\ prior[p][i].version <= items[i].version
               /\ prior[p][i].version = items[i].version =>
                      prior[p][i].state = items[i].state
        /\ \A i \in found[p] : HasComment(i)
        /\ pc[p] = "scan" => \A i \in Items : IsNext(p, i) => i \notin found[p]

\* Whoever is critical holds the lease.
CriticalInv ==
    Prompt =>
        /\ \A p \in Owners : prepared /\ Critical(p) => HoldsLease(p)
        /\ \A p \in Owners, i \in Items : <<p, i>> \in inflight =>
               pc[p] \in {"items", "scan", "posting", "release", "crashed"}

\* Item i has no comment and none is on its way.
Untouched(i) == \A p \in Owners : <<p, i>> \notin comments \cup inflight

\* A request on its way is for an item without a comment.
InflightAbsent ==
    \A p \in Owners, i \in Items : <<p, i>> \in inflight => ~HasComment(i)

\* So is the item about to be created.
ScanAbsent ==
    \A p \in Owners, i \in Items : pc[p] = "scan" /\ IsNext(p, i) => Untouched(i)

\* The items the listing of the lease holder did not find are still untouched,
\* but for the one whose request is out.
Absent(p) ==
    \A i \in todo[p] \ found[p] :
        Untouched(i) \/ (pc[p] = "posting" /\ IsNext(p, i))

Listed == {"items", "scan", "posting"}

HolderAbsent ==
    \A p \in Owners : prepared /\ HoldsLease(p) /\ pc[p] \in Listed => Absent(p)

AbsentInv == Prompt => InflightAbsent /\ ScanAbsent /\ HolderAbsent

IInv ==
    /\ TypeOK
    /\ LeaseInv
    /\ MemoryInv
    /\ CriticalInv
    /\ AbsentInv
    /\ OneWriter
    /\ NoDuplicateComments
    /\ SucceededIsPublished
    /\ SuccessReportIsTrue
=============================================================================
