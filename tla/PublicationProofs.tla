------------------------- MODULE PublicationProofs -------------------------
(***************************************************************************)
(* Proofs about Publication, for every set of invocations, every number of *)
(* planned items and, where Prompt is not assumed, every timing.           *)
(***************************************************************************)
EXTENDS Publication, TLAPS

USE PublicationAssumption

-----------------------------------------------------------------------------
(* Facts about the operators                                               *)

\* The overall state computed from the rows is one of the documented states.
LEMMA StoredResultType == StoredResult \in ResultStates
  BY DEF StoredResult, AggregateState, ResultStates

\* The overall state is succeeded only if no row is in another state.
LEMMA StoredSuccess ==
  StoredResult = "succeeded" => \A i \in Items : items[i].state = "succeeded"
  <1> SUFFICES ASSUME StoredResult = "succeeded", NEW i \in Items
               PROVE  items[i].state = "succeeded"
    OBVIOUS
  <1> DEFINE S == {items[j].state : j \in Items}
  <1>1. AggregateState(S) = "succeeded" => S = {"succeeded"}
    BY DEF AggregateState
  <1>2. S = {"succeeded"}
    BY <1>1 DEF StoredResult
  <1>3. QED BY <1>2

\* There is at most one next item.
LEMMA NextIsUnique ==
  ASSUME TypeOK, NEW p \in Owners, NEW i \in Items, NEW j \in Items,
         IsNext(p, i), IsNext(p, j)
  PROVE  i = j
  BY DEF IsNext, Items, TypeOK

-----------------------------------------------------------------------------
(* Next by kinds of steps: what a step may change, and when                *)

\* Only the place in the code changes.
Hop(p) ==
    /\ UNCHANGED <<store, memory, remote>>
    /\ \/ pc[p] = "idle" /\ Goto(p, "refused")
       \/ pc[p] \in Running /\ Goto(p, "release")
       \/ pc[p] \in Running \cup {"release"} /\ Goto(p, "crashed")
       \/ pc[p] = "started" /\ HoldsLease(p) /\ Goto(p, "verify")
       \/ pc[p] = "verify" /\ (Goto(p, "verified") \/ Goto(p, "fail_all"))
       \/ pc[p] = "verified" /\ HoldsLease(p) /\ Goto(p, "list")
       \/ pc[p] = "list" /\ Goto(p, "fail_keep")

\* The renewal before the creation of item i succeeds.
RenewFor(p, i) ==
    /\ UNCHANGED <<store, memory, remote>>
    /\ pc[p] = "items" /\ IsNext(p, i) /\ i \notin found[p] /\ HoldsLease(p)
    /\ Goto(p, "scan")

\* The listing of the comments succeeds.
List(p) ==
    /\ pc[p] = "list"
    /\ found' = [found EXCEPT ![p] = {i \in todo[p] : HasComment(i)}]
    /\ Goto(p, "items")
    /\ UNCHANGED <<store, token, prior, todo, result, remote>>

\* Item i is left as it is.
Keep(p, i) ==
    /\ pc[p] = "fail_keep"
    /\ SkipItem(p, i)
    /\ UNCHANGED <<store, pc, token, prior, found, result, remote>>

\* Item i is written with state s, under the lease.
Write(p, i, s, l) ==
    /\ \/ l = "items" /\ pc[p] \in {"items", "scan", "posting"}
       \/ l \in {"fail_all", "fail_keep"} /\ l = pc[p]
    /\ IsNext(p, i)
    /\ s = "succeeded" => HasComment(i)
    /\ CanUpdate(p, i)
    /\ UpdateItem(p, i, s)
    /\ SkipItem(p, i)
    /\ Goto(p, l)
    /\ UNCHANGED <<prepared, lease, fence, token, prior, found, result, remote>>

Loops == {"items", "fail_all", "fail_keep"}

\* Settling an item either writes it or leaves the try block.
LEMMA SettleKinds ==
  ASSUME NEW p \in Owners, NEW i \in Items, NEW s \in ItemStates, NEW l \in Loops,
         Settle(p, i, s, l), IsNext(p, i), pc[p] \in Running,
         s = "succeeded" => HasComment(i),
         \/ l = "items" /\ pc[p] \in {"items", "scan", "posting"}
         \/ l \in {"fail_all", "fail_keep"} /\ l = pc[p]
  PROVE  Write(p, i, s, l) \/ Hop(p)
  BY DEF Settle, Write, Hop, Abort

\* Every step is of one of these kinds.
LEMMA StepKinds ==
  ASSUME TypeOK, MemoryInv, [Next]_vars
  PROVE  \/ \E p \in Owners : \/ Acquire(p) \/ ReadRows(p) \/ List(p)
                              \/ Finish(p) \/ Release(p) \/ Hop(p)
         \/ \E p \in Owners, i \in Items :
               \/ RenewFor(p, i) \/ Keep(p, i) \/ SendComment(p, i)
               \/ Land(p, i) \/ Drop(p, i)
               \/ \E s \in ItemStates, l \in Loops : Write(p, i, s, l)
         \/ ExpireLease \/ Cleanup \/ UNCHANGED vars
  <1> DEFINE Writes == \E p \in Owners, i \in Items :
                          \E s \in ItemStates, l \in Loops : Write(p, i, s, l)
             Hops == \E p \in Owners : Hop(p)
  <1>1. ASSUME NEW p \in Owners, Refuse(p) \/ RowsGone(p) \/ Interrupt(p) \/ Crash(p)
                                 \/ VerifyTarget(p)
        PROVE  Hops
    BY <1>1 DEF Hop, Refuse, RowsGone, Interrupt, Crash, VerifyTarget, Abort, Running
  <1>2. ASSUME NEW p \in Owners, FindMarkers(p) PROVE List(p) \/ Hops
    BY <1>2 DEF Hop, List, FindMarkers, memory
  <1>3. ASSUME NEW p \in Owners, Renew(p)
        PROVE  Hops \/ \E i \in Items : RenewFor(p, i)
    BY <1>3 DEF Hop, RenewFor, Renew, Renewed, Running
  <1>4. ASSUME NEW p \in Owners, NEW i \in Items, FailItem(p, i)
        PROVE  Keep(p, i) \/ Writes \/ Hops
    <2>1. CASE pc[p] = "fail_keep" /\ prior[p][i].state = "unknown"
      BY <1>4, <2>1 DEF FailItem, Keep
    <2>2. CASE ~(pc[p] = "fail_keep" /\ prior[p][i].state = "unknown")
      <3>1. Settle(p, i, "failed", pc[p]) /\ IsNext(p, i) /\ pc[p] \in {"fail_all", "fail_keep"}
        BY <1>4, <2>2 DEF FailItem
      <3>2. QED BY <3>1, SettleKinds DEF ItemStates, Loops, Running
    <2>3. QED BY <2>1, <2>2
  <1>5. ASSUME NEW p \in Owners, NEW i \in Items, AdoptFound(p, i) \/ RecordCreated(p, i)
        PROVE  Writes \/ Hops
    <2>1. /\ Settle(p, i, "succeeded", "items") /\ IsNext(p, i)
          /\ pc[p] \in {"items", "posting"}
      BY <1>5 DEF AdoptFound, RecordCreated
    <2>2. HasComment(i)
      BY <1>5 DEF AdoptFound, RecordCreated, HasComment, MemoryInv
    <2>3. QED BY <2>1, <2>2, SettleKinds DEF ItemStates, Loops, Running
  <1>6. ASSUME NEW p \in Owners, NEW i \in Items,
               RejectContent(p, i) \/ RecordRefused(p, i) \/ RecordUnknown(p, i)
        PROVE  Writes \/ Hops
    BY <1>6, SettleKinds
       DEF RejectContent, RecordRefused, RecordUnknown, ItemStates, Loops, Running
  <1>7. QED
    BY <1>1, <1>2, <1>3, <1>4, <1>5, <1>6 DEF Next, Run, ItemStep, Platform, Quiescent

-----------------------------------------------------------------------------
(* Each part of the invariant is kept by each kind of step                 *)

\* Each step keeps the type invariant.
LEMMA TypeStep ==
  ASSUME TypeOK, MemoryInv, [Next]_vars
  PROVE  TypeOK'
  <1> USE DEF TypeOK, PCs, Running, Ended, Loops
  <1>1. ASSUME NEW p \in Owners, Acquire(p) PROVE TypeOK'
    BY <1>1 DEF Acquire, Goto, memory, remote
  <1>2. ASSUME NEW p \in Owners, ReadRows(p) PROVE TypeOK'
    BY <1>2, StoredResultType DEF ReadRows, Goto, store, memory, remote
  <1>3. ASSUME NEW p \in Owners, List(p) PROVE TypeOK'
    BY <1>3 DEF List, Goto, store, memory, remote
  <1>4. ASSUME NEW p \in Owners, Finish(p) PROVE TypeOK'
    BY <1>4, StoredResultType DEF Finish, Goto, store, remote
  <1>5. ASSUME NEW p \in Owners, Release(p) PROVE TypeOK'
    BY <1>5 DEF Release, NoLease, Goto, memory, remote
  <1>6. ASSUME NEW p \in Owners, Hop(p) PROVE TypeOK'
    BY <1>6 DEF Hop, Goto, Running, store, memory, remote
  <1>7. ASSUME NEW p \in Owners, NEW i \in Items, RenewFor(p, i) PROVE TypeOK'
    BY <1>7 DEF RenewFor, Goto, store, memory, remote
  <1>8. ASSUME NEW p \in Owners, NEW i \in Items, Keep(p, i) PROVE TypeOK'
    BY <1>8 DEF Keep, SkipItem, store, remote
  <1>9. ASSUME NEW p \in Owners, NEW i \in Items, SendComment(p, i) PROVE TypeOK'
    BY <1>9 DEF SendComment, Goto, store, memory
  <1>10. ASSUME NEW p \in Owners, NEW i \in Items, Land(p, i) PROVE TypeOK'
    BY <1>10 DEF Land, store, memory
  <1>11. ASSUME NEW p \in Owners, NEW i \in Items, Drop(p, i) PROVE TypeOK'
    BY <1>11 DEF Drop, store, memory
  <1>12. ASSUME NEW p \in Owners, NEW i \in Items,
               NEW s \in ItemStates, NEW l \in Loops, Write(p, i, s, l) PROVE TypeOK'
    <2>1. items' \in [Items -> Rows]
      BY <1>12 DEF Write, UpdateItem, Rows
    <2>2. todo' \in [Owners -> SUBSET Items]
      BY <1>12 DEF Write, SkipItem
    <2>3. QED BY <1>12, <2>1, <2>2 DEF Write, Goto, remote
  <1>13. ASSUME ExpireLease PROVE TypeOK'
    BY <1>13 DEF ExpireLease, memory, remote
  <1>14. ASSUME Cleanup PROVE TypeOK'
    BY <1>14 DEF Cleanup, NoLease, memory, remote
  <1>15. ASSUME UNCHANGED vars PROVE TypeOK'
    BY <1>15 DEF vars
  <1>16. QED
    BY StepKinds, <1>1, <1>2, <1>3, <1>4, <1>5, <1>6, <1>7, <1>8, <1>9,
       <1>10, <1>11, <1>12, <1>13, <1>14, <1>15

\* Each step keeps the invariant of the lease row and its counter.
LEMMA LeaseStep ==
  ASSUME TypeOK, LeaseInv, MemoryInv, [Next]_vars
  PROVE  LeaseInv'
  <1> USE DEF TypeOK, LeaseInv
  <1>1. ASSUME NEW p \in Owners, Acquire(p) PROVE LeaseInv'
    <2> USE <1>1 DEF Acquire, Goto, memory, remote
    <2>1. lease'.owner = p /\ lease'.token = fence' /\ token'[p] = fence' /\ pc'[p] = "acquired"
      OBVIOUS
    <2>2. ASSUME prepared', NEW i \in Items PROVE items'[i].token <= fence'
      BY <2>2 DEF Rows
    <2>3. QED BY <2>1, <2>2
  <1>2. ASSUME NEW p \in Owners, ReadRows(p) PROVE LeaseInv'
    BY <1>2 DEF ReadRows, Goto, store, memory, remote
  <1>3. ASSUME NEW p \in Owners, List(p) PROVE LeaseInv'
    BY <1>3 DEF List, Goto, store, memory, remote
  <1>4. ASSUME NEW p \in Owners, Finish(p) PROVE LeaseInv'
    BY <1>4 DEF Finish, Goto, store, remote
  <1>5. ASSUME NEW p \in Owners, Release(p) PROVE LeaseInv'
    BY <1>5 DEF Release, NoLease, Goto, memory, remote
  <1>6. ASSUME NEW p \in Owners, Hop(p) PROVE LeaseInv'
    BY <1>6 DEF Hop, Goto, Running, store, memory, remote
  <1>7. ASSUME NEW p \in Owners, NEW i \in Items, RenewFor(p, i) PROVE LeaseInv'
    BY <1>7 DEF RenewFor, Goto, store, memory, remote
  <1>8. ASSUME NEW p \in Owners, NEW i \in Items, Keep(p, i) PROVE LeaseInv'
    BY <1>8 DEF Keep, SkipItem, store, remote
  <1>9. ASSUME NEW p \in Owners, NEW i \in Items, SendComment(p, i) PROVE LeaseInv'
    BY <1>9 DEF SendComment, Goto, store, memory
  <1>10. ASSUME NEW p \in Owners, NEW i \in Items, Land(p, i) PROVE LeaseInv'
    BY <1>10 DEF Land, store, memory
  <1>11. ASSUME NEW p \in Owners, NEW i \in Items, Drop(p, i) PROVE LeaseInv'
    BY <1>11 DEF Drop, store, memory
  <1>12. ASSUME NEW p \in Owners, NEW i \in Items,
               NEW s \in ItemStates, NEW l \in Loops, Write(p, i, s, l) PROVE LeaseInv'
    <2> USE <1>12 DEF Write, CanUpdate, HoldsLease, Goto, remote
    <2>1. /\ UNCHANGED <<lease, token, fence, prepared>>
          /\ prepared /\ lease.live /\ lease.owner = p /\ token[p] = fence
      OBVIOUS
    <2>2. pc'[lease.owner] \notin {"idle", "refused", "done"}
      BY <2>1 DEF Loops
    <2>3. ASSUME NEW j \in Items PROVE items'[j].token <= fence
      BY <2>1 DEF UpdateItem, Rows
    <2>4. QED BY <2>1, <2>2, <2>3
  <1>13. ASSUME ExpireLease PROVE LeaseInv'
    BY <1>13 DEF ExpireLease, memory, remote
  <1>14. ASSUME Cleanup PROVE LeaseInv'
    BY <1>14 DEF Cleanup, NoLease, memory, remote
  <1>15. ASSUME UNCHANGED vars PROVE LeaseInv'
    BY <1>15 DEF vars
  <1>16. QED
    BY StepKinds, <1>1, <1>2, <1>3, <1>4, <1>5, <1>6, <1>7, <1>8, <1>9,
       <1>10, <1>11, <1>12, <1>13, <1>14, <1>15

\* Each step keeps the invariant of what the invocations remember.
LEMMA MemoryStep ==
  ASSUME TypeOK, LeaseInv, MemoryInv, [Next]_vars
  PROVE  MemoryInv'
  <1> USE DEF TypeOK, MemoryInv, HasComment, IsNext
  <1>1. ASSUME NEW p \in Owners, Acquire(p) PROVE MemoryInv'
    BY <1>1 DEF Acquire, Goto, memory, remote
  <1>2. ASSUME NEW p \in Owners, ReadRows(p) PROVE MemoryInv'
    <2> USE <1>2 DEF ReadRows, Goto, store, memory, remote
    <2>1. ASSUME NEW q \in Owners, NEW j \in todo'[q]
          PROVE  /\ prior'[q][j].state # "succeeded"
                 /\ prior'[q][j].version <= items'[j].version
                 /\ prior'[q][j].version = items'[j].version =>
                        prior'[q][j].state = items'[j].state
      BY <2>1 DEF Rows
    <2>2. pc'[p] # "scan" /\ \A q \in Owners \ {p} : pc'[q] = pc[q] /\ todo'[q] = todo[q]
      OBVIOUS
    <2>3. QED BY <2>1, <2>2
  <1>3. ASSUME NEW p \in Owners, List(p) PROVE MemoryInv'
    BY <1>3 DEF List, Goto, store, memory, remote
  <1>4. ASSUME NEW p \in Owners, Finish(p) PROVE MemoryInv'
    BY <1>4 DEF Finish, Goto, store, remote
  <1>5. ASSUME NEW p \in Owners, Release(p) PROVE MemoryInv'
    BY <1>5 DEF Release, NoLease, Goto, memory, remote
  <1>6. ASSUME NEW p \in Owners, Hop(p) PROVE MemoryInv'
    <2>1. UNCHANGED <<items, prior, todo, found, comments>>
      BY <1>6 DEF Hop, store, memory, remote
    <2>2. ASSUME NEW q \in Owners, pc'[q] = "scan" PROVE pc[q] = "scan"
      BY <1>6, <2>2 DEF Hop, Goto
    <2>3. QED BY <2>1, <2>2
  <1>7. ASSUME NEW p \in Owners, NEW i \in Items, RenewFor(p, i) PROVE MemoryInv'
    <2>1. UNCHANGED <<items, prior, todo, found, comments>>
      BY <1>7 DEF RenewFor, store, memory, remote
    <2>2. ASSUME NEW q \in Owners, q # p, pc'[q] = "scan" PROVE pc[q] = "scan"
      BY <1>7, <2>2 DEF RenewFor, Goto
    <2>3. ASSUME NEW j \in Items, IsNext(p, j)' PROVE j \notin found'[p]
      BY <1>7, <2>1, <2>3, NextIsUnique DEF RenewFor
    <2>4. QED BY <2>1, <2>2, <2>3
  <1>8. ASSUME NEW p \in Owners, NEW i \in Items, Keep(p, i) PROVE MemoryInv'
    BY <1>8 DEF Keep, SkipItem, store, remote
  <1>9. ASSUME NEW p \in Owners, NEW i \in Items, SendComment(p, i) PROVE MemoryInv'
    BY <1>9 DEF SendComment, Goto, store, memory
  <1>10. ASSUME NEW p \in Owners, NEW i \in Items, Land(p, i) PROVE MemoryInv'
    BY <1>10 DEF Land, store, memory
  <1>11. ASSUME NEW p \in Owners, NEW i \in Items, Drop(p, i) PROVE MemoryInv'
    BY <1>11 DEF Drop, store, memory
  <1>12. ASSUME NEW p \in Owners, NEW i \in Items,
               NEW s \in ItemStates, NEW l \in Loops, Write(p, i, s, l) PROVE MemoryInv'
    <2>1. UNCHANGED <<prior, found, comments>>
      BY <1>12 DEF Write, remote
    <2>2. /\ todo' = [todo EXCEPT ![p] = @ \ {i}]
          /\ items' = [items EXCEPT ![i] = [state |-> s, version |-> @.version + 1,
                                            token |-> token[p]]]
          /\ items[i].version = prior[p][i].version
      BY <1>12 DEF Write, CanUpdate, UpdateItem, SkipItem
    <2>3. ASSUME NEW q \in Owners, NEW j \in todo'[q]
          PROVE  /\ prior'[q][j].state # "succeeded"
                 /\ prior'[q][j].version <= items'[j].version
                 /\ prior'[q][j].version = items'[j].version =>
                        prior'[q][j].state = items'[j].state
      BY <2>1, <2>2, <2>3 DEF Rows
    <2>4. pc'[p] # "scan" /\ \A q \in Owners \ {p} : pc'[q] = pc[q] /\ todo'[q] = todo[q]
      BY <1>12, <2>2 DEF Write, Goto
    <2>5. QED BY <2>1, <2>3, <2>4
  <1>13. ASSUME ExpireLease PROVE MemoryInv'
    BY <1>13 DEF ExpireLease, memory, remote
  <1>14. ASSUME Cleanup PROVE MemoryInv'
    BY <1>14 DEF Cleanup, NoLease, memory, remote
  <1>15. ASSUME UNCHANGED vars PROVE MemoryInv'
    BY <1>15 DEF vars
  <1>16. QED
    BY StepKinds, <1>1, <1>2, <1>3, <1>4, <1>5, <1>6, <1>7, <1>8, <1>9,
       <1>10, <1>11, <1>12, <1>13, <1>14, <1>15

\* Each step keeps: whoever is critical holds the lease.
LEMMA CriticalStep ==
  ASSUME TypeOK, LeaseInv, MemoryInv, CriticalInv, OneWriter, [Next]_vars
  PROVE  CriticalInv'
  <1> USE DEF TypeOK, LeaseInv, CriticalInv, Critical, HoldsLease
  <1>1. ASSUME NEW p \in Owners, Acquire(p) PROVE CriticalInv'
    BY <1>1 DEF Acquire, Goto, memory, remote
  <1>2. ASSUME NEW p \in Owners, ReadRows(p) PROVE CriticalInv'
    BY <1>2 DEF ReadRows, Goto, store, memory, remote
  <1>3. ASSUME NEW p \in Owners, List(p) PROVE CriticalInv'
    BY <1>3 DEF List, Goto, store, memory, remote
  <1>4. ASSUME NEW p \in Owners, Finish(p) PROVE CriticalInv'
    BY <1>4 DEF Finish, Goto, store, remote
  <1>5. ASSUME NEW p \in Owners, Release(p) PROVE CriticalInv'
    <2> SUFFICES ASSUME Prompt PROVE CriticalInv'
      BY DEF CriticalInv
    <2>1. UNCHANGED <<prepared, token, inflight>>
      BY <1>5 DEF Release, memory, remote
    <2>2. /\ pc' = [pc EXCEPT ![p] = "done"] /\ pc[p] = "release"
          /\ \A i \in Items : <<p, i>> \notin inflight
      BY <1>5 DEF Release, Goto, Quiet
    <2>3. ASSUME NEW q \in Owners, prepared', Critical(q)' PROVE HoldsLease(q)'
      <3>1. q # p /\ Critical(q) /\ HoldsLease(q)
        BY <2>1, <2>2, <2>3
      <3>2. lease' = lease
        BY <1>5, <3>1 DEF Release
      <3>3. QED BY <2>1, <3>1, <3>2
    <2>4. QED BY <2>1, <2>2, <2>3
  <1>6. ASSUME NEW p \in Owners, Hop(p) PROVE CriticalInv'
    <2>1. UNCHANGED <<prepared, lease, token, inflight>>
      BY <1>6 DEF Hop, store, memory, remote
    <2>2. \A q \in Owners : Critical(q)' => Critical(q)
      BY <1>6, <2>1 DEF Hop, Goto
    <2>3. ASSUME NEW q \in Owners,
                 pc[q] \in {"items", "scan", "posting", "release", "crashed"}
          PROVE  pc'[q] \in {"items", "scan", "posting", "release", "crashed"}
      BY <1>6, <2>3 DEF Hop, Goto
    <2>4. QED BY <2>1, <2>2, <2>3
  <1>7. ASSUME NEW p \in Owners, NEW i \in Items, RenewFor(p, i) PROVE CriticalInv'
    BY <1>7 DEF RenewFor, Goto, store, memory, remote
  <1>8. ASSUME NEW p \in Owners, NEW i \in Items, Keep(p, i) PROVE CriticalInv'
    BY <1>8 DEF Keep, SkipItem, store, remote
  <1>9. ASSUME NEW p \in Owners, NEW i \in Items, SendComment(p, i) PROVE CriticalInv'
    BY <1>9 DEF SendComment, Goto, store, memory
  <1>10. ASSUME NEW p \in Owners, NEW i \in Items, Land(p, i) PROVE CriticalInv'
    BY <1>10 DEF Land, store, memory
  <1>11. ASSUME NEW p \in Owners, NEW i \in Items, Drop(p, i) PROVE CriticalInv'
    BY <1>11 DEF Drop, store, memory
  <1>12. ASSUME NEW p \in Owners, NEW i \in Items,
               NEW s \in ItemStates, NEW l \in Loops, Write(p, i, s, l) PROVE CriticalInv'
    BY <1>12 DEF Write, UpdateItem, SkipItem, Goto, remote
  <1>13. ASSUME ExpireLease PROVE CriticalInv'
    <2> SUFFICES ASSUME Prompt PROVE CriticalInv'
      BY DEF CriticalInv
    <2>1. UNCHANGED <<prepared, pc, token, inflight>>
      BY <1>13 DEF ExpireLease, memory, remote
    <2>2. lease.owner \in Owners /\ ~Critical(lease.owner)
      BY <1>13 DEF ExpireLease, Quiet
    <2>3. ~(\E q \in Owners : prepared /\ Critical(q))
      BY <2>2
    <2>4. QED BY <2>1, <2>3
  <1>14. ASSUME Cleanup PROVE CriticalInv'
    BY <1>14 DEF Cleanup, NoLease, memory, remote
  <1>15. ASSUME UNCHANGED vars PROVE CriticalInv'
    BY <1>15 DEF vars
  <1>16. QED
    BY StepKinds, <1>1, <1>2, <1>3, <1>4, <1>5, <1>6, <1>7, <1>8, <1>9,
       <1>10, <1>11, <1>12, <1>13, <1>14, <1>15

\* Each step keeps: one invocation at a time is critical.
LEMMA OneWriterStep ==
  ASSUME TypeOK, LeaseInv, MemoryInv, CriticalInv, OneWriter, [Next]_vars
  PROVE  OneWriter'
  <1> USE DEF TypeOK, LeaseInv, CriticalInv, OneWriter, Critical, HoldsLease
  <1>1. ASSUME NEW p \in Owners, Acquire(p) PROVE OneWriter'
    BY <1>1 DEF Acquire, Goto, memory, remote
  <1>2. ASSUME NEW p \in Owners, ReadRows(p) PROVE OneWriter'
    <2>1. inflight' = inflight /\ \A q \in Owners : pc'[q] = "scan" => pc[q] = "scan"
      BY <1>2 DEF ReadRows, Goto, remote
    <2>2. QED BY <2>1
  <1>3. ASSUME NEW p \in Owners, List(p) PROVE OneWriter'
    BY <1>3 DEF List, Goto, store, memory, remote
  <1>4. ASSUME NEW p \in Owners, Finish(p) PROVE OneWriter'
    BY <1>4 DEF Finish, Goto, store, remote
  <1>5. ASSUME NEW p \in Owners, Release(p) PROVE OneWriter'
    BY <1>5 DEF Release, NoLease, Goto, memory, remote
  <1>6. ASSUME NEW p \in Owners, Hop(p) PROVE OneWriter'
    <2>1. inflight' = inflight /\ \A q \in Owners : pc'[q] = "scan" => pc[q] = "scan"
      BY <1>6 DEF Hop, Goto, remote
    <2>2. QED BY <2>1
  <1>7. ASSUME NEW p \in Owners, NEW i \in Items, RenewFor(p, i) PROVE OneWriter'
    <2> SUFFICES ASSUME Prompt PROVE OneWriter'
      BY DEF OneWriter
    <2>1. /\ inflight' = inflight /\ pc[p] = "items" /\ HoldsLease(p)
          /\ \A q \in Owners : pc'[q] = "scan" => pc[q] = "scan" \/ q = p
      BY <1>7 DEF RenewFor, Goto, remote
    <2>2. prepared
      BY <2>1
    <2>3. \A q \in Owners : Critical(q) => q = p
      BY <2>1, <2>2
    <2>4. QED BY <2>1, <2>3
  <1>8. ASSUME NEW p \in Owners, NEW i \in Items, Keep(p, i) PROVE OneWriter'
    BY <1>8 DEF Keep, SkipItem, store, remote
  <1>9. ASSUME NEW p \in Owners, NEW i \in Items, SendComment(p, i) PROVE OneWriter'
    BY <1>9 DEF SendComment, Goto, store, memory
  <1>10. ASSUME NEW p \in Owners, NEW i \in Items, Land(p, i) PROVE OneWriter'
    BY <1>10 DEF Land, store, memory
  <1>11. ASSUME NEW p \in Owners, NEW i \in Items, Drop(p, i) PROVE OneWriter'
    BY <1>11 DEF Drop, store, memory
  <1>12. ASSUME NEW p \in Owners, NEW i \in Items,
               NEW s \in ItemStates, NEW l \in Loops, Write(p, i, s, l) PROVE OneWriter'
    BY <1>12 DEF Write, UpdateItem, SkipItem, Goto, remote
  <1>13. ASSUME ExpireLease PROVE OneWriter'
    BY <1>13 DEF ExpireLease, memory, remote
  <1>14. ASSUME Cleanup PROVE OneWriter'
    BY <1>14 DEF Cleanup, NoLease, memory, remote
  <1>15. ASSUME UNCHANGED vars PROVE OneWriter'
    BY <1>15 DEF vars
  <1>16. QED
    BY StepKinds, <1>1, <1>2, <1>3, <1>4, <1>5, <1>6, <1>7, <1>8, <1>9,
       <1>10, <1>11, <1>12, <1>13, <1>14, <1>15

\* A step that creates nothing and lets nobody newly into the loop keeps what
\* the holder's listing did not find absent.
LEMMA AbsentFrame ==
  ASSUME TypeOK, AbsentInv, comments' = comments, inflight' \subseteq inflight,
         prepared' => prepared,
         \A q \in Owners : pc'[q] \in Listed =>
             /\ pc'[q] = pc[q] /\ todo'[q] = todo[q] /\ found'[q] = found[q]
             /\ HoldsLease(q)' => HoldsLease(q)
  PROVE  AbsentInv'
  <1> SUFFICES ASSUME Prompt PROVE AbsentInv'
    BY DEF AbsentInv
  <1>1. \A i \in Items : Untouched(i) => Untouched(i)'
    BY DEF Untouched
  <1>2. InflightAbsent'
    BY DEF AbsentInv, InflightAbsent, HasComment
  <1>3. ScanAbsent'
    BY <1>1 DEF AbsentInv, ScanAbsent, Listed, IsNext
  <1>4. ASSUME NEW q \in Owners, prepared', HoldsLease(q)', pc'[q] \in Listed
        PROVE  Absent(q)'
    <2>1. Absent(q) /\ pc'[q] = pc[q] /\ todo'[q] = todo[q] /\ found'[q] = found[q]
      BY <1>4 DEF AbsentInv, HolderAbsent
    <2>2. todo[q] \subseteq Items
      BY DEF TypeOK
    <2>3. QED BY <1>1, <2>1, <2>2 DEF Absent, IsNext
  <1>5. QED BY <1>2, <1>3, <1>4 DEF AbsentInv, HolderAbsent

\* Each step keeps: what the holder's listing did not find is still absent.
LEMMA AbsentStep ==
  ASSUME TypeOK, LeaseInv, MemoryInv, CriticalInv, OneWriter, AbsentInv, [Next]_vars
  PROVE  AbsentInv'
  <1> USE DEF Listed
  <1>1. ASSUME NEW p \in Owners, Acquire(p) PROVE AbsentInv'
    BY <1>1, AbsentFrame DEF TypeOK, Acquire, Goto, HoldsLease, memory, remote
  <1>2. ASSUME NEW p \in Owners, ReadRows(p) PROVE AbsentInv'
    BY <1>2, AbsentFrame DEF TypeOK, ReadRows, Goto, HoldsLease, store, remote
  <1>3. ASSUME NEW p \in Owners, Finish(p) PROVE AbsentInv'
    BY <1>3, AbsentFrame DEF TypeOK, Finish, Goto, HoldsLease, store, remote
  <1>4. ASSUME NEW p \in Owners, Release(p) PROVE AbsentInv'
    BY <1>4, AbsentFrame DEF TypeOK, Release, NoLease, Goto, HoldsLease, memory, remote
  <1>5. ASSUME NEW p \in Owners, Hop(p) PROVE AbsentInv'
    BY <1>5, AbsentFrame DEF TypeOK, Hop, Goto, HoldsLease, store, memory, remote
  <1>6. ASSUME NEW p \in Owners, NEW i \in Items, Keep(p, i) PROVE AbsentInv'
    BY <1>6, AbsentFrame DEF TypeOK, Keep, SkipItem, HoldsLease, store, remote
  <1>7. ASSUME NEW p \in Owners, NEW i \in Items, Drop(p, i) PROVE AbsentInv'
    BY <1>7, AbsentFrame DEF TypeOK, Drop, HoldsLease, store, memory
  <1>8. ASSUME ExpireLease PROVE AbsentInv'
    BY <1>8, AbsentFrame DEF TypeOK, ExpireLease, HoldsLease, memory, remote
  <1>9. ASSUME Cleanup PROVE AbsentInv'
    BY <1>9, AbsentFrame DEF TypeOK, Cleanup, NoLease, HoldsLease, memory, remote
  <1>10. ASSUME UNCHANGED vars PROVE AbsentInv'
    BY <1>10, AbsentFrame DEF TypeOK, HoldsLease, vars
  <1>11. ASSUME NEW p \in Owners, List(p) PROVE AbsentInv'
    <2> SUFFICES ASSUME Prompt PROVE AbsentInv'
      BY DEF AbsentInv
    <2> USE DEF AbsentInv
    <2>1. /\ UNCHANGED <<prepared, lease, token, todo, inflight, comments>>
          /\ found' = [found EXCEPT ![p] = {i \in todo[p] : HasComment(i)}]
          /\ pc' = [pc EXCEPT ![p] = "items"] /\ pc[p] = "list"
      BY <1>11 DEF List, Goto, store, remote
    <2>2. \A i \in Items : Untouched(i) => Untouched(i)'
      BY <2>1 DEF Untouched
    <2>3. InflightAbsent'
      BY <2>1 DEF InflightAbsent, HasComment
    <2>4. ScanAbsent'
      BY <2>1, <2>2 DEF ScanAbsent, IsNext, TypeOK
    <2>5. ASSUME NEW q \in Owners, prepared', HoldsLease(q)', pc'[q] \in Listed
          PROVE  Absent(q)'
      <3>1. prepared /\ HoldsLease(q) /\ todo[q] \subseteq Items
        BY <2>1, <2>5 DEF HoldsLease, TypeOK
      <3>2. CASE q = p
        <4>1. ASSUME NEW i \in todo[p] \ found'[p] PROVE Untouched(i)'
          <5>1. ~HasComment(i)
            BY <2>1, <4>1 DEF TypeOK
          <5>2. ASSUME NEW r \in Owners, <<r, i>> \in inflight PROVE FALSE
            <6>1. i \in Items
              BY <3>1, <3>2, <4>1
            <6>2. HoldsLease(r)
              BY <3>1, <5>2, <6>1 DEF CriticalInv, Critical
            <6>3. r = p
              BY <3>1, <3>2, <6>2 DEF HoldsLease
            <6>4. QED BY <2>1, <5>2, <6>1, <6>3 DEF CriticalInv
          <5>3. QED BY <2>1, <5>1, <5>2 DEF Untouched, HasComment
        <4>2. QED BY <2>1, <3>2, <4>1 DEF Absent
      <3>3. CASE q # p
        <4>1. pc'[q] = pc[q] /\ found'[q] = found[q] /\ Absent(q)
          BY <2>1, <2>5, <3>1, <3>3 DEF HolderAbsent, TypeOK
        <4>2. QED BY <2>1, <2>2, <3>1, <4>1 DEF Absent, IsNext
      <3>4. QED BY <3>2, <3>3
    <2>6. QED BY <2>3, <2>4, <2>5 DEF HolderAbsent
  <1>12. ASSUME NEW p \in Owners, NEW i \in Items, RenewFor(p, i) PROVE AbsentInv'
    <2> SUFFICES ASSUME Prompt PROVE AbsentInv'
      BY DEF AbsentInv
    <2> USE DEF AbsentInv
    <2>1. /\ UNCHANGED <<prepared, lease, token, todo, found, inflight, comments>>
          /\ pc' = [pc EXCEPT ![p] = "scan"] /\ pc[p] = "items"
          /\ IsNext(p, i) /\ i \notin found[p] /\ HoldsLease(p)
      BY <1>12 DEF RenewFor, Goto, store, memory, remote
    <2>2. prepared
      BY <2>1 DEF HoldsLease, LeaseInv
    <2>3. Absent(p)
      BY <2>1, <2>2 DEF HolderAbsent
    <2>4. \A j \in Items : Untouched(j) => Untouched(j)'
      BY <2>1 DEF Untouched
    <2>5. InflightAbsent'
      BY <2>1 DEF InflightAbsent, HasComment
    <2>6. ASSUME NEW q \in Owners, NEW j \in Items, pc'[q] = "scan", IsNext(q, j)'
          PROVE  Untouched(j)
      <3>1. IsNext(q, j)
        BY <2>1, <2>6 DEF IsNext
      <3>2. CASE q = p
        <4>1. j = i
          BY <2>1, <3>1, <3>2, NextIsUnique
        <4>2. Untouched(i)
          BY <2>1, <2>3 DEF Absent, IsNext
        <4>3. QED BY <4>1, <4>2
      <3>3. CASE q # p
        BY <2>1, <2>6, <3>1, <3>3 DEF ScanAbsent, TypeOK
      <3>4. QED BY <3>2, <3>3
    <2>7. ASSUME NEW q \in Owners, prepared', HoldsLease(q)', pc'[q] \in Listed
          PROVE  Absent(q)'
      <3>1. HoldsLease(q) /\ q = p
        BY <2>1, <2>7 DEF HoldsLease
      <3>2. todo[p] \subseteq Items
        BY DEF TypeOK
      <3>3. QED BY <2>1, <2>3, <2>4, <3>1, <3>2 DEF Absent
    <2>8. QED BY <2>4, <2>5, <2>6, <2>7 DEF ScanAbsent, HolderAbsent
  <1>13. ASSUME NEW p \in Owners, NEW i \in Items, SendComment(p, i) PROVE AbsentInv'
    <2> SUFFICES ASSUME Prompt PROVE AbsentInv'
      BY DEF AbsentInv
    <2> USE DEF AbsentInv
    <2>1. /\ UNCHANGED <<prepared, lease, token, todo, found, comments>>
          /\ inflight' = inflight \cup {<<p, i>>}
          /\ pc' = [pc EXCEPT ![p] = "posting"] /\ pc[p] = "scan" /\ IsNext(p, i)
      BY <1>13 DEF SendComment, Goto, store, memory
    <2>2. Untouched(i)
      BY <2>1 DEF ScanAbsent
    <2>3. \A j \in Items : j # i /\ Untouched(j) => Untouched(j)'
      BY <2>1 DEF Untouched
    <2>4. InflightAbsent'
      BY <2>1, <2>2 DEF InflightAbsent, HasComment, Untouched
    <2>5. \A q \in Owners : pc[q] = "scan" => q = p
      BY <2>1 DEF OneWriter, Critical
    <2>6. ScanAbsent'
      BY <2>1, <2>5 DEF ScanAbsent, TypeOK
    <2>7. ASSUME NEW q \in Owners, prepared', HoldsLease(q)', pc'[q] \in Listed
          PROVE  Absent(q)'
      <3>1. prepared /\ HoldsLease(q) /\ todo[q] \subseteq Items
        BY <2>1, <2>7 DEF HoldsLease, TypeOK
      <3>2. HoldsLease(p)
        BY <2>1, <3>1 DEF CriticalInv, Critical
      <3>3. q = p
        BY <3>1, <3>2 DEF HoldsLease
      <3>4. Absent(p)
        BY <2>1, <3>1, <3>3 DEF HolderAbsent
      <3>5. pc'[p] = "posting" /\ \A j \in Items : IsNext(p, j)' <=> IsNext(p, j)
        BY <2>1 DEF TypeOK, IsNext
      <3>6. QED BY <2>1, <2>3, <3>1, <3>3, <3>4, <3>5 DEF Absent
    <2>8. QED BY <2>4, <2>6, <2>7 DEF HolderAbsent
  <1>14. ASSUME NEW p \in Owners, NEW i \in Items, Land(p, i) PROVE AbsentInv'
    <2> SUFFICES ASSUME Prompt PROVE AbsentInv'
      BY DEF AbsentInv
    <2> USE DEF AbsentInv
    <2>1. /\ UNCHANGED <<prepared, lease, token, pc, todo, found>>
          /\ <<p, i>> \in inflight
          /\ inflight' = inflight \ {<<p, i>>}
          /\ comments' = comments \cup {<<p, i>>}
      BY <1>14 DEF Land, store, memory
    <2>2. Critical(p) /\ \A q \in Owners : Critical(q) => q = p
      BY <2>1 DEF OneWriter, Critical
    <2>3. \A j \in Items : Untouched(j) => Untouched(j)' /\ j # i
      BY <2>1 DEF Untouched
    <2>4. InflightAbsent'
      <3> SUFFICES ASSUME NEW q \in Owners, NEW j \in Items, <<q, j>> \in inflight'
                   PROVE  ~HasComment(j)'
        BY DEF InflightAbsent
      <3>1. <<q, j>> \in inflight /\ q = p /\ j # i
        BY <2>1, <2>2 DEF Critical
      <3>2. ~HasComment(j)
        BY <3>1 DEF InflightAbsent
      <3>3. QED BY <2>1, <3>1, <3>2 DEF HasComment
    <2>5. ScanAbsent'
      BY <2>1, <2>3 DEF ScanAbsent, IsNext
    <2>6. ASSUME NEW q \in Owners, prepared', HoldsLease(q)', pc'[q] \in Listed
          PROVE  Absent(q)'
      <3>1. Absent(q) /\ todo[q] \subseteq Items
        BY <2>1, <2>6 DEF HolderAbsent, HoldsLease, TypeOK
      <3>2. QED BY <2>1, <2>3, <3>1 DEF Absent, IsNext
    <2>7. QED BY <2>4, <2>5, <2>6 DEF HolderAbsent
  <1>15. ASSUME NEW p \in Owners, NEW i \in Items,
               NEW s \in ItemStates, NEW l \in Loops, Write(p, i, s, l) PROVE AbsentInv'
    <2> SUFFICES ASSUME Prompt PROVE AbsentInv'
      BY DEF AbsentInv
    <2> USE DEF AbsentInv
    <2>1. /\ UNCHANGED <<prepared, lease, token, found, inflight, comments>>
          /\ todo' = [todo EXCEPT ![p] = @ \ {i}]
          /\ pc' = [pc EXCEPT ![p] = l] /\ IsNext(p, i) /\ l # "scan" /\ l # "posting"
          /\ l = "items" => pc[p] \in Listed
      BY <1>15 DEF Write, SkipItem, Goto, remote, Loops
    <2>2. \A j \in Items : Untouched(j) => Untouched(j)'
      BY <2>1 DEF Untouched
    <2>3. InflightAbsent'
      BY <2>1 DEF InflightAbsent, HasComment
    <2>4. \A q \in Owners \ {p} : pc'[q] = pc[q] /\ todo'[q] = todo[q]
      BY <2>1 DEF TypeOK
    <2>5. ScanAbsent'
      BY <2>1, <2>2, <2>4 DEF ScanAbsent, IsNext, TypeOK
    <2>6. ASSUME NEW q \in Owners, prepared', HoldsLease(q)', pc'[q] \in Listed
          PROVE  Absent(q)'
      <3>1. prepared /\ HoldsLease(q) /\ todo[q] \subseteq Items
        BY <2>1, <2>6 DEF HoldsLease, TypeOK
      <3>2. CASE q = p
        <4>1. l = "items" /\ Absent(p) /\ todo'[p] = todo[p] \ {i}
          BY <2>1, <2>6, <3>1, <3>2 DEF HolderAbsent, Loops, TypeOK
        <4>2. ASSUME NEW j \in todo'[p] \ found'[p] PROVE Untouched(j)
          <5>1. j \in todo[p] \ found[p] /\ j # i /\ j \in Items
            BY <2>1, <3>1, <3>2, <4>1, <4>2
          <5>2. ~IsNext(p, j)
            BY <2>1, <5>1, NextIsUnique
          <5>3. QED BY <4>1, <5>1, <5>2 DEF Absent
        <4>3. todo'[p] \subseteq Items
          BY <3>1, <3>2, <4>1
        <4>4. QED BY <2>2, <3>2, <4>2, <4>3 DEF Absent
      <3>3. CASE q # p
        BY <2>1, <2>2, <2>4, <2>6, <3>1, <3>3 DEF HolderAbsent, Absent, IsNext
      <3>4. QED BY <3>2, <3>3
    <2>7. QED BY <2>3, <2>5, <2>6 DEF HolderAbsent
  <1>16. QED
    BY StepKinds, <1>1, <1>2, <1>3, <1>4, <1>5, <1>6, <1>7, <1>8, <1>9, <1>10,
       <1>11, <1>12, <1>13, <1>14, <1>15

\* Each step keeps: no item has two comments.
LEMMA NoDuplicateStep ==
  ASSUME TypeOK, LeaseInv, MemoryInv, CriticalInv, OneWriter, AbsentInv, NoDuplicateComments, [Next]_vars
  PROVE  NoDuplicateComments'
  <1> USE DEF TypeOK, AbsentInv, InflightAbsent, NoDuplicateComments, HasComment
  <1>1. ASSUME NEW p \in Owners, Acquire(p) PROVE NoDuplicateComments'
    BY <1>1 DEF Acquire, Goto, memory, remote
  <1>2. ASSUME NEW p \in Owners, ReadRows(p) PROVE NoDuplicateComments'
    BY <1>2 DEF ReadRows, Goto, store, memory, remote
  <1>3. ASSUME NEW p \in Owners, List(p) PROVE NoDuplicateComments'
    BY <1>3 DEF List, Goto, store, memory, remote
  <1>4. ASSUME NEW p \in Owners, Finish(p) PROVE NoDuplicateComments'
    BY <1>4 DEF Finish, Goto, store, remote
  <1>5. ASSUME NEW p \in Owners, Release(p) PROVE NoDuplicateComments'
    BY <1>5 DEF Release, NoLease, Goto, memory, remote
  <1>6. ASSUME NEW p \in Owners, Hop(p) PROVE NoDuplicateComments'
    BY <1>6 DEF Hop, Goto, Running, store, memory, remote
  <1>7. ASSUME NEW p \in Owners, NEW i \in Items, RenewFor(p, i) PROVE NoDuplicateComments'
    BY <1>7 DEF RenewFor, Goto, store, memory, remote
  <1>8. ASSUME NEW p \in Owners, NEW i \in Items, Keep(p, i) PROVE NoDuplicateComments'
    BY <1>8 DEF Keep, SkipItem, store, remote
  <1>9. ASSUME NEW p \in Owners, NEW i \in Items, SendComment(p, i) PROVE NoDuplicateComments'
    BY <1>9 DEF SendComment, Goto, store, memory
  <1>10. ASSUME NEW p \in Owners, NEW i \in Items, Land(p, i) PROVE NoDuplicateComments'
    BY <1>10 DEF Land, store, memory
  <1>11. ASSUME NEW p \in Owners, NEW i \in Items, Drop(p, i) PROVE NoDuplicateComments'
    BY <1>11 DEF Drop, store, memory
  <1>12. ASSUME NEW p \in Owners, NEW i \in Items,
               NEW s \in ItemStates, NEW l \in Loops, Write(p, i, s, l) PROVE NoDuplicateComments'
    BY <1>12 DEF Write, UpdateItem, SkipItem, Goto, remote
  <1>13. ASSUME ExpireLease PROVE NoDuplicateComments'
    BY <1>13 DEF ExpireLease, memory, remote
  <1>14. ASSUME Cleanup PROVE NoDuplicateComments'
    BY <1>14 DEF Cleanup, NoLease, memory, remote
  <1>15. ASSUME UNCHANGED vars PROVE NoDuplicateComments'
    BY <1>15 DEF vars
  <1>16. QED
    BY StepKinds, <1>1, <1>2, <1>3, <1>4, <1>5, <1>6, <1>7, <1>8, <1>9,
       <1>10, <1>11, <1>12, <1>13, <1>14, <1>15

\* Each step keeps: a row that says succeeded has its comment.
LEMMA SucceededStep ==
  ASSUME TypeOK, MemoryInv, SucceededIsPublished, [Next]_vars
  PROVE  SucceededIsPublished'
  <1> USE DEF TypeOK, SucceededIsPublished, HasComment
  <1>1. ASSUME NEW p \in Owners, Acquire(p) PROVE SucceededIsPublished'
    BY <1>1 DEF Acquire, Goto, memory, remote
  <1>2. ASSUME NEW p \in Owners, ReadRows(p) PROVE SucceededIsPublished'
    BY <1>2 DEF ReadRows, Goto, store, memory, remote
  <1>3. ASSUME NEW p \in Owners, List(p) PROVE SucceededIsPublished'
    BY <1>3 DEF List, Goto, store, memory, remote
  <1>4. ASSUME NEW p \in Owners, Finish(p) PROVE SucceededIsPublished'
    BY <1>4 DEF Finish, Goto, store, remote
  <1>5. ASSUME NEW p \in Owners, Release(p) PROVE SucceededIsPublished'
    BY <1>5 DEF Release, NoLease, Goto, memory, remote
  <1>6. ASSUME NEW p \in Owners, Hop(p) PROVE SucceededIsPublished'
    BY <1>6 DEF Hop, Goto, Running, store, memory, remote
  <1>7. ASSUME NEW p \in Owners, NEW i \in Items, RenewFor(p, i) PROVE SucceededIsPublished'
    BY <1>7 DEF RenewFor, Goto, store, memory, remote
  <1>8. ASSUME NEW p \in Owners, NEW i \in Items, Keep(p, i) PROVE SucceededIsPublished'
    BY <1>8 DEF Keep, SkipItem, store, remote
  <1>9. ASSUME NEW p \in Owners, NEW i \in Items, SendComment(p, i) PROVE SucceededIsPublished'
    BY <1>9 DEF SendComment, Goto, store, memory
  <1>10. ASSUME NEW p \in Owners, NEW i \in Items, Land(p, i) PROVE SucceededIsPublished'
    BY <1>10 DEF Land, store, memory
  <1>11. ASSUME NEW p \in Owners, NEW i \in Items, Drop(p, i) PROVE SucceededIsPublished'
    BY <1>11 DEF Drop, store, memory
  <1>12. ASSUME NEW p \in Owners, NEW i \in Items,
               NEW s \in ItemStates, NEW l \in Loops, Write(p, i, s, l) PROVE SucceededIsPublished'
    BY <1>12 DEF Write, UpdateItem, SkipItem, Goto, remote
  <1>13. ASSUME ExpireLease PROVE SucceededIsPublished'
    BY <1>13 DEF ExpireLease, memory, remote
  <1>14. ASSUME Cleanup PROVE SucceededIsPublished'
    BY <1>14 DEF Cleanup, NoLease, memory, remote
  <1>15. ASSUME UNCHANGED vars PROVE SucceededIsPublished'
    BY <1>15 DEF vars
  <1>16. QED
    BY StepKinds, <1>1, <1>2, <1>3, <1>4, <1>5, <1>6, <1>7, <1>8, <1>9,
       <1>10, <1>11, <1>12, <1>13, <1>14, <1>15

\* Each step keeps: a returned succeeded is true.
LEMMA ReportStep ==
  ASSUME TypeOK, MemoryInv, SucceededIsPublished, SuccessReportIsTrue, [Next]_vars
  PROVE  SuccessReportIsTrue'
  <1> USE DEF TypeOK, SucceededIsPublished, SuccessReportIsTrue, HasComment
  <1>1. ASSUME NEW p \in Owners, Acquire(p) PROVE SuccessReportIsTrue'
    BY <1>1 DEF Acquire, Goto, memory, remote
  <1>2. ASSUME NEW p \in Owners, ReadRows(p) PROVE SuccessReportIsTrue'
    BY <1>2, StoredSuccess DEF ReadRows, Goto, store, memory, remote
  <1>3. ASSUME NEW p \in Owners, List(p) PROVE SuccessReportIsTrue'
    BY <1>3 DEF List, Goto, store, memory, remote
  <1>4. ASSUME NEW p \in Owners, Finish(p) PROVE SuccessReportIsTrue'
    BY <1>4, StoredSuccess DEF Finish, Goto, store, remote
  <1>5. ASSUME NEW p \in Owners, Release(p) PROVE SuccessReportIsTrue'
    BY <1>5 DEF Release, NoLease, Goto, memory, remote
  <1>6. ASSUME NEW p \in Owners, Hop(p) PROVE SuccessReportIsTrue'
    BY <1>6 DEF Hop, Goto, Running, store, memory, remote
  <1>7. ASSUME NEW p \in Owners, NEW i \in Items, RenewFor(p, i) PROVE SuccessReportIsTrue'
    BY <1>7 DEF RenewFor, Goto, store, memory, remote
  <1>8. ASSUME NEW p \in Owners, NEW i \in Items, Keep(p, i) PROVE SuccessReportIsTrue'
    BY <1>8 DEF Keep, SkipItem, store, remote
  <1>9. ASSUME NEW p \in Owners, NEW i \in Items, SendComment(p, i) PROVE SuccessReportIsTrue'
    BY <1>9 DEF SendComment, Goto, store, memory
  <1>10. ASSUME NEW p \in Owners, NEW i \in Items, Land(p, i) PROVE SuccessReportIsTrue'
    BY <1>10 DEF Land, store, memory
  <1>11. ASSUME NEW p \in Owners, NEW i \in Items, Drop(p, i) PROVE SuccessReportIsTrue'
    BY <1>11 DEF Drop, store, memory
  <1>12. ASSUME NEW p \in Owners, NEW i \in Items,
               NEW s \in ItemStates, NEW l \in Loops, Write(p, i, s, l) PROVE SuccessReportIsTrue'
    BY <1>12 DEF Write, UpdateItem, SkipItem, Goto, remote
  <1>13. ASSUME ExpireLease PROVE SuccessReportIsTrue'
    BY <1>13 DEF ExpireLease, memory, remote
  <1>14. ASSUME Cleanup PROVE SuccessReportIsTrue'
    BY <1>14 DEF Cleanup, NoLease, memory, remote
  <1>15. ASSUME UNCHANGED vars PROVE SuccessReportIsTrue'
    BY <1>15 DEF vars
  <1>16. QED
    BY StepKinds, <1>1, <1>2, <1>3, <1>4, <1>5, <1>6, <1>7, <1>8, <1>9,
       <1>10, <1>11, <1>12, <1>13, <1>14, <1>15

-----------------------------------------------------------------------------
(* The theorems                                                            *)

\* The initial state satisfies the inductive invariant.
LEMMA InitIInv == Init => IInv
  <1> SUFFICES ASSUME Init PROVE IInv
    OBVIOUS
  <1> USE DEF Init
  <1>1. TypeOK
    BY DEF TypeOK, NoLease, Rows, ItemStates, PCs
  <1>2. LeaseInv
    BY DEF LeaseInv, NoLease
  <1>3. MemoryInv
    BY DEF MemoryInv
  <1>4. CriticalInv /\ OneWriter
    BY DEF CriticalInv, OneWriter, Critical
  <1>5. AbsentInv
    BY DEF AbsentInv, InflightAbsent, ScanAbsent, HolderAbsent, Listed
  <1>6. NoDuplicateComments /\ SucceededIsPublished /\ SuccessReportIsTrue
    BY DEF NoDuplicateComments, SucceededIsPublished, SuccessReportIsTrue
  <1>7. QED BY <1>1, <1>2, <1>3, <1>4, <1>5, <1>6 DEF IInv

\* Every step, stuttering included, keeps the inductive invariant.
LEMMA NextIInv == IInv /\ [Next]_vars => IInv'
  BY TypeStep, LeaseStep, MemoryStep, CriticalStep, OneWriterStep, AbsentStep,
     NoDuplicateStep, SucceededStep, ReportStep DEF IInv

\* IInv holds in every reachable state: it is inductive.
THEOREM Invariance == Spec => []IInv
  BY InitIInv, NextIInv, PTL DEF Spec

\* The rows, the lease and the invocations of publish keep their types.
THEOREM TypeCorrect == Spec => []TypeOK
  <1>1. IInv => TypeOK
    BY DEF IInv
  <1>2. QED BY <1>1, Invariance, PTL

\* At most one invocation of publish is about to create, or creating, a
\* comment, for every number of overlapping and crashing invocations.
THEOREM MutualExclusion == Spec => []OneWriter
  <1>1. IInv => OneWriter
    BY DEF IInv
  <1>2. QED BY <1>1, Invariance, PTL

\* No item of the plan ever gets a second comment on the platform.
THEOREM AtMostOneComment == Spec => []NoDuplicateComments
  <1>1. IInv => NoDuplicateComments
    BY DEF IInv
  <1>2. QED BY <1>1, Invariance, PTL

\* A row that says succeeded has its comment on the platform, under any timing.
THEOREM SuccessIsReal == Spec => []SucceededIsPublished
  <1>1. IInv => SucceededIsPublished
    BY DEF IInv
  <1>2. QED BY <1>1, Invariance, PTL

\* An invocation that returned succeeded left every item of the plan there.
THEOREM ReportsAreTrue == Spec => []SuccessReportIsTrue
  <1>1. IInv => SuccessReportIsTrue
    BY DEF IInv
  <1>2. QED BY <1>1, Invariance, PTL

\* The only steps that change a row.
LEMMA RowStep ==
  ASSUME IInv, [Next]_vars, items' # items
  PROVE  \E p \in Owners, i \in Items, s \in ItemStates, l \in Loops : Write(p, i, s, l)
  <1>1. TypeOK /\ MemoryInv
    BY DEF IInv
  <1> USE DEF store, memory, remote
  <1>2. ASSUME NEW p \in Owners, \/ Acquire(p) \/ ReadRows(p) \/ List(p)
                                 \/ Finish(p) \/ Release(p) \/ Hop(p)
        PROVE  items' = items
    BY <1>2 DEF Acquire, ReadRows, List, Finish, Release, Hop
  <1>3. ASSUME NEW p \in Owners, NEW i \in Items,
               \/ RenewFor(p, i) \/ Keep(p, i) \/ SendComment(p, i)
               \/ Land(p, i) \/ Drop(p, i)
        PROVE  items' = items
    BY <1>3 DEF RenewFor, Keep, SendComment, Land, Drop
  <1>4. ExpireLease \/ Cleanup \/ UNCHANGED vars => items' = items
    BY DEF ExpireLease, Cleanup, vars
  <1>5. QED BY <1>1, <1>2, <1>3, <1>4, StepKinds

\* A row that says succeeded is never written again.
THEOREM SuccessIsFinal == Spec => SucceededIsFinal
  <1>1. ASSUME IInv, [Next]_vars, NEW i \in Items, items[i].state = "succeeded"
        PROVE  items'[i].state = "succeeded"
    <2>1. CASE items' = items
      BY <1>1, <2>1
    <2>2. CASE items' # items
      <3>1. PICK p \in Owners, j \in Items, s \in ItemStates, l \in Loops : Write(p, j, s, l)
        BY <1>1, <2>2, RowStep
      <3>2. j \in todo[p] /\ items[j].version = prior[p][j].version
        BY <3>1 DEF Write, IsNext, CanUpdate
      <3>3. items[j].state # "succeeded"
        BY <1>1, <3>2 DEF IInv, MemoryInv
      <3>4. QED BY <1>1, <3>1, <3>3 DEF Write, UpdateItem, IInv, TypeOK
    <2>3. QED BY <2>1, <2>2
  <1>2. IInv /\ [Next]_vars =>
           [\A i \in Items : items[i].state = "succeeded" => items'[i].state = "succeeded"]_vars
    BY <1>1
  <1>3. QED BY <1>2, Invariance, PTL DEF Spec, SucceededIsFinal

\* A row is only written under the newest token.
THEOREM Fencing == Spec => WritesAreFenced
  <1>1. ASSUME IInv, [Next]_vars, NEW i \in Items, items'[i] # items[i]
        PROVE  items'[i].token = fence /\ items'[i].token >= items[i].token
    <2>1. PICK p \in Owners, j \in Items, s \in ItemStates, l \in Loops : Write(p, j, s, l)
      BY <1>1, RowStep
    <2>2. i = j /\ items'[i].token = token[p] /\ prepared /\ HoldsLease(p)
      BY <1>1, <2>1 DEF Write, UpdateItem, CanUpdate, IInv, TypeOK
    <2>3. token[p] = fence /\ items[i].token <= fence
      BY <1>1, <2>2 DEF HoldsLease, IInv, LeaseInv
    <2>4. QED BY <1>1, <2>2, <2>3 DEF IInv, TypeOK, Rows
  <1>2. IInv /\ [Next]_vars =>
           [\A i \in Items : items'[i] # items[i] =>
               items'[i].token = fence /\ items'[i].token >= items[i].token]_vars
    BY <1>1
  <1>3. QED BY <1>2, Invariance, PTL DEF Spec, WritesAreFenced

\* Publication implements PublishOnce: a comment is only created for an item
\* without one, and a row only turns to succeeded once its comment is there.
THEOREM Refinement == ASSUME Prompt PROVE Spec => ImplementsPublishOnce
  <1> DEFINE reported == {i \in Items : items[i].state = "succeeded"}
  <1> USE DEF Once!HasComment, HasComment
  <1>1. Init => Once!Init
    BY DEF Init, Once!Init
  <1>2. ASSUME IInv, [Next]_vars
        PROVE  [Once!Next]_(Once!vars)
    <2>1. CASE UNCHANGED <<items, comments>>
      BY <2>1 DEF Once!vars
    <2>2. CASE items' # items
      <3>1. PICK p \in Owners, i \in Items, s \in ItemStates, l \in Loops : Write(p, i, s, l)
        BY <1>2, <2>2, RowStep
      <3>2. comments' = comments /\ (s = "succeeded" => HasComment(i))
        BY <3>1 DEF Write, remote
      <3>3. items[i].state # "succeeded"
        BY <1>2, <3>1 DEF Write, IsNext, CanUpdate, IInv, MemoryInv
      <3>4. items' = [items EXCEPT ![i] = [state |-> s, version |-> @.version + 1,
                                           token |-> token[p]]]
        BY <3>1 DEF Write, UpdateItem
      <3>5. CASE s = "succeeded"
        <4>1. reported' = reported \cup {i}
          BY <1>2, <3>4, <3>5 DEF IInv, TypeOK
        <4>2. Once!Report(i)
          BY <3>2, <3>5, <4>1 DEF Once!Report
        <4>3. QED BY <4>2 DEF Once!Next
      <3>6. CASE s # "succeeded"
        <4>1. reported' = reported
          BY <1>2, <3>3, <3>4, <3>6 DEF IInv, TypeOK
        <4>2. QED BY <3>2, <4>1 DEF Once!vars
      <3>7. QED BY <3>5, <3>6
    <2>3. CASE items' = items /\ comments' # comments
      <3>1. PICK p \in Owners, i \in Items : Land(p, i)
        <4>1. TypeOK /\ MemoryInv
          BY <1>2 DEF IInv
        <4> USE DEF store, memory, remote
        <4>2. ASSUME NEW p \in Owners, \/ Acquire(p) \/ ReadRows(p) \/ List(p)
                                       \/ Finish(p) \/ Release(p) \/ Hop(p)
              PROVE  comments' = comments
          BY <4>2 DEF Acquire, ReadRows, List, Finish, Release, Hop
        <4>3. ASSUME NEW p \in Owners, NEW i \in Items,
                     \/ RenewFor(p, i) \/ Keep(p, i) \/ SendComment(p, i) \/ Drop(p, i)
                     \/ \E s \in ItemStates, l \in Loops : Write(p, i, s, l)
              PROVE  comments' = comments
          BY <4>3 DEF RenewFor, Keep, SendComment, Drop, Write
        <4>4. ExpireLease \/ Cleanup \/ UNCHANGED vars => comments' = comments
          BY DEF ExpireLease, Cleanup, vars
        <4>5. QED BY <1>2, <2>3, <4>1, <4>2, <4>3, <4>4, StepKinds
      <3>2. ~HasComment(i) /\ comments' = comments \cup {<<p, i>>}
        BY <1>2, <3>1 DEF Land, IInv, AbsentInv, InflightAbsent
      <3>3. Once!Comment(p, i)
        BY <2>3, <3>2 DEF Once!Comment
      <3>4. QED BY <3>3 DEF Once!Next
    <2>4. QED BY <2>1, <2>2, <2>3
  <1>3. QED
    BY <1>1, <1>2, Invariance, PTL DEF Spec, ImplementsPublishOnce, Once!Spec
=============================================================================
