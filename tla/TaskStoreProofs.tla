--------------------------- MODULE TaskStoreProofs ---------------------------
(***************************************************************************)
(* Proofs about TaskStore, for every set of processes, any retention and   *)
(* any number of commands.                                                 *)
(***************************************************************************)
EXTENDS TaskStore, WellFoundedInduction, TLAPS

USE StoreAssumption

-----------------------------------------------------------------------------
(* Types                                                                   *)

Kinds  == {"input", "unit", "finding", "report", "delivered", "planned", "published"}
Key    == Kinds \X Nat
Says   == Contents \cup {NoUnit}
Fact   == [key : Key, unit : Says]
Event  == [key : Key, unit : Says, expires : Nat]
Result == [phase : {"none", "completed", "terminated"}, state : {"none", "complete", "partial"},
           published : BOOLEAN, owes : SUBSET Fact]
Link   == [expires : Nat, unit : Says, events : SUBSET Key, life : Nat]

\* Where a process is after it has looked at its trace for the result.
Late == {"deliver", "save_result", "save_partial", "plan", "trace_plan", "publish_items",
         "read_result", "save_published"}
\* Where it is before, or on another way.
Early == {"create_account", "save_command", "normalize", "load_checkpoint", "first_checkpoint",
          "execute", "trace_unit", "unit_checkpoint", "consolidate", "link_read", "link_write",
          "report", "delete", "save_terminated"}
\* Where it is before it has found anything.
Asking == {"idle", "resume", "publish", "terminate", "cleanup"}

Rows == [command : BOOLEAN, budget : BOOLEAN, checkpoint : Nat, expired : BOOLEAN,
         result : Result, plan : BOOLEAN, events : SUBSET Event, link : Link,
         marker : BOOLEAN, tombstone : BOOLEAN]
Process == [at : Late \cup Early \cup Asking, run : Nat, resumed : BOOLEAN, failed : BOOLEAN,
            unsaved : BOOLEAN, unit : Says, owes : SUBSET Fact,
            state : {"none", "complete", "partial"}, link : Link, result : Result]

TypeInv ==
    /\ rows \in Rows
    /\ proc \in [Procs -> Process]
    /\ now \in Nat
    /\ history \in [moves : Nat, life : Nat, gone : SUBSET Fact, quiet : BOOLEAN]

-----------------------------------------------------------------------------
(* The inductive invariant                                                 *)

\* Only a finding says anything of its own, and a task with events has a marker.
EventInv ==
    /\ \A e \in rows.events : e.key = Stable("finding") \/ e.unit = NoUnit
    /\ rows.events # {} \/ history.gone # {} => rows.marker

\* What a link leads to is there for as long as the link lives.
Leads(link) ==
    link.expires > now /\ link.life = history.life =>
        \A key \in link.events :
            \E e \in rows.events : e.key = key /\ e.expires >= link.expires

LinkInv ==
    /\ rows.link.life <= history.life /\ Leads(rows.link)
    /\ \A p \in Procs : proc[p].link.life <= history.life /\ Leads(proc[p].link)

\* What was traced is still there or is known to be gone.
Traced == Facts(rows.events) \cup history.gone

\* A result that says complete owes no evidence but what was traced.
Honest(result, traced) == result.state = "complete" => Evidence(result.owes) \subseteq traced

\* Nor does a run that says so.  One that has not failed owes nothing at all, and
\* it says nothing before its snapshot.
Sound(run, traced) ==
    /\ ~run.failed => run.owes \subseteq traced
    /\ run.state = "complete" => Evidence(run.owes) \subseteq traced
    /\ run.at \notin Late => run.state = "none"
    /\ Honest(run.result, traced)

DebtInv == Honest(rows.result, Traced) /\ \A p \in Procs : Sound(proc[p], Traced)

\* A review that has looked at the trace a last time, and goes on, holds a result
\* that says complete only if all its events were traced.
LookedInv == \A p \in Procs : proc[p].at = "plan" /\ proc[p].result.state = "complete" =>
                                  proc[p].result.owes \subseteq Traced

\* After a quiet cleanup no process finds anything.
QuietInv ==
    history.quiet => /\ rows = [NoRows EXCEPT !.marker = rows.marker, !.tombstone = TRUE]
                     /\ \A p \in Procs : proc[p].at \in Asking

IInv == TypeInv /\ EventInv /\ LinkInv /\ DebtInv /\ LookedInv /\ QuietInv

-----------------------------------------------------------------------------
(* Facts about the operators                                               *)

\* The first of some numbers is one of them, and none is less.
LEMMA MinIsFirst ==
  ASSUME NEW S \in SUBSET Nat, S # {}
  PROVE  Min(S) \in S /\ \A x \in S : Min(S) <= x
  <1> DEFINE R == OpToRel(<, Nat)
  <1>1. PICK x \in S : \A y \in S : ~(<<y, x>> \in R)
    <2>1. IsWellFoundedOn(R, Nat)
      BY NatLessThanWellFounded
    <2> HIDE DEF R
    <2>2. QED BY <2>1, WFMin
  <1>2. \A y \in S : x <= y
    <2> SUFFICES ASSUME NEW y \in S PROVE x <= y
      OBVIOUS
    <2>1. ~(y < x)
      BY <1>1 DEF OpToRel
    <2>2. QED BY <2>1
  <1>3. QED BY <1>2 DEF Min

\* The values that stand for nothing are of their types.
LEMMA Empties ==
  /\ NoResult \in Result /\ NoLink \in Link /\ NoRows \in Rows
  /\ Idle \in Process
  <1>1. NoResult \in Result
    BY DEF NoResult, Result
  <1>2. NoLink \in Link
    BY DEF NoLink, Link, Says, NoUnit
  <1>3. NoRows \in Rows
    BY <1>1, <1>2 DEF NoRows, Rows
  <1>4. Idle \in Process
    BY <1>1, <1>2 DEF Idle, Process, Asking, Says
  <1>5. QED BY <1>1, <1>2, <1>3, <1>4

\* The keys that the commands write events under are keys.
LEMMA KeyType ==
  /\ \A kind \in Kinds : Stable(kind) \in Key
  /\ \A kind \in Kinds, p \in Procs : TypeInv => Fresh(p, kind) \in Key
  BY DEF Stable, Fresh, Key, TypeInv, Process

\* No event expires before the bound of a link.
LEMMA FirstExpiryType ==
  ASSUME TypeInv
  PROVE  FirstExpiry \in Nat /\ \A e \in rows.events : FirstExpiry <= e.expires
  <1> DEFINE S == {e.expires : e \in rows.events} \cup {now + Retention}
  <1>1. \A e \in rows.events : e.expires \in Nat
    BY DEF TypeInv, Rows, Event
  <1>2. S \in SUBSET Nat /\ S # {}
    BY <1>1 DEF TypeInv
  <1>3. Min(S) \in S /\ \A x \in S : Min(S) <= x
    <2> HIDE DEF S
    <2>1. QED BY <1>2, MinIsFirst
  <1>4. QED BY <1>2, <1>3 DEF FirstExpiry

\* An appended event is an event.
LEMMA AppendedType ==
  ASSUME TypeInv, NEW key \in Key, NEW unit \in Says
  PROVE  /\ Appended(key, unit) \in Rows
         /\ \A p \in Procs : Owing(p, key, unit) \in SUBSET Fact
  <1>1. [key |-> key, unit |-> unit, expires |-> now + Retention] \in Event
    BY DEF TypeInv, Event
  <1>2. Appended(key, unit) \in Rows
    BY <1>1 DEF TypeInv, Appended, Rows
  <1>3. \A p \in Procs : Owing(p, key, unit) \in SUBSET Fact
    BY DEF TypeInv, Owing, Fact, Process
  <1>4. QED BY <1>2, <1>3

\* What is not expired, or left of a task, are rows.
LEMMA RowsTypes ==
  ASSUME TypeInv
  PROVE  Expired(rows) \in Rows /\ Cleaned(rows) \in Rows
  <1>1. Cleaned(rows) \in Rows
    BY Empties DEF TypeInv, Cleaned, Rows
  <1>2. Expired(rows) \in Rows
    <2> DEFINE live == {e \in rows.events : e.expires > now}
               link == IF rows.link.expires <= now THEN NoLink ELSE rows.link
    <2>1. live \subseteq Event /\ link \in Link
      BY Empties DEF TypeInv, Rows
    <2> HIDE DEF live, link
    <2>2. QED BY <2>1 DEF TypeInv, Expired, Rows, live, link
  <1>3. QED BY <1>1, <1>2

-----------------------------------------------------------------------------
(* Types                                                                   *)

\* Tracing changes the place, the debt and the failure of a process.
LEMMA TraceType ==
  ASSUME TypeInv, NEW p \in Procs, NEW key \in Key, NEW unit \in Says,
         NEW label \in Late \cup Early \cup Asking, Trace(p, key, unit, label)
  PROVE  TypeInv'
  <1>1. Appended(key, unit) \in Rows /\ Owing(p, key, unit) \in SUBSET Fact
    BY AppendedType
  <1>2. rows' \in Rows /\ now' = now
    BY <1>1 DEF TypeInv, Trace, Raises, Fault
  <1>3. history' \in [moves : Nat, life : Nat, gone : SUBSET Fact, quiet : BOOLEAN]
    BY DEF TypeInv, Trace, Raises, Fault
  <1>4. proc' \in [Procs -> Process]
    BY <1>1 DEF TypeInv, Trace, Process
  <1>5. QED BY <1>2, <1>3, <1>4 DEF TypeInv

\* Every command keeps the types of the rows and of what it holds.
LEMMA TypeStep ==
  ASSUME TypeInv, [Next]_vars
  PROVE  TypeInv'
  <1> DEFINE HistoryType == [moves : Nat, life : Nat, gone : SUBSET Fact, quiet : BOOLEAN]
  <1>0. /\ rows \in Rows /\ proc \in [Procs -> Process] /\ now \in Nat /\ history \in HistoryType
        /\ NoResult \in Result /\ NoLink \in Link /\ Idle \in Process
    BY Empties DEF TypeInv
  <1>1. CASE Tick
    BY <1>1 DEF TypeInv, Tick
  <1>2. CASE UNCHANGED vars
    BY <1>2 DEF TypeInv, vars
  <1>3. ASSUME NEW p \in Procs, Open(p) PROVE TypeInv'
    <2>1. Facts(rows.events) \subseteq Fact
      BY <1>0 DEF Facts, Rows, Event, Fact
    <2>2. rows' \in Rows /\ now' = now
      BY <1>3, RowsTypes DEF Open, TypeInv
    <2> DEFINE gone == history.gone \cup (Facts(rows.events) \ Facts(rows'.events))
               new(label) == [Idle EXCEPT !.at = label,
                   !.run = IF label \in {"resume", "publish"} THEN history.moves + 1 ELSE 0,
                   !.resumed = label = "resume"]
    <2>3. history' \in HistoryType
      <3>1. gone \in SUBSET Fact
        BY <1>0, <2>1
      <3>2. /\ history.moves \in Nat /\ history.life \in Nat /\ history.quiet \in BOOLEAN
            /\ history = [moves |-> history.moves, life |-> history.life,
                          gone |-> history.gone, quiet |-> history.quiet]
        BY <1>0
      <3> DEFINE moves == IF history.quiet THEN history.moves ELSE history.moves + 1
      <3>3. history' = [history EXCEPT !.moves = moves, !.gone = gone]
        BY <1>3 DEF Open
      <3>4. moves \in Nat
        BY <3>2
      <3> HIDE DEF gone, moves
      <3>5. history' = [moves |-> moves, life |-> history.life, gone |-> gone,
                        quiet |-> history.quiet]
        BY <3>2, <3>3
      <3>6. QED BY <3>1, <3>2, <3>4, <3>5
    <2>4. proc' \in [Procs -> Process]
      <3>1. ASSUME NEW label \in Asking PROVE new(label) \in Process
        <4> DEFINE run == IF label \in {"resume", "publish"} THEN history.moves + 1 ELSE 0
                   resumed == label = "resume"
        <4>1. run \in Nat /\ resumed \in BOOLEAN
          BY <1>0
        <4>2. new(label) = [Idle EXCEPT !.at = label, !.run = run, !.resumed = resumed]
          OBVIOUS
        <4> HIDE DEF new, run, resumed
        <4>3. QED BY <1>0, <4>1, <4>2 DEF Process
      <3>2. PICK label \in Asking : proc' = [proc EXCEPT ![p] = new(label)]
        BY <1>3 DEF Open, Asking
      <3> HIDE DEF new
      <3>3. QED BY <1>0, <3>1, <3>2
    <2>5. QED BY <2>2, <2>3, <2>4 DEF TypeInv
  <1>4. ASSUME NEW p \in Procs, Dies(p) PROVE TypeInv'
    BY <1>0, <1>4 DEF Dies, Stops, Fault, TypeInv
  <1>5. ASSUME NEW p \in Procs, CreateAccount(p) \/ SaveCommand(p) \/ Execute(p) PROVE TypeInv'
    <2>1. rows' \in Rows
      BY <1>0, <1>5 DEF CreateAccount, SaveCommand, Execute, Rows
    <2>2. proc' \in [Procs -> Process]
      BY <1>0, <1>5 DEF CreateAccount, SaveCommand, Execute, Goes, Process, Early
    <2>3. QED BY <1>0, <1>5, <2>1, <2>2 DEF CreateAccount, SaveCommand, Execute, TypeInv
  <1>6. ASSUME NEW p \in Procs,
               FindCommand(p) \/ LoadCheckpoint(p) \/ NoFinding(p) \/ ReadPlan(p) \/ FindResult(p)
        PROVE  TypeInv'
    <2>1. proc' \in [Procs -> Process]
      BY <1>0, <1>6 DEF FindCommand, LoadCheckpoint, NoFinding, ReadPlan, FindResult, Goes, Stops, Process, Early, Late
    <2>2. QED BY <1>0, <1>6, <2>1 DEF FindCommand, LoadCheckpoint, NoFinding, ReadPlan, FindResult, TypeInv
  <1>7. ASSUME NEW p \in Procs, Normalize(p) \/ TraceUnit(p) \/ Finding(p) PROVE TypeInv'
    <2>1. /\ Stable("input") \in Key /\ Fresh(p, "unit") \in Key /\ Stable("finding") \in Key
          /\ NoUnit \in Says /\ Contents \subseteq Says
          /\ {"load_checkpoint", "unit_checkpoint", "link_read"} \subseteq Early
      BY KeyType DEF Kinds, Says, Early
    <2>2. QED BY <1>7, <2>1, TraceType DEF Normalize, TraceUnit, Finding
  <1>8. ASSUME NEW p \in Procs, SaveCheckpoint(p) PROVE TypeInv'
    <2>1. rows' \in Rows
      BY <1>0, <1>8 DEF SaveCheckpoint, Fault, Rows
    <2>2. proc' \in [Procs -> Process]
      BY <1>0, <1>8 DEF SaveCheckpoint, Goes, Process, Early
    <2>3. QED BY <1>0, <1>8, <2>1, <2>2 DEF SaveCheckpoint, Fault, TypeInv
  <1>9. ASSUME NEW p \in Procs, LinkRead(p) PROVE TypeInv'
    <2>1. FirstExpiry \in Nat /\ Keys(rows.events) \subseteq Key /\ proc[p].unit \in Says
      BY <1>0, FirstExpiryType DEF TypeInv, Keys, Rows, Event, Process
    <2>2. [expires |-> FirstExpiry, unit |-> proc[p].unit, events |-> Keys(rows.events),
           life |-> history.life] \in Link
      BY <1>0, <2>1 DEF Link
    <2>3. proc' \in [Procs -> Process]
      BY <1>0, <1>9, <2>2 DEF LinkRead, Process, Early
    <2>4. QED BY <1>0, <1>9, <2>3 DEF LinkRead, TypeInv
  <1>10. ASSUME NEW p \in Procs, LinkWrite(p) PROVE TypeInv'
    <2>1. rows' \in Rows
      BY <1>0, <1>10 DEF LinkWrite, Raises, Fault, Rows, Process
    <2>2. proc' \in [Procs -> Process]
      BY <1>0, <1>10 DEF LinkWrite, Process, Early
    <2>3. QED BY <1>0, <1>10, <2>1, <2>2 DEF LinkWrite, Raises, Fault, TypeInv
  <1>11. ASSUME NEW p \in Procs, Report(p) \/ Deliver(p) PROVE TypeInv'
    <2>1. /\ Stable("report") \in Key /\ Stable("delivered") \in Key /\ NoUnit \in Says
          /\ Verdict(p) \in {"complete", "partial"}
      BY KeyType DEF Kinds, Says, Verdict
    <2>2. /\ Appended(Stable("report"), NoUnit) \in Rows
          /\ Appended(Stable("delivered"), NoUnit) \in Rows
          /\ Owing(p, Stable("report"), NoUnit) \in SUBSET Fact
          /\ Owing(p, Stable("delivered"), NoUnit) \in SUBSET Fact
      BY <2>1, AppendedType
    <2>3. proc' \in [Procs -> Process]
      BY <1>0, <1>11, <2>1, <2>2 DEF Report, Deliver, Process, Late
    <2>4. QED BY <1>0, <1>11, <2>2, <2>3 DEF Report, Deliver, Fault, TypeInv
  <1>12. ASSUME NEW p \in Procs, SaveResult(p) PROVE TypeInv'
    <2> DEFINE result == [phase |-> "completed", published |-> FALSE,
                          state |-> IF proc[p].unsaved THEN "partial" ELSE proc[p].state,
                          owes |-> proc[p].owes]
    <2>1. result \in Result
      BY <1>0 DEF Result, Process
    <2>2. /\ rows' = [rows EXCEPT !.result = result]
          /\ IF proc[p].resumed THEN Stops(p)
             ELSE proc' = [proc EXCEPT ![p].result = result,
                     ![p].at = IF proc[p].failed THEN "save_partial" ELSE "plan"]
          /\ UNCHANGED <<now, history>>
      BY <1>12 DEF SaveResult
    <2> HIDE DEF result
    <2>3. rows' \in Rows
      BY <1>0, <2>1, <2>2 DEF Rows
    <2>4. proc' \in [Procs -> Process]
      BY <1>0, <2>1, <2>2 DEF Stops, Process, Late
    <2>5. QED BY <1>0, <2>2, <2>3, <2>4 DEF TypeInv
  <1>13. ASSUME NEW p \in Procs, SavePartial(p) PROVE TypeInv'
    <2> DEFINE result == [proc[p].result EXCEPT !.state = "partial"]
    <2>1. result \in Result
      <3>1. proc[p].result \in Result
        BY <1>0 DEF Process
      <3>2. QED BY <3>1 DEF Result
    <2>2. /\ rows' = [rows EXCEPT !.result = result]
          /\ proc' = [proc EXCEPT ![p].result = result, ![p].at = "plan"]
          /\ UNCHANGED <<now, history>>
      BY <1>13 DEF SavePartial
    <2> HIDE DEF result
    <2>3. rows' \in Rows
      BY <1>0, <2>1, <2>2 DEF Rows
    <2>4. proc' \in [Procs -> Process]
      <3>1. [proc[p] EXCEPT !.result = result, !.at = "plan"] \in Process
        BY <1>0, <2>1 DEF Process, Late
      <3>2. proc' = [proc EXCEPT ![p] = [proc[p] EXCEPT !.result = result, !.at = "plan"]]
        BY <1>0, <2>2
      <3>3. QED BY <1>0, <3>1, <3>2
    <2>5. QED BY <1>0, <2>2, <2>3, <2>4 DEF TypeInv
  <1>14. ASSUME NEW p \in Procs, SavePlan(p) PROVE TypeInv'
    <2>1. rows' \in Rows
      BY <1>0, <1>14 DEF SavePlan, Rows
    <2>2. proc' \in [Procs -> Process]
      BY <1>0, <1>14 DEF SavePlan, Goes, Stops, Process, Late
    <2>3. QED BY <1>0, <1>14, <2>1, <2>2 DEF SavePlan, TypeInv
  <1>15. ASSUME NEW p \in Procs, TracePlan(p) \/ PublishItems(p) PROVE TypeInv'
    <2>1. Stable("planned") \in Key /\ Fresh(p, "published") \in Key /\ NoUnit \in Says
      BY KeyType DEF Kinds, Says
    <2>2. PICK key \in Key, label \in Late \cup {"idle"} : MustTrace(p, key, label)
      BY <1>15, <2>1 DEF TracePlan, PublishItems, Late
    <2>3. rows' \in Rows
      BY <2>1, <2>2, AppendedType DEF MustTrace
    <2>4. proc' \in [Procs -> Process]
      BY <1>0, <2>2 DEF MustTrace, Goes, Stops, Process
    <2>5. QED BY <1>0, <2>2, <2>3, <2>4 DEF MustTrace, TypeInv
  <1>16. ASSUME NEW p \in Procs, ReadResult(p) PROVE TypeInv'
    <2>1. proc' \in [Procs -> Process]
      BY <1>0, <1>16 DEF ReadResult, Stops, Process, Rows, Late, Early
    <2>2. QED BY <1>0, <1>16, <2>1 DEF ReadResult, TypeInv
  <1>17. ASSUME NEW p \in Procs, SavePublished(p) \/ SaveTerminated(p) PROVE TypeInv'
    <2>1. /\ [proc[p].result EXCEPT !.published = TRUE] \in Result
          /\ [proc[p].result EXCEPT !.phase = "terminated"] \in Result
      BY <1>0 DEF Process, Result
    <2>2. rows' \in Rows
      BY <1>0, <1>17, <2>1 DEF SavePublished, SaveTerminated, Rows
    <2>3. QED BY <1>0, <1>17, <2>2 DEF SavePublished, SaveTerminated, Stops, TypeInv
  <1>18. ASSUME NEW p \in Procs, Delete(p) PROVE TypeInv'
    <2>1. Facts(rows.events) \subseteq Fact
      BY <1>0 DEF Facts, Rows, Event, Fact
    <2> DEFINE quiet == \A q \in Procs \ {p} : At(q, "idle")
               gone  == history.gone \cup Facts(rows.events)
    <2>2. history' \in HistoryType
      <3>1. gone \in SUBSET Fact /\ quiet \in BOOLEAN
        BY <1>0, <2>1
      <3>2. history' = [history EXCEPT !.life = @ + 1, !.gone = gone, !.quiet = quiet]
        BY <1>18 DEF Delete
      <3>3. /\ history.moves \in Nat /\ history.life \in Nat
            /\ history = [moves |-> history.moves, life |-> history.life,
                          gone |-> history.gone, quiet |-> history.quiet]
        BY <1>0
      <3> HIDE DEF gone, quiet
      <3>4. history' = [moves |-> history.moves, life |-> history.life + 1, gone |-> gone,
                        quiet |-> quiet]
        BY <3>2, <3>3
      <3>5. QED BY <3>1, <3>3, <3>4
    <2>3. QED BY <1>0, <1>18, <2>2, RowsTypes DEF Delete, Stops, TypeInv
  <1>19. QED
    BY <1>1, <1>2, <1>3, <1>4, <1>5, <1>6, <1>7, <1>8, <1>9, <1>10, <1>11, <1>12, <1>13, <1>14,
       <1>15, <1>16, <1>17, <1>18 DEF Next, RunStep

\* What tracing leaves alone.
LEMMA TraceEffect ==
  ASSUME TypeInv, NEW p \in Procs, NEW key \in Key, NEW unit \in Says,
         NEW label, Trace(p, key, unit, label)
  PROVE  /\ \A q \in Procs \ {p} : proc'[q] = proc[q]
         /\ proc'[p].link = proc[p].link /\ proc'[p].state = proc[p].state
         /\ proc'[p].result = proc[p].result /\ proc'[p].at = label
         /\ proc'[p].owes = Owing(p, key, unit)
         /\ \/ Accepts(key, unit) /\ rows' = Appended(key, unit) /\ proc'[p].failed = proc[p].failed
            \/ rows' = rows /\ proc'[p].failed = TRUE
         /\ history'.gone = history.gone
  <1>1. proc \in [Procs -> Process]
    BY DEF TypeInv
  <1>2. CASE /\ Accepts(key, unit) /\ rows' = Appended(key, unit)
             /\ proc' = [proc EXCEPT ![p].at = label, ![p].unit = unit,
                                     ![p].owes = Owing(p, key, unit)]
             /\ UNCHANGED <<now, history>>
    BY <1>1, <1>2 DEF Process
  <1>3. CASE /\ Raises(~Accepts(key, unit))
             /\ proc' = [proc EXCEPT ![p].at = label, ![p].unit = unit,
                               ![p].owes = Owing(p, key, unit), ![p].failed = TRUE]
    <2>1. rows' = rows /\ history'.gone = history.gone
      BY <1>3 DEF Raises, Fault, TypeInv
    <2>2. QED BY <1>1, <1>3, <2>1 DEF Process
  <1>4. QED BY <1>2, <1>3 DEF Trace

\* The same for an event without which the command does not go on.
LEMMA MustTraceEffect ==
  ASSUME TypeInv, NEW p \in Procs, NEW key \in Key, NEW label, MustTrace(p, key, label)
  PROVE  /\ \A q \in Procs \ {p} : proc'[q] = proc[q]
         /\ proc'[p] = Idle \/ proc'[p] = [proc[p] EXCEPT !.at = label]
         /\ rows' = Appended(key, NoUnit) /\ UNCHANGED <<now, history>>
  BY DEF TypeInv, MustTrace, Stops, Goes

-----------------------------------------------------------------------------
(* What a step may do to the trace                                         *)

\* Nothing; one more event; what has expired goes; all of it goes.
Kept    == /\ rows'.events = rows.events /\ rows'.marker = rows.marker
           /\ history'.gone = history.gone /\ history'.life = history.life
Adds(key, unit) ==
           /\ rows' = Appended(key, unit)
           /\ key = Stable("finding") \/ unit = NoUnit
           /\ history'.gone = history.gone /\ history'.life = history.life /\ now' = now
Lapses  == /\ rows' = Expired(rows) /\ history'.life = history.life /\ now' = now
           /\ history'.gone = history.gone \cup (Facts(rows.events) \ Facts(rows'.events))
Cleared == /\ rows' = Cleaned(rows) /\ history'.life = history.life + 1 /\ now' = now
           /\ history'.gone = history.gone \cup Facts(rows.events)

\* There is nothing else that happens to a trace.
LEMMA FourWays ==
  ASSUME TypeInv, [Next]_vars
  PROVE  /\ Kept \/ (\E key \in Key, unit \in Says : Adds(key, unit)) \/ Lapses \/ Cleared
         /\ now <= now' /\ now \in Nat /\ now' \in Nat
  <1> DEFINE Some == \E key \in Key, unit \in Says : Adds(key, unit)
             Any  == Kept \/ Some \/ Lapses \/ Cleared
  <1>0. /\ rows \in Rows /\ history \in [moves : Nat, life : Nat, gone : SUBSET Fact, quiet : BOOLEAN]
        /\ \A kind \in Kinds : Stable(kind) \in Key
        /\ \A kind \in Kinds, p \in Procs : Fresh(p, kind) \in Key
        /\ NoUnit \in Says /\ Contents \subseteq Says
    BY KeyType DEF TypeInv, Says
  <1>1. ASSUME Tick \/ UNCHANGED vars PROVE Kept
    BY <1>1 DEF Tick, vars, Kept
  <1>2. ASSUME NEW p \in Procs, Open(p) PROVE Lapses
    BY <1>0, <1>2 DEF Open, Lapses
  <1>3. ASSUME NEW p \in Procs,
               \/ Dies(p) \/ CreateAccount(p) \/ FindCommand(p) \/ SaveCommand(p)
               \/ LoadCheckpoint(p) \/ SaveCheckpoint(p) \/ Execute(p) \/ NoFinding(p)
               \/ LinkRead(p) \/ SaveResult(p) \/ SavePartial(p) \/ SavePlan(p)
               \/ ReadPlan(p) \/ ReadResult(p) \/ SavePublished(p) \/ SaveTerminated(p)
               \/ FindResult(p)
        PROVE  Kept
    BY <1>0, <1>3
       DEF Dies, CreateAccount, FindCommand, SaveCommand, LoadCheckpoint, SaveCheckpoint, Execute,
           NoFinding, LinkRead, SaveResult, SavePartial, SavePlan, ReadPlan, ReadResult,
           SavePublished, SaveTerminated, FindResult, Fault, Kept, Rows
  <1>4. ASSUME NEW p \in Procs, LinkWrite(p) PROVE Kept
    BY <1>0, <1>4 DEF LinkWrite, Raises, Fault, Kept, Rows
  <1>5. ASSUME NEW p \in Procs, NEW key \in Key, NEW unit \in Says, NEW label,
               Trace(p, key, unit, label), key = Stable("finding") \/ unit = NoUnit
        PROVE  Kept \/ Some
    BY <1>0, <1>5 DEF Trace, Raises, Fault, Kept, Adds
  <1>6. ASSUME NEW p \in Procs, Normalize(p) \/ TraceUnit(p) \/ Finding(p) PROVE Kept \/ Some
    BY <1>0, <1>5, <1>6 DEF Normalize, TraceUnit, Finding, Kinds, Early
  <1>7. ASSUME NEW p \in Procs, Report(p) \/ Deliver(p) PROVE Kept \/ Some
    BY <1>0, <1>7 DEF Report, Deliver, Fault, Kept, Adds, Kinds
  <1>8. ASSUME NEW p \in Procs, TracePlan(p) \/ PublishItems(p) PROVE Kept \/ Some
    BY <1>0, <1>8 DEF TracePlan, PublishItems, MustTrace, Adds, Kinds
  <1>9. ASSUME NEW p \in Procs, Delete(p) PROVE Cleared
    BY <1>0, <1>9 DEF Delete, Cleared
  <1>10. Any
    BY <1>1, <1>2, <1>3, <1>4, <1>6, <1>7, <1>8, <1>9 DEF Next, RunStep
  <1>11. now <= now' /\ now \in Nat /\ now' \in Nat
    <2>1. now' = now \/ now' = now + 1
      <3>1. ASSUME NEW p \in Procs,
                   \/ Open(p) \/ Dies(p) \/ CreateAccount(p) \/ FindCommand(p) \/ SaveCommand(p)
                   \/ LoadCheckpoint(p) \/ SaveCheckpoint(p) \/ Execute(p) \/ NoFinding(p)
            PROVE  now' = now
        BY <3>1 DEF Open, Dies, CreateAccount, FindCommand, SaveCommand, LoadCheckpoint,
                    SaveCheckpoint, Execute, NoFinding, Fault
      <3>2. ASSUME NEW p \in Procs,
                   \/ Normalize(p) \/ TraceUnit(p) \/ Finding(p) \/ TracePlan(p) \/ PublishItems(p)
            PROVE  now' = now
        BY <3>2 DEF Normalize, TraceUnit, Finding, TracePlan, PublishItems, Trace, MustTrace,
                    Raises, Fault
      <3>3. ASSUME NEW p \in Procs,
                   \/ LinkRead(p) \/ LinkWrite(p) \/ Report(p) \/ Deliver(p) \/ SaveResult(p)
                   \/ SavePartial(p) \/ SavePlan(p) \/ ReadPlan(p)
            PROVE  now' = now
        BY <3>3 DEF LinkRead, LinkWrite, Report, Deliver, SaveResult, SavePartial, SavePlan,
                    ReadPlan, Raises, Fault
      <3>4. ASSUME NEW p \in Procs,
                   \/ ReadResult(p) \/ SavePublished(p) \/ SaveTerminated(p)
                   \/ FindResult(p) \/ Delete(p)
            PROVE  now' = now
        BY <3>4 DEF ReadResult, SavePublished, SaveTerminated, FindResult, Delete
      <3>5. CASE Tick \/ UNCHANGED vars
        BY <3>5 DEF Tick, vars
      <3>6. QED BY <3>1, <3>2, <3>3, <3>4, <3>5 DEF Next, RunStep
    <2>2. now \in Nat
      BY DEF TypeInv
    <2>3. QED BY <2>1, <2>2
  <1>12. QED BY <1>10, <1>11

\* What was traced stays in the trace or is known to be gone.
LEMMA TracedGrows ==
  ASSUME TypeInv, [Next]_vars
  PROVE  Traced \subseteq Traced'
  <1>0. rows \in Rows
    BY DEF TypeInv
  <1>1. CASE Kept
    BY <1>1 DEF Kept, Traced
  <1>2. ASSUME NEW key \in Key, NEW unit \in Says, Adds(key, unit) PROVE Traced \subseteq Traced'
    <2>1. rows.events \subseteq rows'.events
      BY <1>0, <1>2 DEF Adds, Appended, Rows
    <2>2. QED BY <1>2, <2>1 DEF Adds, Traced, Facts
  <1>3. CASE Lapses
    BY <1>3 DEF Lapses, Traced
  <1>4. CASE Cleared
    BY <1>4 DEF Cleared, Traced
  <1>5. QED BY <1>1, <1>2, <1>3, <1>4, FourWays

\* Findings say the units they come from; what was traced left a marker.
LEMMA EventStep ==
  ASSUME TypeInv, EventInv, [Next]_vars
  PROVE  EventInv'
  <1>0. rows \in Rows
    BY DEF TypeInv
  <1>1. CASE Kept
    BY <1>1 DEF Kept, EventInv, Stable
  <1>2. ASSUME NEW key \in Key, NEW unit \in Says, Adds(key, unit) PROVE EventInv'
    <2>1. CASE key \in Keys(rows.events)
      BY <1>2, <2>1 DEF Adds, Appended, EventInv, Stable
    <2>2. CASE key \notin Keys(rows.events)
      <3> DEFINE new == [key |-> key, unit |-> unit, expires |-> now + Retention]
      <3>1. rows'.events = rows.events \cup {new} /\ rows'.marker = TRUE
        BY <1>0, <1>2, <2>2 DEF Adds, Appended, Rows
      <3>2. new.key = Stable("finding") \/ new.unit = NoUnit
        BY <1>2 DEF Adds
      <3> HIDE DEF new
      <3>3. QED BY <3>1, <3>2 DEF EventInv, Stable
    <2>3. QED BY <2>1, <2>2
  <1>3. CASE Lapses
    <2>1. rows'.events \subseteq rows.events /\ rows'.marker = rows.marker
      BY <1>0, <1>3 DEF Lapses, Expired, Rows
    <2>2. history'.gone # {} => rows.events # {} \/ history.gone # {}
      BY <1>3 DEF Lapses, Facts
    <2>3. QED BY <2>1, <2>2 DEF EventInv, Stable
  <1>4. CASE Cleared
    <2>1. rows'.events = {} /\ rows'.marker = rows.marker
      BY <1>4 DEF Cleared, Cleaned, NoRows
    <2>2. history'.gone # {} => rows.events # {} \/ history.gone # {}
      BY <1>4 DEF Cleared, Facts
    <2>3. QED BY <2>1, <2>2 DEF EventInv
  <1>5. QED BY <1>1, <1>2, <1>3, <1>4, FourWays

-----------------------------------------------------------------------------
(* Links                                                                   *)

\* What Leads says after a step of a link as it is now.
Holds(link) ==
    /\ link.life <= history'.life
    /\ link.expires > now' /\ link.life = history'.life =>
          \A key \in link.events :
              \E e \in rows'.events : e.key = key /\ e.expires >= link.expires

\* A link leads to its events after every step, the clock's included.
LEMMA LinksHold ==
  ASSUME TypeInv, [Next]_vars, NEW link \in Link, link.life <= history.life, Leads(link)
  PROVE  Holds(link)
  <1>0. /\ rows \in Rows /\ link.expires \in Nat /\ link.life \in Nat /\ history.life \in Nat
        /\ now \in Nat /\ now' \in Nat /\ now <= now'
        /\ \A e \in rows.events : e.expires \in Nat
    BY FourWays DEF TypeInv, Link, Rows, Event
  <1>1. CASE history'.life = history.life /\ rows.events \subseteq rows'.events
    <2> SUFFICES ASSUME link.expires > now', link.life = history'.life, NEW key \in link.events
                 PROVE  \E e \in rows'.events : e.key = key /\ e.expires >= link.expires
      BY <1>0, <1>1 DEF Holds
    <2>1. link.expires > now /\ link.life = history.life
      BY <1>0, <1>1
    <2>2. QED BY <1>1, <2>1 DEF Leads
  <1>2. CASE Kept
    BY <1>1, <1>2 DEF Kept
  <1>3. ASSUME NEW key \in Key, NEW unit \in Says, Adds(key, unit)
        PROVE  rows.events \subseteq rows'.events /\ history'.life = history.life
    BY <1>0, <1>3 DEF Adds, Appended, Rows
  <1>4. CASE Lapses
    <2>1. /\ rows'.events = {e \in rows.events : e.expires > now}
          /\ history'.life = history.life /\ now' = now
      BY <1>0, <1>4 DEF Lapses, Expired, Rows
    <2> SUFFICES ASSUME link.expires > now, link.life = history.life, NEW key \in link.events
                 PROVE  \E e \in rows'.events : e.key = key /\ e.expires >= link.expires
      BY <1>0, <2>1 DEF Holds
    <2>2. PICK e \in rows.events : e.key = key /\ e.expires >= link.expires
      BY DEF Leads
    <2>3. e \in rows'.events
      BY <1>0, <2>1, <2>2
    <2>4. QED BY <2>2, <2>3
  <1>5. CASE Cleared
    BY <1>0, <1>5 DEF Cleared, Holds
  <1>6. QED BY <1>1, <1>2, <1>3, <1>4, <1>5, FourWays

\* A step leaves a link alone, drops it, writes the one a process holds, or
\* makes one that expires with the first event.
LEMMA LinkStep ==
  ASSUME TypeInv, LinkInv, [Next]_vars
  PROVE  LinkInv'
  <1> DEFINE Made(p) == [expires |-> FirstExpiry, unit |-> proc[p].unit,
                         events |-> Keys(rows.events), life |-> history.life]
  <1>0. /\ rows \in Rows /\ proc \in [Procs -> Process] /\ history.life \in Nat /\ now' \in Nat
        /\ history'.life \in Nat /\ NoLink \in Link /\ rows.link \in Link
        /\ \A p \in Procs : proc[p].link \in Link
        /\ TypeInv' /\ Idle \in Process
    <2>1. TypeInv'
      BY TypeStep
    <2>2. QED BY <2>1, Empties DEF TypeInv, Rows, Process
  <1>1. Holds(NoLink)
    BY <1>0 DEF NoLink, Holds
  <1>2. Holds(rows.link) /\ \A p \in Procs : Holds(proc[p].link)
    <2>1. \A link \in Link : link.life <= history.life /\ Leads(link) => Holds(link)
      BY LinksHold
    <2>2. QED BY <1>0, <2>1 DEF LinkInv
  <1>3. ASSUME NEW p \in Procs, LinkRead(p) PROVE Holds(Made(p))
    <2>1. rows' = rows /\ history' = history /\ now' = now
      BY <1>3 DEF LinkRead
    <2>2. FirstExpiry \in Nat /\ \A e \in rows.events : FirstExpiry <= e.expires /\ e.expires \in Nat
      BY <1>0, FirstExpiryType DEF Rows, Event
    <2> DEFINE first == FirstExpiry
    <2>3. \A key \in Keys(rows.events) : \E e \in rows.events : e.key = key /\ e.expires >= first
      BY <2>2 DEF Keys
    <2> HIDE DEF first
    <2>4. Made(p).expires = first /\ Made(p).events = Keys(rows.events) /\ Made(p).life = history.life
      BY DEF first
    <2>5. QED BY <1>0, <2>1, <2>3, <2>4 DEF Holds
  <1> DEFINE Writes == \/ rows'.link = rows.link \/ rows'.link = NoLink
                       \/ \E q \in Procs : rows'.link = proc[q].link
             Holding(q) == \/ proc'[q].link = proc[q].link \/ proc'[q].link = NoLink
                           \/ Holds(proc'[q].link)
  <1>4. ASSUME Tick \/ UNCHANGED vars PROVE Writes /\ \A q \in Procs : Holding(q)
    BY <1>4 DEF Tick, vars
  <1>5. ASSUME NEW p \in Procs, Open(p) \/ Dies(p) \/ Delete(p) PROVE Writes /\ \A q \in Procs : Holding(q)
    <2>1. rows'.link = rows.link \/ rows'.link = NoLink
      BY <1>0, <1>5 DEF Open, Dies, Delete, Fault, Expired, Cleaned, NoRows, Rows
    <2>2. \A q \in Procs : proc'[q].link = proc[q].link \/ proc'[q].link = NoLink
      <3>1. CASE Open(p)
        <4> DEFINE new(label) == [Idle EXCEPT !.at = label,
              !.run = IF label \in {"resume", "publish"} THEN history.moves + 1 ELSE 0,
              !.resumed = label = "resume"]
        <4>1. PICK label : proc' = [proc EXCEPT ![p] = new(label)]
          BY <3>1 DEF Open
        <4>2. new(label).link = NoLink
          BY DEF Idle
        <4> HIDE DEF new
        <4>3. QED BY <1>0, <4>1, <4>2
      <3>2. CASE Dies(p) \/ Delete(p)
        BY <1>0, <3>2 DEF Dies, Delete, Stops, Idle
      <3>3. QED BY <1>5, <3>1, <3>2
    <2>3. QED BY <2>1, <2>2
  <1>6. ASSUME NEW p \in Procs,
               \/ CreateAccount(p) \/ FindCommand(p) \/ SaveCommand(p) \/ LoadCheckpoint(p)
               \/ SaveCheckpoint(p) \/ Execute(p) \/ NoFinding(p) \/ SaveResult(p)
               \/ SavePartial(p) \/ SavePlan(p) \/ ReadPlan(p) \/ ReadResult(p)
               \/ SavePublished(p) \/ SaveTerminated(p) \/ FindResult(p)
        PROVE  Writes /\ \A q \in Procs : Holding(q)
    <2>1. rows'.link = rows.link
      BY <1>0, <1>6 DEF CreateAccount, FindCommand, SaveCommand, LoadCheckpoint, SaveCheckpoint,
             Execute, NoFinding, SaveResult, SavePartial, SavePlan, ReadPlan, ReadResult,
             SavePublished, SaveTerminated, FindResult, Fault, Rows
    <2>2. \A q \in Procs : proc'[q].link = proc[q].link \/ proc'[q].link = NoLink
      BY <1>0, <1>6 DEF CreateAccount, FindCommand, SaveCommand, LoadCheckpoint, SaveCheckpoint,
             Execute, NoFinding, SaveResult, SavePartial, SavePlan, ReadPlan, ReadResult,
             SavePublished, SaveTerminated, FindResult, Goes, Stops, Idle, Process
    <2>3. QED BY <2>1, <2>2
  <1>7. \A key, unit : Appended(key, unit).link = rows.link
    BY <1>0 DEF Appended, Rows
  <1>8. ASSUME NEW p \in Procs,
               \/ Normalize(p) \/ TraceUnit(p) \/ Finding(p) \/ Report(p) \/ Deliver(p)
               \/ TracePlan(p) \/ PublishItems(p)
        PROVE  Writes /\ \A q \in Procs : Holding(q)
    <2>0. /\ \A kind \in Kinds : Stable(kind) \in Key
          /\ \A kind \in Kinds : Fresh(p, kind) \in Key
          /\ NoUnit \in Says /\ Contents \subseteq Says
      BY KeyType DEF Says
    <2>1. CASE Normalize(p) \/ TraceUnit(p) \/ Finding(p)
      <3>1. PICK key \in Key, unit \in Says, label \in Early : Trace(p, key, unit, label)
        BY <2>0, <2>1 DEF Normalize, TraceUnit, Finding, Kinds, Early
      <3>2. /\ \A q \in Procs \ {p} : proc'[q] = proc[q]
            /\ proc'[p].link = proc[p].link
            /\ rows' = Appended(key, unit) \/ rows' = rows
        BY <3>1, TraceEffect
      <3>3. rows'.link = rows.link
        BY <1>7, <3>2
      <3>4. QED BY <3>2, <3>3
    <2>2. CASE Report(p)
      BY <1>0, <1>7, <2>2 DEF Report, Fault, Process
    <2>3. CASE Deliver(p)
      BY <1>0, <1>7, <2>3 DEF Deliver, Goes, Fault, Process
    <2>4. CASE TracePlan(p) \/ PublishItems(p)
      <3>1. PICK key \in Key, label \in Late \cup Asking : MustTrace(p, key, label)
        BY <2>0, <2>4 DEF TracePlan, PublishItems, Kinds, Late, Asking
      <3>2. proc'[p] = Idle \/ proc'[p] = [proc[p] EXCEPT !.at = label]
        BY <3>1, MustTraceEffect
      <3>3. proc'[p].link = proc[p].link \/ proc'[p].link = NoLink
        BY <1>0, <3>2 DEF Idle, Process
      <3>4. /\ \A q \in Procs \ {p} : proc'[q] = proc[q]
            /\ rows' = Appended(key, NoUnit)
        BY <3>1, MustTraceEffect
      <3>5. rows'.link = rows.link
        BY <1>7, <3>4
      <3>6. QED BY <3>3, <3>4, <3>5
    <2>5. QED BY <1>8, <2>1, <2>2, <2>3, <2>4
  <1>9. ASSUME NEW p \in Procs, LinkRead(p) PROVE Writes /\ \A q \in Procs : Holding(q)
    <2>1. rows' = rows
      BY <1>9 DEF LinkRead
    <2>2. /\ proc'[p].link = proc[p].link \/ proc'[p].link = Made(p)
          /\ \A q \in Procs \ {p} : proc'[q].link = proc[q].link
      BY <1>0, <1>9 DEF LinkRead, Process
    <2>3. QED BY <1>3, <1>9, <2>1, <2>2
  <1>10. ASSUME NEW p \in Procs, LinkWrite(p) PROVE Writes /\ \A q \in Procs : Holding(q)
    <2>1. rows'.link = rows.link \/ rows'.link = proc[p].link
      BY <1>0, <1>10 DEF LinkWrite, Raises, Fault, Rows
    <2>2. \A q \in Procs : proc'[q].link = proc[q].link \/ proc'[q].link = NoLink
      BY <1>0, <1>10 DEF LinkWrite, Process
    <2>3. QED BY <2>1, <2>2
  <1>11. Writes /\ \A q \in Procs : Holding(q)
    BY <1>4, <1>5, <1>6, <1>8, <1>9, <1>10 DEF Next, RunStep
  <1>12. QED
    <2>1. Holds(rows'.link)
      BY <1>1, <1>2, <1>11
    <2>2. \A p \in Procs : Holds(proc'[p].link)
      BY <1>1, <1>2, <1>3, <1>11
    <2>3. QED BY <2>1, <2>2 DEF LinkInv, Holds, Leads

-----------------------------------------------------------------------------
(* What a run owes to its trace                                            *)

\* An event that was accepted is in the trace.
LEMMA AcceptedIsTraced ==
  ASSUME TypeInv, NEW key \in Key, NEW unit \in Says, Accepts(key, unit),
         rows' = Appended(key, unit)
  PROVE  [key |-> key, unit |-> unit] \in Traced'
  <1>0. rows \in Rows
    BY DEF TypeInv
  <1>1. \E e \in rows'.events : e.key = key /\ e.unit = unit
    <2>1. CASE key \in Keys(rows.events)
      BY <2>1 DEF Keys, Accepts, Appended
    <2>2. CASE key \notin Keys(rows.events)
      <3> DEFINE new == [key |-> key, unit |-> unit, expires |-> now + Retention]
      <3>1. rows'.events = rows.events \cup {new}
        BY <1>0, <2>2 DEF Appended, Rows
      <3>2. new.key = key /\ new.unit = unit
        OBVIOUS
      <3> HIDE DEF new
      <3>3. QED BY <3>1, <3>2
    <2>3. QED BY <2>1, <2>2
  <1>2. QED BY <1>1 DEF Traced, Facts

\* A run that says complete has been taken at its word by the trace, for each event
\* before its snapshot, and so has every copy of its result.
LEMMA DebtStep ==
  ASSUME TypeInv, EventInv, DebtInv, [Next]_vars
  PROVE  DebtInv'
  <1> DEFINE T == Traced'
             Same(p) == /\ proc'[p].owes = proc[p].owes /\ proc'[p].state = proc[p].state
                        /\ proc'[p].result = proc[p].result /\ (proc[p].failed => proc'[p].failed)
                        /\ proc'[p].at \in Late \/ proc[p].at \notin Late
             Other(p) == \A q \in Procs \ {p} : proc'[q] = proc[q]
             Goal == Honest(rows'.result, T) /\ \A q \in Procs : Sound(proc'[q], T)
  <1>0. /\ rows \in Rows /\ proc \in [Procs -> Process]
        /\ \A kind \in Kinds : Stable(kind) \in Key
        /\ \A kind \in Kinds, p \in Procs : Fresh(p, kind) \in Key
        /\ NoUnit \in Says /\ Contents \subseteq Says
    BY KeyType DEF TypeInv, Says
  <1>1. Honest(rows.result, T) /\ \A p \in Procs : Sound(proc[p], T)
    BY TracedGrows DEF DebtInv, Honest, Sound
  <1>2. Honest(NoResult, T) /\ Sound(Idle, T)
    BY DEF NoResult, Idle, Honest, Sound, Evidence
  <1> HIDE DEF T
  <1>3. \A p \in Procs : Same(p) => Sound(proc'[p], T)
    BY <1>0, <1>1 DEF Sound, Process
  <1> HIDE DEF Same
  \* An event behind the snapshot, written or not, changes the debt of the run only.
  <1>e. ASSUME NEW p \in Procs, NEW kind \in {"report", "delivered"}, NEW state,
               state \in {proc[p].state, Verdict(p)}, Other(p),
               proc'[p].at \in Late, proc'[p].state = state,
               proc'[p].result = proc[p].result,
               proc'[p].owes = Owing(p, Stable(kind), NoUnit),
               \/ rows' = Appended(Stable(kind), NoUnit) /\ proc'[p].failed = proc[p].failed
               \/ rows' = rows /\ proc'[p].failed = TRUE
        PROVE  Goal
    <2> DEFINE fact == [key |-> Stable(kind), unit |-> NoUnit]
    <2>1. Accepts(Stable(kind), NoUnit)
      BY DEF EventInv, Accepts, Stable
    <2>2. rows' = Appended(Stable(kind), NoUnit) => fact \in T
      BY <1>0, <2>1, AcceptedIsTraced DEF T, Kinds
    <2>3. proc'[p].owes = proc[p].owes \cup {fact}
      BY <1>e DEF Owing
    <2>4. fact.key \in AfterSnapshot
      BY DEF AfterSnapshot
    <2> HIDE DEF fact
    <2>5. Evidence(proc'[p].owes) = Evidence(proc[p].owes)
      BY <2>3, <2>4 DEF Evidence
    <2>6. Evidence(proc[p].owes) \subseteq proc[p].owes
      BY DEF Evidence
    <2>7. state = "complete" => Evidence(proc[p].owes) \subseteq T
      BY <1>e, <1>1, <2>6 DEF Sound, Verdict
    <2>8. ~proc'[p].failed => proc'[p].owes \subseteq T
      BY <1>e, <1>1, <2>2, <2>3 DEF Sound
    <2>9. Sound(proc'[p], T)
      BY <1>e, <1>1, <2>5, <2>7, <2>8 DEF Sound
    <2>10. rows'.result = rows.result
      BY <1>e, <1>0 DEF Appended, Rows
    <2>11. QED BY <1>1, <1>e, <2>9, <2>10
  <1>4. ASSUME NEW p \in Procs, Other(p), Same(p) \/ proc'[p] = Idle, rows'.result = rows.result
        PROVE  Goal
    BY <1>1, <1>2, <1>3, <1>4
  <1>5. ASSUME Tick \/ UNCHANGED vars PROVE Goal
    BY <1>1, <1>5 DEF Tick, vars
  <1>6. ASSUME NEW p \in Procs, Open(p) PROVE Goal
    <2> DEFINE new(label) == [Idle EXCEPT !.at = label,
              !.run = IF label \in {"resume", "publish"} THEN history.moves + 1 ELSE 0,
              !.resumed = label = "resume"]
    <2>1. PICK label : proc' = [proc EXCEPT ![p] = new(label)]
      BY <1>6 DEF Open
    <2>2. Sound(new(label), T)
      BY DEF Idle, Sound, Honest, NoResult
    <2>3. rows'.result = rows.result
      BY <1>0, <1>6 DEF Open, Expired, Rows
    <2> HIDE DEF new
    <2>4. QED BY <1>0, <1>1, <2>1, <2>2, <2>3
  <1>7. ASSUME NEW p \in Procs, Dies(p) PROVE Goal
    BY <1>0, <1>4, <1>7 DEF Dies, Stops, Fault
  <1>8. ASSUME NEW p \in Procs, Delete(p) PROVE Goal
    BY <1>0, <1>1, <1>2, <1>8 DEF Delete, Stops, Cleaned, NoRows
  <1>9. ASSUME NEW p \in Procs,
               \/ CreateAccount(p) \/ FindCommand(p) \/ SaveCommand(p) \/ LoadCheckpoint(p)
               \/ SaveCheckpoint(p) \/ Execute(p) \/ NoFinding(p)
        PROVE  Goal
    <2>1. rows'.result = rows.result /\ Other(p)
      BY <1>0, <1>9 DEF CreateAccount, FindCommand, SaveCommand, LoadCheckpoint, SaveCheckpoint,
             Execute, NoFinding, Fault, Goes, Stops, Rows
    <2>2. proc[p].at \notin Late
      BY <1>9 DEF CreateAccount, FindCommand, SaveCommand, LoadCheckpoint, SaveCheckpoint,
             Execute, NoFinding, At, Late
    <2>3. Same(p) \/ proc'[p] = Idle
      BY <1>0, <1>9, <2>2 DEF CreateAccount, FindCommand, SaveCommand, LoadCheckpoint, SaveCheckpoint,
             Execute, NoFinding, Goes, Stops, Process, Same
    <2>4. QED BY <1>4, <2>1, <2>3
  <1>10. ASSUME NEW p \in Procs, LinkRead(p) \/ LinkWrite(p) PROVE Goal
    <2>1. rows'.result = rows.result /\ Other(p)
      BY <1>0, <1>10 DEF LinkRead, LinkWrite, Raises, Fault, Rows
    <2>2. proc[p].at \notin Late
      BY <1>10 DEF LinkRead, LinkWrite, At, Late
    <2>3. Same(p)
      BY <1>0, <1>10, <2>2 DEF LinkRead, LinkWrite, Process, Same
    <2>4. QED BY <1>4, <2>1, <2>3
  <1>11. ASSUME NEW p \in Procs, SavePlan(p) \/ ReadPlan(p) \/ FindResult(p) PROVE Goal
    <2>1. rows'.result = rows.result /\ Other(p)
      BY <1>0, <1>11 DEF SavePlan, ReadPlan, FindResult, Goes, Stops, Rows
    <2>2. Same(p) \/ proc'[p] = Idle
      BY <1>0, <1>11 DEF SavePlan, ReadPlan, FindResult, Goes, Stops, At, Late, Process, Same
    <2>3. QED BY <1>4, <2>1, <2>2
  <1>12. \A key, unit : Appended(key, unit).result = rows.result
    BY <1>0 DEF Appended, Rows
  <1>13. ASSUME NEW p \in Procs, Normalize(p) \/ TraceUnit(p) \/ Finding(p) PROVE Goal
    <2>1. PICK key \in Key, unit \in Says, label \in Early : Trace(p, key, unit, label)
      BY <1>0, <1>13 DEF Normalize, TraceUnit, Finding, Kinds, Early
    <2>2. /\ \A q \in Procs \ {p} : proc'[q] = proc[q]
          /\ proc'[p].state = proc[p].state /\ proc'[p].result = proc[p].result
          /\ proc'[p].owes = Owing(p, key, unit)
          /\ \/ Accepts(key, unit) /\ rows' = Appended(key, unit) /\ proc'[p].failed = proc[p].failed
             \/ rows' = rows /\ proc'[p].failed = TRUE
      BY <2>1, TraceEffect
    <2>3. proc[p].at \notin Late
      BY <1>13 DEF Normalize, TraceUnit, Finding, At, Late
    <2>4. proc[p].state = "none" /\ Honest(proc[p].result, T)
          /\ (~proc[p].failed => proc[p].owes \subseteq T)
      BY <1>1, <2>3 DEF Sound
    <2>5. Accepts(key, unit) /\ rows' = Appended(key, unit) => [key |-> key, unit |-> unit] \in T
      BY AcceptedIsTraced DEF T
    <2>6. ~proc'[p].failed => proc'[p].owes \subseteq T
      BY <2>2, <2>4, <2>5 DEF Owing
    <2>7. Sound(proc'[p], T)
      BY <2>2, <2>4, <2>6 DEF Sound
    <2>8. rows'.result = rows.result
      BY <1>12, <2>2
    <2>9. QED BY <1>1, <2>2, <2>7, <2>8
  <1>14. ASSUME NEW p \in Procs, Report(p) PROVE Goal
    <2>1. /\ Other(p) /\ proc'[p].at \in Late /\ proc'[p].state = Verdict(p)
          /\ proc'[p].result = proc[p].result
          /\ proc'[p].owes = Owing(p, Stable("report"), NoUnit)
          /\ \/ rows' = Appended(Stable("report"), NoUnit) /\ proc'[p].failed = proc[p].failed
             \/ rows' = rows /\ proc'[p].failed = TRUE
      BY <1>0, <1>14 DEF Report, Fault, Late, Process
    <2>2. QED BY <1>e, <2>1
  <1>15. ASSUME NEW p \in Procs, Deliver(p) PROVE Goal
    <2>1. /\ Other(p) /\ proc'[p].at \in Late /\ proc'[p].state = proc[p].state
          /\ proc'[p].result = proc[p].result
          /\ proc'[p].owes = Owing(p, Stable("delivered"), NoUnit)
          /\ \/ rows' = Appended(Stable("delivered"), NoUnit) /\ proc'[p].failed = proc[p].failed
             \/ rows' = rows /\ proc'[p].failed = TRUE
      BY <1>0, <1>15 DEF Deliver, Fault, Late, Process
    <2>2. QED BY <1>e, <2>1
  <1>16. ASSUME NEW p \in Procs, SaveResult(p) PROVE Goal
    <2> DEFINE result == [phase |-> "completed", published |-> FALSE,
                          state |-> IF proc[p].unsaved THEN "partial" ELSE proc[p].state,
                          owes |-> proc[p].owes]
    <2>1. /\ rows' = [rows EXCEPT !.result = result]
          /\ IF proc[p].resumed THEN Stops(p)
             ELSE proc' = [proc EXCEPT ![p].result = result,
                     ![p].at = IF proc[p].failed THEN "save_partial" ELSE "plan"]
      BY <1>16 DEF SaveResult
    <2>2. Honest(result, T)
      BY <1>1 DEF Sound, Honest
    <2> HIDE DEF result
    <2>3. rows'.result = result /\ Other(p)
      BY <1>0, <2>1 DEF Stops, Rows
    <2>4. Sound(proc'[p], T)
      <3>1. CASE proc[p].resumed
        BY <1>0, <1>2, <2>1, <3>1 DEF Stops
      <3>2. CASE ~proc[p].resumed
        <4>1. /\ proc'[p].result = result /\ proc'[p].at \in Late
              /\ proc'[p].owes = proc[p].owes /\ proc'[p].state = proc[p].state
              /\ proc'[p].failed = proc[p].failed
          BY <1>0, <2>1, <3>2 DEF Late, Process
        <4>2. QED BY <1>1, <2>2, <4>1 DEF Sound
      <3>3. QED BY <3>1, <3>2
    <2>5. QED BY <1>1, <2>2, <2>3, <2>4
  <1>17. ASSUME NEW p \in Procs, SavePartial(p) PROVE Goal
    <2> DEFINE result == [proc[p].result EXCEPT !.state = "partial"]
    <2>1. rows' = [rows EXCEPT !.result = result]
          /\ proc' = [proc EXCEPT ![p].result = result, ![p].at = "plan"]
      BY <1>17 DEF SavePartial
    <2>2. Honest(result, T)
      BY <1>0 DEF Honest, Process, Result
    <2> HIDE DEF result
    <2>3. rows'.result = result /\ Other(p)
      BY <1>0, <2>1 DEF Rows
    <2>4. /\ proc'[p].result = result /\ proc'[p].at \in Late
          /\ proc'[p].owes = proc[p].owes /\ proc'[p].state = proc[p].state
          /\ proc'[p].failed = proc[p].failed
      BY <1>0, <2>1 DEF Late, Process
    <2>5. Sound(proc'[p], T)
      BY <1>1, <2>2, <2>4 DEF Sound
    <2>6. QED BY <1>1, <2>2, <2>3, <2>5
  <1>18. ASSUME NEW p \in Procs, TracePlan(p) \/ PublishItems(p) PROVE Goal
    <2>1. PICK key \in Key, label \in {"publish_items", "idle", "read_result", "save_published"} :
             MustTrace(p, key, label)
      BY <1>0, <1>18 DEF TracePlan, PublishItems, Kinds, Late, Asking
    <2>2. /\ Other(p) /\ rows' = Appended(key, NoUnit)
          /\ proc'[p] = Idle \/ (proc'[p] = [proc[p] EXCEPT !.at = label] /\ label # "idle")
      BY <1>0, <2>1 DEF MustTrace, Stops, Goes
    <2>3. Same(p) \/ proc'[p] = Idle
      BY <1>0, <2>2 DEF Same, Late, Process
    <2>4. rows'.result = rows.result
      BY <1>12, <2>2
    <2>5. QED BY <1>4, <2>2, <2>3, <2>4
  <1>19. ASSUME NEW p \in Procs, ReadResult(p) PROVE Goal
    <2>1. rows'.result = rows.result /\ Other(p)
      BY <1>0, <1>19 DEF ReadResult, Stops
    <2>2. CASE proc'[p] = Idle
      BY <1>4, <2>1, <2>2
    <2>3. CASE proc' = [proc EXCEPT ![p].result = rows.result,
               ![p].at = IF At(p, "terminate") THEN "save_terminated" ELSE "save_published"]
      <3>1. /\ proc'[p].result = rows.result /\ proc'[p].owes = proc[p].owes
            /\ proc'[p].state = proc[p].state /\ proc'[p].failed = proc[p].failed
            /\ proc'[p].at \in Late \/ proc[p].at \notin Late
        BY <1>0, <1>19, <2>3 DEF ReadResult, At, Late, Process
      <3>2. Sound(proc'[p], T)
        BY <1>1, <3>1 DEF Sound
      <3>3. QED BY <1>1, <2>1, <3>2
    <2>4. QED BY <1>0, <1>19, <2>2, <2>3 DEF ReadResult, Stops
  <1>20. ASSUME NEW p \in Procs, SavePublished(p) \/ SaveTerminated(p) PROVE Goal
    <2>1. proc[p].result \in Result /\ Honest(proc[p].result, T)
      BY <1>0, <1>1 DEF Process, Sound
    <2>2. /\ Honest([proc[p].result EXCEPT !.published = TRUE], T)
          /\ Honest([proc[p].result EXCEPT !.phase = "terminated"], T)
      BY <2>1 DEF Honest, Result
    <2>3. Honest(rows'.result, T) /\ Other(p) /\ proc'[p] = Idle
      BY <1>0, <1>20, <2>2 DEF SavePublished, SaveTerminated, Stops, Rows
    <2>4. QED BY <1>1, <1>2, <2>3
  <1>21. Goal
    BY <1>5, <1>6, <1>7, <1>8, <1>9, <1>10, <1>11, <1>13, <1>14, <1>15, <1>16, <1>17, <1>18,
       <1>19, <1>20 DEF Next, RunStep
  <1>22. QED BY <1>21 DEF DebtInv, T

\* Only SaveResult and SavePartial lead to the plan: the one if nothing failed, the
\* other with a partial result.
LEMMA LookedStep ==
  ASSUME TypeInv, EventInv, DebtInv, LookedInv, [Next]_vars
  PROVE  LookedInv'
  <1> SUFFICES ASSUME NEW p \in Procs, proc'[p].at = "plan",
                      proc'[p].result.state = "complete"
               PROVE  proc'[p].result.owes \subseteq Traced'
    BY DEF LookedInv
  <1>0. rows \in Rows /\ proc \in [Procs -> Process]
    BY DEF TypeInv
  <1>1. Traced \subseteq Traced'
    BY TracedGrows
  <1>2. CASE proc'[p] = proc[p]
    BY <1>1, <1>2 DEF LookedInv
  <1>3. CASE SaveResult(p)
    <2>1. ~proc[p].failed /\ proc'[p].result.owes = proc[p].owes
      BY <1>0, <1>3 DEF SaveResult, Stops, Idle, Process
    <2>2. QED BY <1>1, <2>1 DEF DebtInv, Sound
  <1>4. CASE SavePartial(p)
    <2>1. proc'[p].result = [proc[p].result EXCEPT !.state = "partial"]
      BY <1>0, <1>4 DEF SavePartial, Process
    <2>2. proc[p].result \in Result
      BY <1>0 DEF Process
    <2>3. QED BY <2>1, <2>2 DEF Result
  <1>5. CASE Tick \/ UNCHANGED vars
    BY <1>2, <1>5 DEF Tick, vars
  <1>6. ASSUME NEW q \in Procs,
               \/ CreateAccount(q) \/ FindCommand(q) \/ SaveCommand(q) \/ LoadCheckpoint(q)
               \/ SaveCheckpoint(q) \/ Execute(q) \/ NoFinding(q)
        PROVE  proc'[p] = proc[p]
    <2>1. q # p => proc'[p] = proc[p]
      BY <1>0, <1>6 DEF CreateAccount, FindCommand, SaveCommand, LoadCheckpoint,
             SaveCheckpoint, Execute, NoFinding, Fault, Goes, Stops
    <2>2. q = p => proc'[p].at # "plan"
      BY <1>0, <1>6 DEF CreateAccount, FindCommand, SaveCommand, LoadCheckpoint,
             SaveCheckpoint, Execute, NoFinding, Fault, Goes, Stops, Idle, Process
    <2>3. QED BY <2>1, <2>2
  <1>o. ASSUME NEW q \in Procs, Open(q) \/ Dies(q)
        PROVE  proc'[p] = proc[p]
    <2>1. CASE Dies(q)
      <3>1. proc' = [proc EXCEPT ![q] = Idle]
        BY <2>1 DEF Dies, Stops
      <3>2. Idle.at # "plan"
        BY DEF Idle
      <3>3. QED BY <1>0, <3>1, <3>2
    <2>2. CASE Open(q)
      <3> DEFINE new(label) == [Idle EXCEPT !.at = label,
              !.run = IF label \in {"resume", "publish"} THEN history.moves + 1 ELSE 0,
              !.resumed = label = "resume"]
      <3>1. PICK label \in {"resume", "publish", "terminate", "cleanup", "idle"} :
               proc' = [proc EXCEPT ![q] = new(label)]
        BY <2>2 DEF Open
      <3>2. new(label).at = label
        BY DEF Idle
      <3> HIDE DEF new
      <3>3. QED BY <1>0, <3>1, <3>2
    <2>3. QED BY <1>o, <2>1, <2>2
  <1>7. ASSUME NEW q \in Procs, Normalize(q) \/ TraceUnit(q) \/ Finding(q)
        PROVE  proc'[p] = proc[p]
    <2>1. PICK key \in Key, unit \in Says, label \in Early : Trace(q, key, unit, label)
      BY <1>7, KeyType DEF Normalize, TraceUnit, Finding, Kinds, Says, Early
    <2>2. q # p => proc'[p] = proc[p]
      BY <1>0, <2>1 DEF Trace
    <2>3. q = p => proc'[p].at = label
      BY <1>0, <2>1 DEF Trace, Process
    <2>4. "plan" \notin Early
      BY DEF Early
    <2>5. QED BY <2>2, <2>3, <2>4
  <1>8. ASSUME NEW q \in Procs, LinkRead(q) \/ LinkWrite(q) \/ Report(q) \/ Deliver(q)
        PROVE  proc'[p] = proc[p]
    <2>1. q # p => proc'[p] = proc[p]
      BY <1>0, <1>8 DEF LinkRead, LinkWrite, Report, Deliver
    <2>2. q = p => proc'[p].at # "plan"
      BY <1>0, <1>8 DEF LinkRead, LinkWrite, Report, Deliver, Process
    <2>3. QED BY <2>1, <2>2
  <1>9. ASSUME NEW q \in Procs,
               \/ SavePlan(q) \/ TracePlan(q) \/ ReadPlan(q) \/ PublishItems(q) \/ ReadResult(q)
               \/ SavePublished(q) \/ SaveTerminated(q) \/ FindResult(q) \/ Delete(q)
        PROVE  proc'[p] = proc[p]
    <2>1. q # p => proc'[p] = proc[p]
      BY <1>0, <1>9 DEF SavePlan, TracePlan, ReadPlan, PublishItems, ReadResult, SavePublished,
             SaveTerminated, FindResult, Delete, MustTrace, Goes, Stops
    <2>2. q = p => proc'[p].at # "plan"
      BY <1>0, <1>9 DEF SavePlan, TracePlan, ReadPlan, PublishItems, ReadResult, SavePublished,
             SaveTerminated, FindResult, Delete, MustTrace, Goes, Stops, Idle, Process
    <2>3. QED BY <2>1, <2>2
  <1>10. ASSUME NEW q \in Procs \ {p}, SaveResult(q) \/ SavePartial(q)
         PROVE  proc'[p] = proc[p]
    BY <1>0, <1>10 DEF SaveResult, SavePartial, Stops
  <1>11. QED
    BY <1>2, <1>3, <1>4, <1>5, <1>6, <1>o, <1>7, <1>8, <1>9, <1>10 DEF Next, RunStep

-----------------------------------------------------------------------------
(* After a quiet cleanup                                                   *)

\* A command that asks after the task finds nothing, and a cleanup that finds
\* all others idle leaves nothing.
LEMMA QuietStep ==
  ASSUME TypeInv, QuietInv, [Next]_vars
  PROVE  QuietInv'
  <1> DEFINE Clean(r) == r = [NoRows EXCEPT !.marker = r.marker, !.tombstone = TRUE]
             Looks == /\ history'.quiet = history.quiet
                      /\ history.quiet => /\ Clean(rows')
                                          /\ \A q \in Procs : proc'[q].at \in Asking
  <1>0. /\ rows \in Rows /\ proc \in [Procs -> Process] /\ Idle.at \in Asking
        /\ history \in [moves : Nat, life : Nat, gone : SUBSET Fact, quiet : BOOLEAN]
    BY DEF TypeInv, Idle, Asking
  <1>1. history.quiet => Clean(rows) /\ \A q \in Procs : proc[q].at \in Asking
    BY DEF QuietInv
  <1>2. history.quiet =>
          /\ ~rows.command /\ rows.events = {} /\ rows.link = NoLink /\ rows.checkpoint = 0
          /\ ~rows.expired /\ ~rows.plan /\ rows.result = NoResult
    BY <1>0, <1>1 DEF NoRows, Rows
  <1>3. ASSUME Tick \/ UNCHANGED vars PROVE Looks
    BY <1>1, <1>3 DEF Tick, vars
  <1>4. ASSUME NEW p \in Procs, Open(p) PROVE Looks
    <2>1. history'.quiet = history.quiet
      BY <1>0, <1>4 DEF Open
    <2>2. \A q \in Procs : proc'[q].at \in Asking \/ proc'[q] = proc[q]
      <3> DEFINE new(label) == [Idle EXCEPT !.at = label,
              !.run = IF label \in {"resume", "publish"} THEN history.moves + 1 ELSE 0,
              !.resumed = label = "resume"]
      <3>1. PICK label \in Asking : proc' = [proc EXCEPT ![p] = new(label)]
        BY <1>4 DEF Open, Asking
      <3>2. new(label).at = label
        BY DEF Idle
      <3> HIDE DEF new
      <3>3. QED BY <1>0, <3>1, <3>2
    <2>3. history.quiet => Expired(rows) = rows
      BY <1>0, <1>2 DEF Expired, NoLink, Rows
    <2>4. QED BY <1>1, <1>4, <2>1, <2>2, <2>3 DEF Open
  <1>5. ASSUME NEW p \in Procs, Dies(p) PROVE Looks
    BY <1>0, <1>1, <1>5 DEF Dies, Stops, Fault
  <1>6. ASSUME NEW p \in Procs,
               \/ FindCommand(p) \/ ReadPlan(p) \/ ReadResult(p) \/ FindResult(p)
        PROVE  Looks
    <2>1. rows' = rows /\ history' = history
      BY <1>6 DEF FindCommand, ReadPlan, ReadResult, FindResult
    <2>2. history.quiet => Stops(p)
      BY <1>2, <1>6 DEF FindCommand, ReadPlan, ReadResult, FindResult
    <2>3. QED BY <1>0, <1>1, <2>1, <2>2 DEF Stops
  <1>7. ASSUME NEW p \in Procs, proc[p].at \notin Asking, history'.quiet = history.quiet PROVE Looks
    BY <1>1, <1>7
  <1>8. ASSUME NEW p \in Procs,
               \/ CreateAccount(p) \/ SaveCommand(p) \/ LoadCheckpoint(p) \/ SaveCheckpoint(p)
               \/ Execute(p) \/ NoFinding(p) \/ LinkRead(p) \/ LinkWrite(p)
        PROVE  Looks
    <2>1. proc[p].at \notin Asking
      BY <1>8 DEF CreateAccount, SaveCommand, LoadCheckpoint, SaveCheckpoint, Execute, NoFinding,
                  LinkRead, LinkWrite, At, Asking
    <2>2. history'.quiet = history.quiet
      BY <1>0, <1>8 DEF CreateAccount, SaveCommand, LoadCheckpoint, SaveCheckpoint, Execute,
                  NoFinding, LinkRead, LinkWrite, Raises, Fault
    <2>3. QED BY <1>7, <2>1, <2>2
  <1>9. ASSUME NEW p \in Procs,
               \/ Normalize(p) \/ TraceUnit(p) \/ Finding(p) \/ TracePlan(p) \/ PublishItems(p)
        PROVE  Looks
    <2>1. proc[p].at \notin Asking
      BY <1>9 DEF Normalize, TraceUnit, Finding, TracePlan, PublishItems, At, Asking
    <2>2. history'.quiet = history.quiet
      BY <1>0, <1>9 DEF Normalize, TraceUnit, Finding, TracePlan, PublishItems, Trace, MustTrace,
                  Raises, Fault
    <2>3. QED BY <1>7, <2>1, <2>2
  <1>10. ASSUME NEW p \in Procs,
               \/ Report(p) \/ Deliver(p) \/ SaveResult(p) \/ SavePartial(p) \/ SavePlan(p)
               \/ SavePublished(p) \/ SaveTerminated(p)
        PROVE  Looks
    <2>1. proc[p].at \notin Asking
      BY <1>10 DEF Report, Deliver, SaveResult, SavePartial, SavePlan, SavePublished,
                  SaveTerminated, At, Asking
    <2>2. history'.quiet = history.quiet
      BY <1>0, <1>10 DEF Report, Deliver, SaveResult, SavePartial, SavePlan, SavePublished,
                  SaveTerminated, Fault
    <2>3. QED BY <1>7, <2>1, <2>2
  <1>11. CASE Looks
    BY <1>11 DEF QuietInv
  <1>12. ASSUME NEW p \in Procs, Delete(p) PROVE QuietInv'
    <2> DEFINE quiet == \A q \in Procs \ {p} : At(q, "idle")
    <2>1. Clean(rows')
      BY <1>12 DEF Delete, Cleaned, NoRows
    <2>2. history'.quiet = quiet
      BY <1>0, <1>12 DEF Delete
    <2>3. quiet => \A q \in Procs : proc'[q].at \in Asking
      BY <1>0, <1>12 DEF Delete, Stops, At, Asking
    <2> HIDE DEF quiet
    <2>4. QED BY <2>1, <2>2, <2>3 DEF QuietInv
  <1>13. QED
    BY <1>3, <1>4, <1>5, <1>6, <1>8, <1>9, <1>10, <1>11, <1>12 DEF Next, RunStep

-----------------------------------------------------------------------------
(* Theorems                                                                *)

\* A task begins with no rows and one review.
LEMMA Initially ==
  ASSUME Init
  PROVE  IInv
  <1>1. PICK reviewer \in Procs :
          proc = [p \in Procs |-> IF p = reviewer THEN [Idle EXCEPT !.at = "create_account"] ELSE Idle]
    BY DEF Init
  <1> DEFINE first == [Idle EXCEPT !.at = "create_account"]
  <1>2. first \in Process /\ first.link = NoLink /\ Sound(first, {})
    BY Empties DEF Idle, Process, Early, Sound, Honest, NoResult
  <1>3. \A p \in Procs : proc[p] = first \/ proc[p] = Idle
    BY <1>1
  <1> HIDE DEF first
  <1>4. TypeInv
    <2>1. proc \in [Procs -> Process]
      BY <1>1, <1>2, Empties DEF first
    <2>2. QED BY <2>1, Empties DEF Init, TypeInv
  <1>5. EventInv /\ QuietInv
    BY DEF Init, NoRows, EventInv, QuietInv
  <1>6. LinkInv
    BY <1>2, <1>3 DEF Init, NoRows, NoLink, Idle, LinkInv, Leads
  <1>7. DebtInv
    <2>1. Sound(Idle, {}) /\ Honest(NoResult, {}) /\ rows.result = NoResult
      BY DEF Idle, Sound, Honest, NoResult, Init, NoRows
    <2>2. Traced = {}
      BY DEF Init, NoRows, Traced, Facts
    <2>3. QED BY <1>2, <1>3, <2>1, <2>2 DEF DebtInv
  <1>8. LookedInv
    BY <1>1 DEF LookedInv, Idle
  <1>9. QED BY <1>4, <1>5, <1>6, <1>7, <1>8 DEF IInv

\* The rows, what the processes hold, and the history keep their types and the
\* facts of IInv.
THEOREM Invariance == Spec => []IInv
  <1>1. Init => IInv
    BY Initially
  <1>2. IInv /\ [Next]_vars => IInv'
    BY TypeStep, EventStep, LinkStep, DebtStep, LookedStep, QuietStep DEF IInv
  <1>3. QED BY <1>1, <1>2, PTL DEF Spec

\* link_finding_trace and the deletion of expired rows: while the link of a
\* finding lives, every event it leads to is there.
THEOREM LinksLead == Spec => []LinkedTraceIsWhole
  <1>1. IInv => LinkedTraceIsWhole
    <2> SUFFICES ASSUME IInv, rows.link.expires > now, rows.link.life = history.life,
                        NEW key \in rows.link.events
                 PROVE  key \in Keys(rows.events)
      BY DEF LinkedTraceIsWhole
    <2>1. PICK e \in rows.events : e.key = key
      BY DEF IInv, LinkInv, Leads
    <2>2. QED BY <2>1 DEF Keys
  <1>2. QED BY <1>1, Invariance, PTL

\* cleanup: nothing comes back of a task that was cleaned up alone.
THEOREM CleanupIsFinal == Spec => []CleanedStaysClean
  <1>1. IInv => CleanedStaysClean
    BY DEF IInv, QuietInv, CleanedStaysClean
  <1>2. QED BY <1>1, Invariance, PTL

\* _trace, snapshot and the results that start, publish and terminate write:
\* "complete" is said of runs whose events of input, units and finding were all
\* taken, whatever became of those of the report; and of a review that goes on to
\* its plan only if those were taken too.
THEOREM CompleteMeansTraced == Spec => []CompleteResultIsTraced
  <1>1. IInv => CompleteResultIsTraced
    BY DEF IInv, DebtInv, LookedInv, Honest, Traced, At, CompleteResultIsTraced
  <1>2. QED BY <1>1, Invariance, PTL

\* get_trace: a task that once had a trace has a marker, through expiry and
\* cleanup.
THEOREM MarkerOutlivesTrace == Spec => []NoStandInForTrace
  <1>1. IInv => NoStandInForTrace
    BY DEF IInv, EventInv, NoStandInForTrace, TraceAnswer
  <1>2. QED BY <1>1, Invariance, PTL
=============================================================================
