--------------------------- MODULE ReviewRunProofs ---------------------------
(***************************************************************************)
(* Proofs about ReviewRun, for every number of work units and of runs.     *)
(***************************************************************************)
EXTENDS ReviewRun, FiniteSetTheorems, TLAPS

USE ReviewRunAssumption

-----------------------------------------------------------------------------
(* The inductive invariant                                                 *)

\* Where the process stands with the model call of its unit.
Calling == {"reserved", "begun", "sent", "settled"}
\* Where it is at one unit; where it is past loading the checkpoint.
InUnit  == Calling \cup {"save"}
InLoop  == InUnit \cup {"unit"}
\* Where it has no unit and no executions.
OffLoop == {"idle", "create", "recover", "settle", "start", "load", "ended"}

\* Whoever runs has a number, whoever is at a unit has a unit.
PlaceInv ==
    /\ pc # "idle" => run \in Runs
    /\ pc = "idle" => run = 0
    /\ pc = "create" => run = 1
    /\ pc \in InUnit => unit \in Units
    /\ pc \in OffLoop => unit = 1 /\ executions = Empty

\* A call that the process has not come to.
Ahead(r, u) ==
    \/ r > run
    \/ r = run /\ \/ pc \in {"create", "recover", "settle", "start", "load"}
                  \/ pc = "unit" /\ u >= unit
                  \/ pc \in InUnit /\ u > unit

AheadInv ==
    \A r \in Runs, u \in Units :
        Ahead(r, u) => row[<<r, u>>] = "none" /\ <<r, u>> \notin sent

\* The call that the process is at, from its reservation to its record.
CallInv ==
    /\ pc \in {"reserved", "begun", "sent"} => hold[Call] = "active"
    /\ pc = "reserved" => row[Call] = "none"
    /\ pc \in {"begun", "sent", "settled"} => row[Call] = "open"
    /\ pc \in {"reserved", "begun"} => Call \notin sent
    /\ pc = "sent" => Call \in sent
    /\ pc = "settled" => /\ answer # "none"
                         /\ answer # "failed_known" => Call \in sent
                         /\ Call \in sent => hold[Call] \in {"known", "uncertain"}
    /\ pc = "save" =>
          /\ executions[unit] # "none"
          /\ executions[unit] = "reviewed" => /\ Call \in sent
                                              /\ row[Call] = "succeeded"
                                              /\ hold[Call] \in {"known", "uncertain"}

\* A row is open for the call at hand, or since a process died in it.
OpenInv ==
    /\ \A c, d \in Calls : row[c] = "open" /\ row[d] = "open" => c = d
    /\ \A c \in Calls : row[c] = "open" =>
          \/ pc \in {"ended", "recover"}
          \/ pc \in {"begun", "sent", "settled"} /\ c = Call
    /\ \A c \in sent : row[c] # "none"

\* An unknown row is there before an unconfirmed run has looked, or it is the
\* one that ends the run.
KnownInv ==
    ~confirmed => \A c \in Calls : row[c] = "unknown" =>
        \/ pc \in {"recover", "settle", "finish", "ended"}
        \/ pc = "save" /\ c = Call /\ executions[unit] = "unknown"

\* The executions of the process and those of the checkpoint: alike ahead of
\* the unit it is at; behind it alike if every checkpoint was saved.
LoopInv ==
    /\ ~checkpoint => completed = Empty
    /\ pc \in InLoop => \A u \in Units : u > unit => executions[u] = completed[u]
    /\ pc = "unit" /\ unit \in Units => executions[unit] = completed[unit]
    /\ pc \in InUnit => completed[unit] = "none"
    /\ pc \in Calling => executions[unit] = "none"
    /\ pc \in InLoop \cup {"finish"} /\ run \notin saveFailed =>
          \A u \in Units : \/ pc = "save" /\ u = unit
                           \/ executions[u] = "unknown"
                           \/ executions[u] = completed[u]

\* Units that a run sent requests for and the checkpoint does not have.
Redo(r) == {u \in Units : <<r, u>> \in sent /\ completed[u] = "none"}

RedoInv ==
    \A r \in Runs \ saveFailed :
        /\ \A u, w \in Redo(r) : u = w
        /\ r = run /\ pc = "unit" => Redo(r) = {}
        /\ r = run /\ pc \in InUnit => Redo(r) \subseteq {unit}

IInv ==
    /\ TypeOK /\ PlaceInv
    /\ AheadInv /\ CallInv /\ OpenInv /\ SentCallsAreCharged
    /\ KnownInv /\ LoopInv /\ CheckpointIsTrue
    /\ RedoInv /\ CompleteIsDurable
-----------------------------------------------------------------------------
(* Facts about the operators                                               *)

\* At a unit the process has a call.
LEMMA CallType == TypeOK /\ PlaceInv /\ pc \in InUnit => Call \in Calls
  BY DEF PlaceInv, Call, Calls, InUnit, Calling, Runs, Units

\* No executions are executions.
LEMMA EmptyType == /\ Empty \in [Units -> Completions]
                   /\ Empty \in [Units -> Executions]
                   /\ \A u \in Units : Empty[u] = "none"
  BY DEF Empty, Completions, Executions

\* A set whose members are all the same has at most one.
LEMMA AtMostOne ==
  ASSUME NEW S, \A x, y \in S : x = y
  PROVE  Cardinality(S) <= 1
  <1>1. CASE S = {}
    BY <1>1, FS_EmptySet
  <1>2. CASE S # {}
    <2>1. PICK x \in S : TRUE
      BY <1>2
    <2>2. S = {x}
      BY <2>1
    <2>3. QED BY <2>2, FS_Singleton
  <1>3. QED BY <1>1, <1>2

-----------------------------------------------------------------------------
(* Types and places                                                        *)

\* Every step keeps the types.
LEMMA TypeStep ==
  ASSUME TypeOK, PlaceInv, CallInv, [Next]_vars
  PROVE  TypeOK'
  <1> USE DEF store, saved, inputs, memory, process
  <1> USE EmptyType
  <1>1. CASE Review \/ \E confirm \in BOOLEAN : Resume(confirm)
    <2>1. run' = run + 1 /\ run < RunCount
      BY <1>1 DEF TypeOK, PlaceInv, Review, Resume, Begin
    <2>2. run' \in 0 .. RunCount
      BY <2>1 DEF TypeOK
    <2>3. QED BY <1>1, <2>2 DEF TypeOK, Review, Resume, Begin, PCs
  <1>2. CASE CreateAccount \/ SaveCommand \/ StopAtBoundary \/ LeaveLoop
    BY <1>2 DEF TypeOK, CreateAccount, SaveCommand, StopAtBoundary, LeaveLoop, PCs
  <1>3. CASE RecoverPending
    BY <1>3 DEF TypeOK, RecoverPending, PCs, Rows, Answers
  <1>4. ASSUME NEW c \in Calls, SettleRecovered(c) PROVE TypeOK'
    BY <1>4 DEF TypeOK, SettleRecovered, PCs, Holds
  <1>5. CASE CheckResume \/ MissCheckpoint \/ Crash
    BY <1>5 DEF TypeOK, CheckResume, MissCheckpoint, Crash, End, PCs
  <1>6. CASE LoadCheckpoint
    BY <1>6 DEF TypeOK, LoadCheckpoint, PCs, Executions
  <1>7. CASE MakeCheckpoint
    BY <1>7 DEF TypeOK, PlaceInv, MakeCheckpoint, PCs
  <1>8. CASE SkipCompleted
    BY <1>8 DEF TypeOK, SkipCompleted, AtUnit, Units, PCs
  <1>9. CASE ExecuteWithoutCall
    BY <1>9 DEF TypeOK, ExecuteWithoutCall, AtUnit, Executed, Executions, Completions, PCs
  <1>10. CASE Reserve \/ BeginCall \/ Send
    <2>1. run \in Runs /\ unit \in Units
      BY <1>10 DEF PlaceInv, Reserve, BeginCall, Send, AtUnit, InUnit, Calling
    <2>2. Call \in Calls
      BY <2>1 DEF Call, Calls
    <2>3. QED BY <1>10, <2>2 DEF TypeOK, Reserve, BeginCall, Send, Holds, Rows, PCs
  <1>11. CASE BeginCallFails
    BY <1>11 DEF TypeOK, BeginCallFails, Executed, Executions, Completions, Holds, PCs
  <1>12. CASE NotSent \/ Answer
    BY <1>12 DEF TypeOK, NotSent, Answer, Answers, Holds, PCs
  <1>13. CASE FinishCall
    <2>1. answer \in Answers
      BY <1>13 DEF TypeOK, CallInv, FinishCall
    <2>2. ExecutionsOf(answer) \subseteq Executions
      BY <2>1 DEF ExecutionsOf, Executions, Completions, Answers
    <2>3. QED BY <1>13, <2>1, <2>2 DEF TypeOK, FinishCall, Executed, Rows, PCs
  <1>14. CASE SaveCheckpoint
    <2>1. unit \in Units /\ run \in Runs
      BY <1>14 DEF PlaceInv, SaveCheckpoint, InUnit
    <2>2. executions[unit] # "unknown" => executions[unit] \in Completions
      BY <2>1 DEF TypeOK, Executions
    <2>3. /\ checkpoint' \in BOOLEAN /\ saveFailed' \in SUBSET Runs
          /\ completed' \in [Units -> Completions] /\ unknown' \in SUBSET Units
      BY <1>14, <2>1, <2>2 DEF TypeOK, SaveCheckpoint, RecordExecution
    <2>4. pc' \in PCs /\ unit' \in 1 .. UnitCount + 1
      BY <1>14, <2>1 DEF SaveCheckpoint, AfterUnit, Units, PCs
    <2>5. QED BY <1>14, <2>3, <2>4 DEF TypeOK, SaveCheckpoint
  <1>15. CASE Finish
    BY <1>15 DEF TypeOK, Finish, End, ResultOf, ResultOfCoverage, Results, PCs
  <1>16. CASE UNCHANGED vars
    BY <1>16 DEF TypeOK, vars
  <1>17. QED
    BY <1>1, <1>2, <1>3, <1>4, <1>5, <1>6, <1>7, <1>8, <1>9, <1>10, <1>11, <1>12, <1>13,
       <1>14, <1>15, <1>16 DEF Next, Step

\* Every step leaves the process at a place it can be at.
LEMMA PlaceStep ==
  ASSUME TypeOK, PlaceInv, [Next]_vars
  PROVE  PlaceInv'
  <1> USE DEF store, saved, inputs, memory, process, InLoop, InUnit, Calling, OffLoop
  <1>1. CASE Review \/ \E confirm \in BOOLEAN : Resume(confirm)
    BY <1>1 DEF TypeOK, PlaceInv, Review, Resume, Begin, Runs
  <1>2. CASE CreateAccount \/ SaveCommand \/ StopAtBoundary \/ LeaveLoop
    BY <1>2 DEF PlaceInv, CreateAccount, SaveCommand, StopAtBoundary, LeaveLoop, AtUnit
  <1>3. CASE RecoverPending \/ \E c \in Calls : SettleRecovered(c)
    BY <1>3 DEF PlaceInv, RecoverPending, SettleRecovered
  <1>4. CASE CheckResume \/ MissCheckpoint \/ Crash \/ Finish
    BY <1>4 DEF PlaceInv, CheckResume, MissCheckpoint, Crash, Finish, End, Alive
  <1>5. CASE LoadCheckpoint \/ MakeCheckpoint \/ SkipCompleted
    BY <1>5 DEF PlaceInv, LoadCheckpoint, MakeCheckpoint, SkipCompleted, AtUnit
  <1>6. CASE ExecuteWithoutCall \/ Reserve
    BY <1>6 DEF PlaceInv, ExecuteWithoutCall, Reserve, AtUnit
  <1>7. CASE BeginCall \/ BeginCallFails \/ Send \/ NotSent \/ Answer \/ FinishCall
    BY <1>7 DEF PlaceInv, BeginCall, BeginCallFails, Send, NotSent, Answer, FinishCall
  <1>8. CASE SaveCheckpoint
    BY <1>8 DEF PlaceInv, SaveCheckpoint, AfterUnit
  <1>9. CASE UNCHANGED vars
    BY <1>9 DEF PlaceInv, vars
  <1>10. QED
    BY <1>1, <1>2, <1>3, <1>4, <1>5, <1>6, <1>7, <1>8, <1>9 DEF Next, Step

-----------------------------------------------------------------------------
(* The calls                                                               *)

\* The calls ahead stay untouched.
LEMMA AheadStep ==
  ASSUME TypeOK, PlaceInv, AheadInv, [Next]_vars
  PROVE  AheadInv'
  <1> SUFFICES ASSUME NEW r \in Runs, NEW u \in Units, Ahead(r, u)'
               PROVE  row'[<<r, u>>] = "none" /\ <<r, u>> \notin sent'
    BY DEF AheadInv
  <1> USE DEF store, saved, inputs, memory, process, InUnit, Calling, Ahead
  <1>0. /\ run \in Nat /\ unit \in Nat /\ r \in Nat /\ u \in Nat
        /\ <<r, u>> \in Calls
        /\ Ahead(r, u) => row[<<r, u>>] = "none" /\ <<r, u>> \notin sent
    BY DEF TypeOK, AheadInv, Runs, Units, Calls
  <1>1. CASE Review \/ \E confirm \in BOOLEAN : Resume(confirm)
    BY <1>0, <1>1 DEF Review, Resume, Begin
  <1>2. CASE CreateAccount \/ SaveCommand \/ StopAtBoundary \/ LeaveLoop
    BY <1>0, <1>2 DEF CreateAccount, SaveCommand, StopAtBoundary, LeaveLoop
  <1>3. CASE RecoverPending \/ \E c \in Calls : SettleRecovered(c)
    BY <1>0, <1>3 DEF RecoverPending, SettleRecovered
  <1>4. CASE CheckResume \/ MissCheckpoint \/ Crash \/ Finish
    BY <1>0, <1>4 DEF CheckResume, MissCheckpoint, Crash, Finish, End
  <1>5. CASE LoadCheckpoint \/ MakeCheckpoint \/ SkipCompleted \/ ExecuteWithoutCall
    BY <1>0, <1>5 DEF LoadCheckpoint, MakeCheckpoint, SkipCompleted, ExecuteWithoutCall, AtUnit
  <1>6. CASE Reserve \/ BeginCallFails \/ NotSent \/ Answer
    BY <1>0, <1>6 DEF Reserve, BeginCallFails, NotSent, Answer, AtUnit
  <1>7. CASE BeginCall \/ Send \/ FinishCall
    <2>1. <<r, u>> # Call
      BY <1>0, <1>7 DEF BeginCall, Send, FinishCall, Call
    <2>2. Ahead(r, u)
      BY <1>0, <1>7 DEF BeginCall, Send, FinishCall
    <2>3. QED BY <1>0, <1>7, <2>1, <2>2 DEF TypeOK, BeginCall, Send, FinishCall
  <1>8. CASE SaveCheckpoint
    BY <1>0, <1>8 DEF SaveCheckpoint, AfterUnit
  <1>9. CASE UNCHANGED vars
    BY <1>0, <1>9 DEF vars
  <1>10. QED
    BY <1>1, <1>2, <1>3, <1>4, <1>5, <1>6, <1>7, <1>8, <1>9 DEF Next, Step

\* The reservation, the row and the request of the call at hand keep in step.
LEMMA CallStep ==
  ASSUME TypeOK, PlaceInv, AheadInv, CallInv, [Next]_vars
  PROVE  CallInv'
  <1> USE DEF store, saved, inputs, memory, process
  <1>0. pc \in InUnit \cup {"unit"} /\ unit \in Units => Call \in Calls
    BY DEF PlaceInv, InUnit, Calling, Call, Calls
  <1>1. CASE Review \/ \E confirm \in BOOLEAN : Resume(confirm)
    BY <1>1 DEF CallInv, Review, Resume, Begin
  <1>2. CASE CreateAccount \/ SaveCommand \/ StopAtBoundary \/ LeaveLoop
    BY <1>2 DEF CallInv, CreateAccount, SaveCommand, StopAtBoundary, LeaveLoop
  <1>3. CASE RecoverPending \/ \E c \in Calls : SettleRecovered(c)
    BY <1>3 DEF CallInv, RecoverPending, SettleRecovered
  <1>4. CASE CheckResume \/ MissCheckpoint \/ Crash \/ Finish
    BY <1>4 DEF CallInv, CheckResume, MissCheckpoint, Crash, Finish, End
  <1>5. CASE LoadCheckpoint \/ MakeCheckpoint \/ SkipCompleted
    BY <1>5 DEF CallInv, LoadCheckpoint, MakeCheckpoint, SkipCompleted, AtUnit
  <1>6. CASE ExecuteWithoutCall
    BY <1>6 DEF CallInv, ExecuteWithoutCall, Executed, AtUnit, TypeOK
  <1>7. CASE Reserve
    <2>1. unit \in Units /\ run \in Runs /\ Call \in Calls /\ Ahead(run, unit)
      BY <1>0, <1>7 DEF Reserve, AtUnit, PlaceInv, Ahead, TypeOK, Units
    <2>2. row[Call] = "none" /\ Call \notin sent
      BY <2>1 DEF AheadInv, Call
    <2>3. hold'[Call] = "active" /\ UNCHANGED <<row, sent, unit, run>> /\ pc' = "reserved"
      BY <1>7, <2>1 DEF Reserve, TypeOK
    <2>4. QED BY <2>2, <2>3 DEF CallInv, Call
  <1>8. CASE BeginCall \/ Send
    <2>1. Call \in Calls /\ UNCHANGED <<unit, run, hold>>
      BY <1>0, <1>8 DEF BeginCall, Send, PlaceInv, InUnit, Calling
    <2>2. QED BY <1>8, <2>1 DEF CallInv, BeginCall, Send, TypeOK, Call
  <1>9. CASE BeginCallFails
    BY <1>9 DEF CallInv, BeginCallFails, Executed, TypeOK, PlaceInv, InUnit, Calling
  <1>10. CASE NotSent \/ Answer
    <2>1. Call \in Calls /\ UNCHANGED <<unit, run, row, sent>>
      BY <1>0, <1>10 DEF NotSent, Answer, PlaceInv, InUnit, Calling
    <2>2. QED BY <1>10, <2>1 DEF CallInv, NotSent, Answer, Answers, TypeOK, Call
  <1>11. CASE FinishCall
    <2>1. /\ Call \in Calls /\ unit \in Units /\ UNCHANGED <<unit, run, hold, sent>>
          /\ pc' = "save" /\ row'[Call] = answer
          /\ executions'[unit] \in ExecutionsOf(answer)
      BY <1>0, <1>11 DEF FinishCall, Executed, PlaceInv, InUnit, Calling, TypeOK
    <2>2. answer \in Answers
      BY <1>11 DEF FinishCall, CallInv, TypeOK
    <2>3. CASE answer = "succeeded"
      BY <1>11, <2>1, <2>3 DEF FinishCall, CallInv, ExecutionsOf, Call
    <2>4. CASE answer # "succeeded"
      BY <2>1, <2>2, <2>4 DEF CallInv, ExecutionsOf, Answers
    <2>5. QED BY <2>3, <2>4
  <1>12. CASE SaveCheckpoint
    BY <1>12 DEF CallInv, SaveCheckpoint, AfterUnit
  <1>13. CASE UNCHANGED vars
    BY <1>13 DEF CallInv, vars, Call
  <1>14. QED
    BY <1>1, <1>2, <1>3, <1>4, <1>5, <1>6, <1>7, <1>8, <1>9, <1>10, <1>11, <1>12, <1>13
    DEF Next, Step

\* At most one row is open.
LEMMA OpenStep ==
  ASSUME TypeOK, PlaceInv, AheadInv, CallInv, OpenInv, [Next]_vars
  PROVE  OpenInv'
  <1> USE DEF store, saved, inputs, memory, process
  <1>0. pc \in InUnit => Call \in Calls
    BY CallType
  <1>1. CASE Review \/ \E confirm \in BOOLEAN : Resume(confirm)
    BY <1>1 DEF OpenInv, Review, Resume, Begin
  <1>2. CASE CreateAccount \/ SaveCommand \/ StopAtBoundary \/ LeaveLoop
    BY <1>2 DEF OpenInv, CreateAccount, SaveCommand, StopAtBoundary, LeaveLoop, AtUnit
  <1>3. CASE RecoverPending
    BY <1>3 DEF OpenInv, RecoverPending, TypeOK
  <1>4. CASE \E c \in Calls : SettleRecovered(c)
    BY <1>4 DEF OpenInv, SettleRecovered
  <1>5. CASE CheckResume \/ MissCheckpoint \/ Crash \/ Finish
    BY <1>5 DEF OpenInv, CheckResume, MissCheckpoint, Crash, Finish, End
  <1>6. CASE LoadCheckpoint \/ MakeCheckpoint \/ SkipCompleted \/ ExecuteWithoutCall
    BY <1>6 DEF OpenInv, LoadCheckpoint, MakeCheckpoint, SkipCompleted, ExecuteWithoutCall, AtUnit
  <1>7. CASE Reserve \/ BeginCallFails \/ NotSent \/ Answer
    BY <1>7 DEF OpenInv, Reserve, BeginCallFails, NotSent, Answer, AtUnit, Call
  <1>8. CASE BeginCall
    <2>1. Call \in Calls /\ Call' = Call /\ pc' = "begun"
      BY <1>0, <1>8 DEF BeginCall, InUnit, Calling, Call
    <2>2. row' = [row EXCEPT ![Call] = "open"] /\ \A c \in Calls : row[c] # "open"
      BY <1>8 DEF BeginCall, OpenInv
    <2>3. QED BY <1>8, <2>1, <2>2 DEF OpenInv, BeginCall, TypeOK
  <1>9. CASE Send
    BY <1>0, <1>9 DEF OpenInv, CallInv, Send, InUnit, Calling, Call
  <1>10. CASE FinishCall
    <2>1. Call \in Calls /\ answer \in Answers
      BY <1>0, <1>10 DEF FinishCall, CallInv, TypeOK, InUnit, Calling
    <2>2. row' = [row EXCEPT ![Call] = answer] /\ answer \notin {"none", "open"}
          /\ \A c \in Calls : row[c] = "open" => c = Call
      BY <1>10, <2>1 DEF FinishCall, OpenInv, Answers
    <2>3. QED BY <1>10, <2>1, <2>2 DEF OpenInv, FinishCall, TypeOK
  <1>11. CASE SaveCheckpoint
    BY <1>11 DEF OpenInv, SaveCheckpoint, AfterUnit
  <1>12. CASE UNCHANGED vars
    BY <1>12 DEF OpenInv, vars, Call
  <1>13. QED
    BY <1>1, <1>2, <1>3, <1>4, <1>5, <1>6, <1>7, <1>8, <1>9, <1>10, <1>11, <1>12 DEF Next, Step

-----------------------------------------------------------------------------
(* What every step keeps                                                   *)

Charged == {"known", "uncertain"}

\* Nothing that was sent, charged, answered or completed is taken back; one step
\* sends, and one completes.
Keeps ==
    /\ sent \subseteq sent'
    /\ \A c \in Calls : row[c] = "succeeded" => row'[c] = "succeeded"
    /\ \A c \in sent : hold[c] \in Charged => hold'[c] \in Charged
    /\ \A c \in sent : hold[c] = "active" => hold'[c] \in Charged \cup {"active"}
    /\ \A c \in sent' \ sent :
          /\ c = Call /\ pc = "begun"
          /\ UNCHANGED <<hold, row, completed>>
    /\ \A u \in Units :
          \/ completed'[u] = completed[u]
          \/ /\ u = unit /\ pc = "save" /\ completed[u] = "none"
             /\ completed'[u] = executions[u] /\ executions[u] # "unknown"
             /\ UNCHANGED <<hold, row, sent>>

\* Every step keeps what was paid for and what was completed.
LEMMA StepsKeep ==
  ASSUME IInv, [Next]_vars
  PROVE  Keeps
  <1> USE DEF store, saved, inputs, memory, process, Keeps
  <1>0. /\ pc \in InUnit => Call \in Calls
        /\ pc = "unit" /\ unit \in Units => Call \in Calls /\ Call \notin sent
                                              /\ row[Call] = "none"
        /\ hold \in [Calls -> Holds] /\ row \in [Calls -> Rows]
        /\ completed \in [Units -> Completions] /\ sent \subseteq Calls
    <2>1. pc = "unit" /\ unit \in Units => run \in Runs /\ Ahead(run, unit)
      BY DEF IInv, PlaceInv, Ahead, TypeOK, Units
    <2>2. QED BY <2>1, CallType DEF IInv, TypeOK, AheadInv, Call, Calls
  <1>1. CASE Review \/ \E confirm \in BOOLEAN : Resume(confirm)
    BY <1>1 DEF Review, Resume, Begin
  <1>2. CASE CreateAccount \/ SaveCommand \/ StopAtBoundary \/ LeaveLoop
    BY <1>2 DEF CreateAccount, SaveCommand, StopAtBoundary, LeaveLoop
  <1>3. CASE RecoverPending
    BY <1>0, <1>3 DEF RecoverPending
  <1>4. ASSUME NEW c \in Calls, SettleRecovered(c) PROVE Keeps
    BY <1>0, <1>4 DEF SettleRecovered, Charged
  <1>5. CASE CheckResume \/ MissCheckpoint \/ Crash \/ Finish
    BY <1>5 DEF CheckResume, MissCheckpoint, Crash, Finish, End
  <1>6. CASE LoadCheckpoint \/ MakeCheckpoint \/ SkipCompleted \/ ExecuteWithoutCall
    BY <1>6 DEF LoadCheckpoint, MakeCheckpoint, SkipCompleted, ExecuteWithoutCall
  <1>7. CASE Reserve
    BY <1>0, <1>7 DEF Reserve, AtUnit
  <1>8. CASE BeginCall \/ BeginCallFails \/ NotSent
    <2>1. Call \in Calls /\ Call \notin sent /\ (BeginCall => row[Call] = "none")
      BY <1>0, <1>8 DEF IInv, CallInv, BeginCall, BeginCallFails, NotSent, InUnit, Calling
    <2>2. QED BY <1>0, <1>8, <2>1 DEF BeginCall, BeginCallFails, NotSent
  <1>9. CASE Send
    BY <1>9 DEF Send
  <1>10. CASE Answer
    BY <1>0, <1>10 DEF Answer, Charged
  <1>11. CASE FinishCall
    <2>1. Call \in Calls /\ row[Call] = "open"
      BY <1>0, <1>11 DEF IInv, CallInv, FinishCall, InUnit, Calling
    <2>2. QED BY <1>0, <1>11, <2>1 DEF FinishCall
  <1>12. CASE SaveCheckpoint
    <2>1. unit \in Units /\ completed[unit] = "none"
      BY <1>12 DEF IInv, LoopInv, PlaceInv, SaveCheckpoint, InUnit
    <2>2. QED BY <1>0, <1>12, <2>1 DEF SaveCheckpoint, RecordExecution
  <1>13. CASE UNCHANGED vars
    BY <1>13 DEF vars
  <1>14. QED
    BY <1>1, <1>2, <1>3, <1>4, <1>5, <1>6, <1>7, <1>8, <1>9, <1>10, <1>11, <1>12, <1>13
    DEF Next, Step

\* A request that was sent stays charged, a completion stays true.
LEMMA TruthStep ==
  ASSUME IInv, [Next]_vars
  PROVE  SentCallsAreCharged' /\ CheckpointIsTrue'
  <1>0. Keeps
    BY StepsKeep
  <1>1. SentCallsAreCharged'
    <2> SUFFICES ASSUME NEW c \in sent' PROVE hold'[c] \in {"active", "known", "uncertain"}
      BY DEF SentCallsAreCharged
    <2>1. CASE c \in sent
      BY <1>0, <2>1 DEF IInv, SentCallsAreCharged, Keeps, Charged
    <2>2. CASE c \notin sent
      BY <1>0, <2>2 DEF IInv, CallInv, Keeps
    <2>3. QED BY <2>1, <2>2
  <1>2. CheckpointIsTrue'
    <2> SUFFICES ASSUME NEW u \in Units, completed'[u] = "reviewed"
                 PROVE  \E r \in Runs : /\ <<r, u>> \in sent'
                                        /\ row'[<<r, u>>] = "succeeded"
                                        /\ hold'[<<r, u>>] \in {"known", "uncertain"}
      BY DEF CheckpointIsTrue
    <2>1. CASE completed'[u] = completed[u]
      <3>1. PICK r \in Runs : /\ <<r, u>> \in sent
                              /\ row[<<r, u>>] = "succeeded"
                              /\ hold[<<r, u>>] \in {"known", "uncertain"}
        BY <2>1 DEF IInv, CheckpointIsTrue
      <3>2. <<r, u>> \in Calls
        BY DEF Calls
      <3>3. QED BY <1>0, <3>1, <3>2 DEF Keeps, Charged
    <2>2. CASE completed'[u] # completed[u]
      <3>1. /\ u = unit /\ pc = "save" /\ executions[u] = "reviewed"
            /\ UNCHANGED <<hold, row, sent>> /\ run \in Runs
        BY <1>0, <2>2 DEF Keeps, IInv, PlaceInv
      <3>2. QED BY <3>1 DEF IInv, CallInv, Call
    <2>3. QED BY <2>1, <2>2
  <1>3. QED BY <1>1, <1>2

\* An unconfirmed run goes on only while no call has an unknown outcome.
LEMMA KnownStep ==
  ASSUME TypeOK, PlaceInv, AheadInv, OpenInv, CallInv, KnownInv, [Next]_vars
  PROVE  KnownInv'
  <1> SUFFICES ASSUME ~confirmed', NEW c \in Calls, row'[c] = "unknown"
               PROVE  \/ pc' \in {"recover", "settle", "finish", "ended"}
                      \/ pc' = "save" /\ c = Call' /\ executions'[unit'] = "unknown"
    BY DEF KnownInv
  <1> USE DEF store, saved, inputs, memory, process
  <1>0. ~confirmed /\ row[c] = "unknown" =>
          \/ pc \in {"recover", "settle", "finish", "ended"}
          \/ pc = "save" /\ c = Call /\ executions[unit] = "unknown"
    BY DEF KnownInv
  <1>1. CASE Review
    <2>1. run' = 1 /\ pc' = "create" /\ row' = row
      BY <1>1 DEF Review, Begin, PlaceInv
    <2>2. \A r \in Runs, u \in Units : Ahead(r, u)
      BY <1>1 DEF Review, PlaceInv, Ahead, Runs
    <2>3. PICK r \in Runs, u \in Units : c = <<r, u>>
      BY DEF Calls
    <2>4. row[c] = "none"
      BY <2>2, <2>3 DEF AheadInv
    <2>5. QED BY <2>1, <2>4
  <1>2. CASE \E confirm \in BOOLEAN : Resume(confirm)
    BY <1>2 DEF Resume, Begin
  <1>3. CASE RecoverPending \/ \E d \in Calls : SettleRecovered(d)
    BY <1>3 DEF RecoverPending, SettleRecovered
  <1>4. CASE CheckResume
    BY <1>4 DEF CheckResume, HasUnknownExecution, End
  <1>5. CASE CreateAccount \/ SaveCommand \/ StopAtBoundary \/ LeaveLoop
    BY <1>0, <1>5 DEF CreateAccount, SaveCommand, StopAtBoundary, LeaveLoop, AtUnit
  <1>6. CASE MissCheckpoint \/ Crash \/ Finish
    BY <1>6 DEF MissCheckpoint, Crash, Finish, End
  <1>7. CASE LoadCheckpoint \/ MakeCheckpoint \/ SkipCompleted \/ ExecuteWithoutCall
    BY <1>0, <1>7 DEF LoadCheckpoint, MakeCheckpoint, SkipCompleted, ExecuteWithoutCall, AtUnit
  <1>8. CASE Reserve \/ BeginCallFails \/ Send \/ NotSent \/ Answer
    BY <1>0, <1>8 DEF Reserve, BeginCallFails, Send, NotSent, Answer, AtUnit
  <1>9. CASE BeginCall
    BY <1>0, <1>9 DEF BeginCall, TypeOK
  <1>10. CASE FinishCall
    <2>1. row[c] # "unknown" /\ pc' = "save" /\ UNCHANGED <<run, unit>>
      BY <1>0, <1>10 DEF FinishCall
    <2>2. c = Call /\ answer = "unknown" /\ unit \in Units
      BY <1>10, <2>1 DEF FinishCall, TypeOK, PlaceInv, InUnit, Calling
    <2>3. executions'[unit] = "unknown"
      BY <1>10, <2>2 DEF FinishCall, ExecutionsOf, Executed, TypeOK
    <2>4. QED BY <2>1, <2>2, <2>3 DEF Call
  <1>11. CASE SaveCheckpoint
    BY <1>0, <1>11 DEF SaveCheckpoint, AfterUnit
  <1>12. CASE UNCHANGED vars
    BY <1>0, <1>12 DEF vars, Call
  <1>13. QED
    BY <1>1, <1>2, <1>3, <1>4, <1>5, <1>6, <1>7, <1>8, <1>9, <1>10, <1>11, <1>12 DEF Next, Step

-----------------------------------------------------------------------------
(* The loop over the units                                                 *)

\* The process knows of each unit what the checkpoint knows.
LEMMA LoopStep ==
  ASSUME TypeOK, PlaceInv, CallInv, LoopInv, [Next]_vars
  PROVE  LoopInv'
  <1> USE DEF store, saved, inputs, memory, process
  <1>1. CASE Review \/ \E confirm \in BOOLEAN : Resume(confirm)
    BY <1>1 DEF LoopInv, Review, Resume, Begin, InLoop, InUnit, Calling
  <1>2. CASE CreateAccount \/ SaveCommand \/ RecoverPending \/ \E c \in Calls : SettleRecovered(c)
    BY <1>2 DEF LoopInv, CreateAccount, SaveCommand, RecoverPending, SettleRecovered, InLoop, InUnit, Calling
  <1>3. CASE CheckResume \/ MissCheckpoint \/ Crash \/ Finish
    BY <1>3 DEF LoopInv, CheckResume, MissCheckpoint, Crash, Finish, End, InLoop, InUnit, Calling
  <1>4. CASE LoadCheckpoint
    BY <1>4 DEF LoopInv, LoadCheckpoint, InLoop, InUnit, Calling
  <1>5. CASE MakeCheckpoint
    <2>1. executions = Empty /\ completed = Empty /\ UNCHANGED <<executions, completed, unit>>
          /\ pc' = "unit"
      BY <1>5 DEF MakeCheckpoint, PlaceInv, LoopInv, OffLoop
    <2>2. QED BY <2>1 DEF LoopInv, InLoop, InUnit, Calling
  <1>6. CASE SkipCompleted
    <2>1. /\ unit \in Units /\ unit' = unit + 1 /\ pc = "unit"
          /\ UNCHANGED <<pc, executions, completed, checkpoint, run, saveFailed>>
      BY <1>6 DEF SkipCompleted, AtUnit
    <2>2. QED BY <2>1 DEF LoopInv, InLoop, InUnit, Calling, Units
  <1>7. CASE StopAtBoundary \/ LeaveLoop
    BY <1>7 DEF LoopInv, StopAtBoundary, LeaveLoop, AtUnit, InLoop, InUnit, Calling
  <1>8. CASE ExecuteWithoutCall
    BY <1>8 DEF LoopInv, ExecuteWithoutCall, Executed, AtUnit, TypeOK, InLoop, InUnit, Calling, Units
  <1>9. CASE Reserve \/ BeginCall \/ Send \/ NotSent \/ Answer
    BY <1>9 DEF LoopInv, Reserve, BeginCall, Send, NotSent, Answer, AtUnit, InLoop, InUnit, Calling
  <1>10. CASE BeginCallFails \/ FinishCall
    <2>1. /\ unit \in Units /\ pc \in Calling /\ pc' = "save"
          /\ \A u \in Units \ {unit} : executions'[u] = executions[u]
          /\ UNCHANGED <<unit, completed, checkpoint, run, saveFailed>>
      BY <1>10 DEF BeginCallFails, FinishCall, Executed, PlaceInv, InUnit, Calling, TypeOK
    <2>2. QED BY <2>1 DEF LoopInv, InLoop, InUnit, Calling, Units
  <1>11. CASE SaveCheckpoint
    <2>1. /\ unit \in Units /\ pc = "save" /\ executions[unit] # "none"
          /\ UNCHANGED <<executions, run>>
      BY <1>11 DEF SaveCheckpoint, PlaceInv, CallInv, InUnit
    <2>2. /\ \A u \in Units \ {unit} : completed'[u] = completed[u]
          /\ ~checkpoint' => completed' = completed /\ ~checkpoint
          /\ saveFailed \subseteq saveFailed'
          /\ run \notin saveFailed' =>
                \/ executions[unit] = "unknown"
                \/ completed'[unit] = executions[unit]
      BY <1>11, <2>1 DEF SaveCheckpoint, RecordExecution, TypeOK
    <2>3. \/ pc' = "finish" /\ unit' = unit
          \/ pc' = "unit" /\ unit' = unit + 1
      BY <1>11 DEF SaveCheckpoint, AfterUnit
    <2>4. QED BY <2>1, <2>2, <2>3 DEF LoopInv, InLoop, InUnit, Calling, Units
  <1>12. CASE UNCHANGED vars
    BY <1>12 DEF LoopInv, vars
  <1>13. QED
    BY <1>1, <1>2, <1>3, <1>4, <1>5, <1>6, <1>7, <1>8, <1>9, <1>10, <1>11, <1>12 DEF Next, Step

\* What a run leaves to be paid for again is at most the unit it is at.
LEMMA RedoStep ==
  ASSUME IInv, [Next]_vars
  PROVE  RedoInv'
  <1> SUFFICES ASSUME NEW r \in Runs, r \notin saveFailed'
               PROVE  /\ \A u, w \in Redo(r)' : u = w
                      /\ r = run' /\ pc' = "unit" => Redo(r)' = {}
                      /\ r = run' /\ pc' \in InUnit => Redo(r)' \subseteq {unit'}
    BY DEF RedoInv
  <1> USE DEF store, saved, inputs, memory, process
  <1>0. /\ Keeps /\ saveFailed \subseteq saveFailed'
        /\ \A u, w \in Redo(r) : u = w
        /\ r = run /\ pc = "unit" => Redo(r) = {}
        /\ r = run /\ pc \in InUnit => Redo(r) \subseteq {unit}
    <2>1. saveFailed \subseteq saveFailed'
      BY DEF Next, Step, vars, Review, Resume, Begin, End, CreateAccount, RecoverPending,
             SettleRecovered, CheckResume, SaveCommand, LoadCheckpoint, MakeCheckpoint,
             MissCheckpoint, SkipCompleted, StopAtBoundary, LeaveLoop, ExecuteWithoutCall, Reserve,
             BeginCall, BeginCallFails, Send, NotSent, Answer, FinishCall, SaveCheckpoint,
             Finish, Crash
    <2>2. QED BY <2>1, StepsKeep DEF IInv, RedoInv
  \* Only a request adds a unit.
  <1>1. ASSUME ~Send PROVE Redo(r)' \subseteq Redo(r)
    <2>1. sent' = sent
      BY <1>1 DEF Next, Step, vars, Review, Resume, Begin, End, CreateAccount, RecoverPending,
             SettleRecovered, CheckResume, SaveCommand, LoadCheckpoint, MakeCheckpoint,
             MissCheckpoint, SkipCompleted, StopAtBoundary, LeaveLoop, ExecuteWithoutCall, Reserve,
             BeginCall, BeginCallFails, NotSent, Answer, FinishCall, SaveCheckpoint,
             Finish, Crash
    <2>2. \A u \in Units : completed[u] # "none" => completed'[u] = completed[u]
      BY <1>0 DEF Keeps
    <2>3. QED BY <2>1, <2>2 DEF Redo
  <1>2. CASE Send
    <2>1. /\ pc = "begun" /\ sent' = sent \cup {<<run, unit>>} /\ completed' = completed
          /\ UNCHANGED <<run, unit>> /\ pc' = "sent"
      BY <1>2 DEF Send, Call
    <2>2. CASE r = run
      <3>1. Redo(r) \subseteq {unit}
        BY <1>0, <2>1, <2>2 DEF InUnit, Calling
      <3>2. Redo(r)' \subseteq {unit}
        BY <2>1, <3>1 DEF Redo
      <3>3. QED BY <2>1, <3>2
    <2>3. CASE r # run
      BY <1>0, <2>1, <2>3 DEF Redo
    <2>4. QED BY <2>2, <2>3
  \* A run has nothing to redo before it comes to its units.
  <1>3. CASE LoadCheckpoint \/ MakeCheckpoint
    <2>1. run' = run /\ pc' = "unit" /\ pc = "load"
      BY <1>3 DEF LoadCheckpoint, MakeCheckpoint
    <2>2. r = run => Redo(r) = {}
      BY <2>1 DEF IInv, AheadInv, Ahead, Redo
    <2>3. QED BY <1>0, <1>1, <1>3, <2>1, <2>2 DEF Send, InUnit, Calling
  <1>4. CASE SaveCheckpoint
    <2>1. /\ unit \in Units /\ pc = "save" /\ executions[unit] # "none"
          /\ run' = run /\ pc' \in {"unit", "finish"}
          /\ pc' = "unit" => executions[unit] # "unknown"
      BY <1>4 DEF IInv, SaveCheckpoint, PlaceInv, CallInv, InUnit, AfterUnit
    <2>2. r = run /\ pc' = "unit" => completed'[unit] = executions[unit]
      BY <1>4, <2>1 DEF SaveCheckpoint, RecordExecution, IInv, TypeOK
    <2>3. r = run => Redo(r) \subseteq {unit}
      BY <1>0, <2>1 DEF InUnit
    <2>4. r = run /\ pc' = "unit" => Redo(r)' = {}
      BY <1>1, <2>1, <2>2, <2>3, <1>4 DEF Redo, Send
    <2>5. QED BY <1>0, <1>1, <2>1, <2>4 DEF Send, InUnit, Calling
  <1>5. CASE ~(Send \/ LoadCheckpoint \/ MakeCheckpoint \/ SaveCheckpoint)
    <2>1. /\ pc' = "unit" => pc = "unit" /\ run' = run
          /\ pc' \in InUnit => pc \in InUnit \cup {"unit"} /\ UNCHANGED <<run, unit>>
      BY <1>5 DEF Next, Step, vars, Review, Resume, Begin, End, CreateAccount, RecoverPending,
             SettleRecovered, CheckResume, SaveCommand,
             MissCheckpoint, SkipCompleted, StopAtBoundary, LeaveLoop, ExecuteWithoutCall, Reserve,
             BeginCall, BeginCallFails, NotSent, Answer, FinishCall,
             Finish, Crash, AtUnit, InUnit, Calling
    <2>2. QED BY <1>0, <1>1, <1>5, <2>1
  <1>6. QED BY <1>2, <1>3, <1>4, <1>5

\* A result that is stored as complete has its units in the checkpoint.
LEMMA CompleteStep ==
  ASSUME IInv, [Next]_vars
  PROVE  CompleteIsDurable'
  <1> USE DEF store, saved, inputs, memory, process
  <1>1. CASE Finish
    <2>1. PICK traceFailed \in BOOLEAN : stored' = ResultOf(traceFailed)
      BY <1>1 DEF Finish
    <2>2. stored' = "complete" => /\ run \notin saveFailed
                                  /\ \A u \in Units : executions[u] = "reviewed"
      BY <2>1 DEF ResultOf, ResultOfCoverage
    <2>3. pc = "finish" /\ completed' = completed
      BY <1>1 DEF Finish
    <2>4. QED BY <2>2, <2>3 DEF IInv, LoopInv, CompleteIsDurable
  <1>2. CASE ~Finish
    <2>1. stored' = stored
      BY <1>2 DEF Next, Step, vars, Review, Resume, Begin, CreateAccount, RecoverPending,
             SettleRecovered, CheckResume, SaveCommand, LoadCheckpoint, MakeCheckpoint,
             MissCheckpoint, SkipCompleted, StopAtBoundary, LeaveLoop, ExecuteWithoutCall, Reserve,
             BeginCall, BeginCallFails, Send, NotSent, Answer, FinishCall, SaveCheckpoint, Crash
    <2>2. QED BY <2>1, StepsKeep DEF IInv, CompleteIsDurable, Keeps
  <1>3. QED BY <1>1, <1>2

-----------------------------------------------------------------------------
(* The theorems                                                            *)

\* Nothing has begun.
LEMMA Initially == Init => IInv
  <1> SUFFICES ASSUME Init PROVE IInv
    OBVIOUS
  <1> USE EmptyType DEF Init
  <1>1. TypeOK
    <2>1. hold \in [Calls -> Holds] /\ row \in [Calls -> Rows]
      BY DEF Holds, Rows
    <2>2. run \in 0 .. RunCount /\ unit \in 1 .. UnitCount + 1
      OBVIOUS
    <2>3. pc \in PCs /\ stored \in Results
      BY DEF PCs, Results
    <2>4. QED BY <2>1, <2>2, <2>3 DEF TypeOK
  <1>2. PlaceInv /\ AheadInv /\ CallInv /\ OpenInv /\ SentCallsAreCharged /\ KnownInv
    BY DEF PlaceInv, AheadInv, CallInv, OpenInv, SentCallsAreCharged, KnownInv, InUnit,
           Calling, Calls
  <1>3. LoopInv /\ CheckpointIsTrue /\ RedoInv /\ CompleteIsDurable
    BY DEF LoopInv, CheckpointIsTrue, RedoInv, Redo, CompleteIsDurable, InLoop, InUnit, Calling
  <1>4. QED BY <1>1, <1>2, <1>3 DEF IInv

\* The inductive invariant holds in every reachable state, for any number of
\* units and of runs.
THEOREM Invariance == Spec => []IInv
  <1>1. IInv /\ [Next]_vars => IInv'
    BY TypeStep, PlaceStep, AheadStep, CallStep, OpenStep, TruthStep, KnownStep, LoopStep,
       RedoStep, CompleteStep DEF IInv
  <1>2. QED BY Initially, <1>1, PTL DEF Spec

\* The records of a task and of its runs have their types.
THEOREM TypeCorrect == Spec => []TypeOK
  <1>1. IInv => TypeOK
    BY DEF IInv
  <1>2. QED BY Invariance, <1>1, PTL

\* Whoever dies and whoever resumes: a request that reached the provider stays
\* reserved or charged.
THEOREM RequestsStayCharged == Spec => []SentCallsAreCharged
  <1>1. IInv => SentCallsAreCharged
    BY DEF IInv
  <1>2. QED BY Invariance, <1>1, PTL

\* At most one pending row is open, and every request has its row.
THEOREM CallsAreSequential == Spec => []OneOpenCall
  <1>1. IInv => OneOpenCall
    BY AtMostOne DEF IInv, OpenInv, OneOpenCall
  <1>2. QED BY Invariance, <1>1, PTL

\* What the checkpoint calls reviewed was answered with success, and charged.
THEOREM CompletionsAreTrue == Spec => []CheckpointIsTrue
  <1>1. IInv => CheckpointIsTrue
    BY DEF IInv
  <1>2. QED BY Invariance, <1>1, PTL

\* A run whose checkpoints were saved leaves at most one unit to be paid again.
THEOREM CrashCostsOneUnit == Spec => []OneUnitToRedo
  <1>1. IInv => OneUnitToRedo
    <2> SUFFICES ASSUME IInv, NEW r \in Runs \ saveFailed
                 PROVE  Cardinality(Redo(r)) <= 1
      BY DEF OneUnitToRedo, Redo
    <2>1. QED BY AtMostOne DEF IInv, RedoInv
  <1>2. QED BY Invariance, <1>1, PTL

\* A result is only stored as complete with every unit reviewed in the checkpoint.
THEOREM CompleteRestsOnCheckpoint == Spec => []CompleteIsDurable
  <1>1. IInv => CompleteIsDurable
    BY DEF IInv
  <1>2. QED BY Invariance, <1>1, PTL

\* Without the user's confirmation no request follows one of unknown outcome.
THEOREM UnknownIsNotRetried == Spec => NoSilentRetry
  <1> DEFINE Asked == \A c \in Calls : (c \in sent' /\ c \notin sent /\ ~confirmed)
                        => \A d \in sent : row[d] \in {"succeeded", "failed_known"}
  <1>1. ASSUME IInv, [Next]_vars PROVE Asked
    <2> SUFFICES ASSUME NEW c \in Calls, c \in sent', c \notin sent, ~confirmed, NEW d \in sent
                 PROVE  row[d] \in {"succeeded", "failed_known"}
      OBVIOUS
    <2>1. pc = "begun" /\ Call \notin sent
      BY <1>1, StepsKeep DEF Keeps, IInv, CallInv
    <2>2. d \in Calls /\ row[d] \in Rows
      BY <1>1 DEF IInv, TypeOK
    <2>3. row[d] \notin {"none", "open"}
      BY <1>1, <2>1, <2>2 DEF IInv, OpenInv
    <2>4. row[d] # "unknown"
      BY <1>1, <2>1, <2>2 DEF IInv, KnownInv
    <2>5. QED BY <2>2, <2>3, <2>4 DEF Rows, Answers
  <1>2. IInv /\ [Next]_vars => [Asked]_vars
    BY <1>1
  <1>3. QED BY Invariance, <1>2, PTL DEF Spec, NoSilentRetry

\* What is completed stays, and no later run pays for it again.
THEOREM CompletionsAreReused == Spec => CompletedIsReused
  <1> DEFINE Reused == \A u \in Units : completed[u] # "none" =>
                          /\ completed'[u] = completed[u]
                          /\ \A r \in Runs : <<r, u>> \in sent' => <<r, u>> \in sent
  <1>1. ASSUME IInv, [Next]_vars PROVE Reused
    <2> SUFFICES ASSUME NEW u \in Units, completed[u] # "none"
                 PROVE  /\ completed'[u] = completed[u]
                        /\ \A r \in Runs : <<r, u>> \in sent' => <<r, u>> \in sent
      OBVIOUS
    <2>1. completed'[u] = completed[u]
      BY <1>1, StepsKeep DEF Keeps
    <2>2. ASSUME NEW r \in Runs, <<r, u>> \in sent', <<r, u>> \notin sent PROVE FALSE
      <3>1. pc = "begun" /\ u = unit
        BY <1>1, <2>2, StepsKeep DEF Keeps, Call
      <3>2. QED BY <1>1, <3>1 DEF IInv, LoopInv, InUnit, Calling
    <2>3. QED BY <2>1, <2>2
  <1>2. IInv /\ [Next]_vars => [Reused]_vars
    BY <1>1
  <1>3. QED BY Invariance, <1>2, PTL DEF Spec, CompletedIsReused
=============================================================================
