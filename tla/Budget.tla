------------------------------- MODULE Budget -------------------------------
(***************************************************************************)
(* The token budget of one review task: BudgetService with its append-only *)
(* ledger, the reservations of the model calls, and the state it keeps in  *)
(* the store.                                                              *)
(*                                                                         *)
(* A runtime is a process of the command line (`review`, `resume`) with a  *)
(* BudgetService of its own.  It works on its memory and writes the whole  *)
(* state to the store at the end of every operation; the one row there is  *)
(* replaced, whatever it holds.  A runtime that starts on an existing task *)
(* loads the row.                                                          *)
(***************************************************************************)
EXTENDS Integers, Sequences, FiniteSetsExt, SequencesExt

CONSTANTS Runtimes,          \* processes that may serve the task
          Calls,             \* model calls, each with a fresh model_call_id
          Amounts,           \* token amounts of reservations and usage reports
          Requested,         \* the command's budget_tokens
          MaxAuthorization   \* MAX_AUTHORIZATION, scaled down

ASSUME BudgetAssumption ==
    /\ IsFiniteSet(Calls)
    /\ Amounts \subseteq Nat \ {0}
    /\ Requested \in 1 .. MaxAuthorization

VARIABLES memory,  \* the BudgetService state of each runtime, or NoBudget
          saved    \* the row of review_budget_states, or NoBudget

vars == <<memory, saved>>

NoBudget == [state |-> "none"]

EntryTypes == {"authorization_initial", "authorization_added",
               "reservation_created", "reservation_released", "usage_settled",
               "unknown_committed", "usage_overage_recorded",
               "freeze_applied", "freeze_cleared"}

NoReservation == [state |-> "none", amount |-> 0, actual |-> 0]

-----------------------------------------------------------------------------
(* BudgetLedger.project: what the entries amount to                        *)

\* The amounts, or the released reservation amounts, of the entries of types T.
AmountOf(b, T) ==
    SumFunction([k \in 1 .. Len(b.entries) |->
                    IF b.entries[k].type \in T THEN b.entries[k].amount ELSE 0])

ReservedOf(b, T) ==
    SumFunction([k \in 1 .. Len(b.entries) |->
                    IF b.entries[k].type \in T THEN b.entries[k].reserved ELSE 0])

Authorized(b) == AmountOf(b, {"authorization_initial", "authorization_added"})
Known(b)      == AmountOf(b, {"usage_settled"})
Uncertain(b)  == AmountOf(b, {"unknown_committed"})
Overage(b)    == AmountOf(b, {"usage_overage_recorded"})

Active(b) ==
    Max({0, AmountOf(b, {"reservation_created"})
            - ReservedOf(b, {"reservation_released", "usage_settled",
                             "unknown_committed"})})

Committed(b) == Known(b) + Uncertain(b) + Active(b)

IsBlocked(b) == b.state = "frozen_overage" \/ b.pending

Spendable(b) == IF IsBlocked(b) THEN 0 ELSE Max({0, Authorized(b) - Committed(b)})

-----------------------------------------------------------------------------
(* The operations, from state to state                                     *)

\* _append numbers the entry and records the number in the account.
Log(b, type, amount, reserved) ==
    [b EXCEPT !.entries  = Append(@, [type |-> type, amount |-> amount,
                                      reserved |-> reserved,
                                      sequence |-> b.last + 1]),
              !.last     = b.last + 1,
              !.revision = @ + 1]

Created ==
    [state |-> "open", pending |-> FALSE, revision |-> 1, last |-> 1,
     entries |-> <<[type |-> "authorization_initial", amount |-> Requested,
                    reserved |-> 0, sequence |-> 1]>>,
     reservations |-> [c \in Calls |-> NoReservation]]

Reserved(b, c, n) ==
    Log([b EXCEPT !.reservations[c] = [state |-> "active", amount |-> n, actual |-> 0]],
        "reservation_created", n, 0)

Released(b, c) ==
    Log([b EXCEPT !.reservations[c].state = "released"],
        "reservation_released", b.reservations[c].amount, b.reservations[c].amount)

\* Usage above the reservation is charged in full, disclosed as overage and
\* freezes the account.
Frozen(b, over) ==
    LET disclosed == Log(b, "usage_overage_recorded", over, 0)
    IN  Log([disclosed EXCEPT !.state = "frozen_overage", !.revision = @ + 1],
            "freeze_applied", 0, 0)

\* Mutant: the entry gives back what was used instead of what was reserved.
SettledKnownByUsage(b, c, actual) ==
    LET amount  == b.reservations[c].amount
        charged == Log([b EXCEPT !.reservations[c].state = "settled_known",
                                 !.reservations[c].actual = actual],
                       "usage_settled", actual, actual)
    IN  IF actual > amount THEN Frozen(charged, actual - amount) ELSE charged

\* Mutant: the whole usage is disclosed as overage.
SettledKnownAllOver(b, c, actual) ==
    LET amount  == b.reservations[c].amount
        charged == Log([b EXCEPT !.reservations[c].state = "settled_known",
                                 !.reservations[c].actual = actual],
                       "usage_settled", actual, amount)
    IN  IF actual > amount THEN Frozen(charged, actual) ELSE charged

SettledKnown(b, c, actual) ==
    LET amount  == b.reservations[c].amount
        charged == Log([b EXCEPT !.reservations[c].state = "settled_known",
                                 !.reservations[c].actual = actual],
                       "usage_settled", actual, amount)
    IN  IF actual > amount THEN Frozen(charged, actual - amount) ELSE charged

\* Mutant: only what exceeds the reservation is charged.
SettledUncertainDifference(b, c, reported) ==
    Log([b EXCEPT !.reservations[c].state = "settled_uncertain",
                  !.reservations[c].actual = reported - b.reservations[c].amount],
        "unknown_committed", reported - b.reservations[c].amount,
        b.reservations[c].amount)

\* Usage that is missing (0) or not trusted is charged at the larger of the
\* reservation and the report; a larger report asks for revalidation.
SettledUncertain(b, c, reported) ==
    LET amount  == b.reservations[c].amount
        charge  == Max({amount, reported})
        charged == Log([b EXCEPT !.reservations[c].state = "settled_uncertain",
                                 !.reservations[c].actual = charge],
                       "unknown_committed", charge, amount)
    IN  IF charge > amount
        THEN [charged EXCEPT !.pending = TRUE, !.revision = @ + 1]
        ELSE charged

\* Mutant: a larger authorization lifts the block by itself.
ExtendedAndOpened(b, n) ==
    [Log(b, "authorization_added", n, 0) EXCEPT !.last = b.last, !.state = "open",
                                                !.pending = FALSE]

\* add_authorization puts back the account it read before the append, so the
\* number of the new entry is not recorded.
Extended(b, n) ==
    [Log(b, "authorization_added", n, 0) EXCEPT !.last = b.last,
                                                !.revision = b.revision + 1]

Unfrozen(b) ==
    Log([b EXCEPT !.state = "open", !.pending = FALSE, !.revision = @ + 1],
        "freeze_cleared", 0, 0)

-----------------------------------------------------------------------------
(* The operations of a runtime                                             *)

Loaded(r) == memory[r] # NoBudget

IsActive(r, c) == Loaded(r) /\ memory[r].reservations[c].state = "active"

\* _persist: INSERT OR REPLACE of the whole state.
Persist(r, b) == memory' = [memory EXCEPT ![r] = b] /\ saved' = b

CreateAccount(r) ==
    /\ ~Loaded(r)
    /\ saved = NoBudget
    /\ Persist(r, Created)

\* restore_account compares the authorized total with the command's budget.
RestoreAccount(r) ==
    /\ ~Loaded(r)
    /\ saved # NoBudget
    /\ Authorized(saved) = Requested
    /\ memory' = [memory EXCEPT ![r] = saved]
    /\ UNCHANGED saved

\* A denial (frozen, or not enough left) changes nothing.
PrepareReservation(r, c, n) ==
    /\ Loaded(r)
    /\ ~IsBlocked(memory[r])
    /\ memory[r].reservations[c].state = "none"
    /\ n <= Spendable(memory[r])
    /\ Persist(r, Reserved(memory[r], c, n))

\* Mutant: a reservation that was settled can still be released.
ReleaseAnyReservation(r, c) ==
    /\ Loaded(r)
    /\ memory[r].reservations[c].state \notin {"none", "released"}
    /\ Persist(r, Released(memory[r], c))

ReleaseUnsentReservation(r, c) ==
    /\ IsActive(r, c)
    /\ Persist(r, Released(memory[r], c))

SettleKnownUsage(r, c, actual) ==
    /\ IsActive(r, c)
    /\ Persist(r, SettledKnown(memory[r], c, actual))

SettleUncertainUsage(r, c, reported) ==
    /\ IsActive(r, c)
    /\ Persist(r, SettledUncertain(memory[r], c, reported))

AddAuthorization(r, n) ==
    /\ Loaded(r)
    /\ Authorized(memory[r]) + n <= MaxAuthorization
    /\ Persist(r, Extended(memory[r], n))

\* Mutant: an explicit request is enough to unfreeze.
UnfreezeUncovered(r) ==
    /\ Loaded(r)
    /\ IsBlocked(memory[r])
    /\ Persist(r, Unfrozen(memory[r]))

\* Asked for explicitly, with a valid capability, and nothing left uncovered.
EvaluateUnfreeze(r) ==
    /\ Loaded(r)
    /\ IsBlocked(memory[r])
    /\ Authorized(memory[r]) >= Committed(memory[r])
    /\ Persist(r, Unfrozen(memory[r]))

\* The process ends or dies; also a failed write ends it.
Exit(r) ==
    /\ Loaded(r)
    /\ memory' = [memory EXCEPT ![r] = NoBudget]
    /\ UNCHANGED saved

-----------------------------------------------------------------------------
Init ==
    /\ memory = [r \in Runtimes |-> NoBudget]
    /\ saved = NoBudget

Settle(r, c) ==
    \/ \E n \in Amounts \cup {0} : SettleKnownUsage(r, c, n)
    \/ \E n \in Amounts \cup {0} : SettleUncertainUsage(r, c, n)

Next == \E r \in Runtimes :
    \/ CreateAccount(r)
    \/ RestoreAccount(r)
    \/ \E c \in Calls, n \in Amounts : PrepareReservation(r, c, n)
    \/ \E c \in Calls : ReleaseUnsentReservation(r, c) \/ Settle(r, c)
    \/ \E n \in Amounts : AddAuthorization(r, n)
    \/ EvaluateUnfreeze(r)
    \/ Exit(r)

Spec == Init /\ [][Next]_vars

-----------------------------------------------------------------------------
(* Properties                                                              *)

States == {saved} \cup {memory[r] : r \in Runtimes}
Budgets == States \ {NoBudget}

Entry == [type : EntryTypes, amount : Nat, reserved : Nat, sequence : Nat \ {0}]
Reservation == [state  : {"none", "active", "released", "settled_known", "settled_uncertain"},
                amount : Nat, actual : Nat]

\* Type invariant: the account, its ledger and its reservations in memory and
\* in the store.
TypeOK == \A b \in Budgets :
    /\ b.state \in {"open", "frozen_overage"}
    /\ b.pending \in BOOLEAN
    /\ b.revision \in Nat \ {0}
    /\ b.last \in Nat
    /\ b.entries \in Seq(Entry)
    /\ b.reservations \in [Calls -> Reservation]

\* The amounts of the reservations in state s; what they were charged.
HeldIn(b, s) == SumFunction([c \in Calls |->
    IF b.reservations[c].state = s THEN b.reservations[c].amount ELSE 0])
ChargedIn(b, s) == SumFunction([c \in Calls |->
    IF b.reservations[c].state = s THEN b.reservations[c].actual ELSE 0])

\* The ledger and the reservations tell the same story after any history of
\* reserving, settling and restarting: the projection of the entries (also the
\* clamped "active") is the total over the reservations.
LedgerMatchesReservations == \A b \in Budgets :
    /\ Active(b) = HeldIn(b, "active")
    /\ Known(b) = ChargedIn(b, "settled_known")
    /\ Uncertain(b) = ChargedIn(b, "settled_uncertain")

\* Consumption beyond the authorization blocks the account: as long as it is
\* not covered, no new reservation can be made.
DeficitBlocks == \A b \in Budgets : Committed(b) > Authorized(b) => IsBlocked(b)

\* Overage discloses exactly what trusted usage exceeded the reservations by,
\* once: it is not charged again, and restarts do not repeat it.
OverageIsDisclosed == \A b \in Budgets :
    Overage(b) = SumFunction([c \in Calls |->
        IF b.reservations[c].state = "settled_known"
        THEN Max({0, b.reservations[c].actual - b.reservations[c].amount}) ELSE 0])

Settled == {"released", "settled_known", "settled_uncertain"}

\* In the store a reservation that was released or settled stays as it is, and
\* the ledger is only appended to, also across restarts.
HistoryIsKept ==
    [][saved # NoBudget =>
           /\ IsPrefix(saved.entries, saved'.entries)
           /\ \A c \in Calls : saved.reservations[c].state \in Settled =>
                  saved'.reservations[c] = saved.reservations[c]]_vars

\* The state in the store implements a token cap.
Stage(s) == CASE s = "none" -> "new" [] s = "active" -> "held" [] OTHER -> "closed"

Exists == saved # NoBudget

Cap == INSTANCE TokenCap WITH
    limit   <- IF Exists THEN Authorized(saved) ELSE 0,
    stage   <- [c \in Calls |-> IF Exists THEN Stage(saved.reservations[c].state) ELSE "new"],
    tokens  <- [c \in Calls |->
                   IF ~Exists THEN 0
                   ELSE CASE saved.reservations[c].state = "active" -> saved.reservations[c].amount
                          [] saved.reservations[c].state = "released" -> 0
                          [] OTHER -> saved.reservations[c].actual],
    blocked <- Exists /\ IsBlocked(saved)

ImplementsTokenCap == Cap!CapSpec

\* Entries of a ledger are numbered without repetition, so that "the state at
\* ledger version v" is a fact that later entries do not change.
SequencesAreUnique == \A b \in Budgets : \A j, k \in 1 .. Len(b.entries) :
    j # k => b.entries[j].sequence # b.entries[k].sequence

\* A task whose authorization was extended can be restored by `resume`.
RestorableAfterExtension == saved # NoBudget => Authorized(saved) = Requested

\* What runtimes hold for calls together stays within the authorization.
HoldsFitAuthorization ==
    LET held(c) == Max({IF IsActive(r, c) THEN memory[r].reservations[c].amount ELSE 0 :
                            r \in Runtimes})
    IN  saved # NoBudget => SumFunction([c \in Calls |-> held(c)]) <= Authorized(saved)
=============================================================================
