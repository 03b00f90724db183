---------------------------- MODULE BudgetProofs ----------------------------
(***************************************************************************)
(* Proofs about Budget, for every finite set of calls, any amounts and any *)
(* authorization.  What an entry adds to the ledger's totals, and a        *)
(* reservation to the totals over the calls, comes from DataTheorems.       *)
(***************************************************************************)
EXTENDS Budget, DataTheorems

-----------------------------------------------------------------------------
(* The totals, as functions of the ledger and of the reservations          *)

AmountIn(entries, T) ==
    SumFunction([k \in 1 .. Len(entries) |-> IF entries[k].type \in T THEN entries[k].amount ELSE 0])

ReservedIn(entries, T) ==
    SumFunction([k \in 1 .. Len(entries) |-> IF entries[k].type \in T THEN entries[k].reserved ELSE 0])

\* What one reservation counts for.
Held(reservation, s)    == IF reservation.state = s THEN reservation.amount ELSE 0
Charged(reservation, s) == IF reservation.state = s THEN reservation.actual ELSE 0
Exceeds(reservation) ==
    IF reservation.state = "settled_known" THEN Max({0, reservation.actual - reservation.amount}) ELSE 0
Costs(reservation) ==
    IF reservation.state = "active" THEN reservation.amount
    ELSE IF reservation.state = "released" THEN 0 ELSE reservation.actual

HeldBy(reservations, s)    == SumFunction([c \in Calls |-> Held(reservations[c], s)])
ChargedTo(reservations, s) == SumFunction([c \in Calls |-> Charged(reservations[c], s)])
ExceededBy(reservations)   == SumFunction([c \in Calls |-> Exceeds(reservations[c])])
CostOf(reservations)       == SumFunction([c \in Calls |-> Costs(reservations[c])])

\* The larger of two numbers.
LEMMA MaxOfTwo ==
  ASSUME NEW m \in Int, NEW n \in Int
  PROVE  Max({m, n}) = IF m >= n THEN m ELSE n
  BY DEF Max

\* The operators of Budget are these.
LEMMA Totals ==
  ASSUME NEW b
  PROVE  /\ \A T : AmountOf(b, T) = AmountIn(b.entries, T)
         /\ \A T : ReservedOf(b, T) = ReservedIn(b.entries, T)
         /\ \A s : HeldIn(b, s) = HeldBy(b.reservations, s)
         /\ \A s : ChargedIn(b, s) = ChargedTo(b.reservations, s)
  BY DEF AmountOf, AmountIn, ReservedOf, ReservedIn, HeldIn, HeldBy, Held, ChargedIn, ChargedTo, Charged

\* Totals over the entries are natural numbers, and an entry adds its own.
LEMMA EntryAdds ==
  ASSUME NEW entries \in Seq(Entry), NEW e \in Entry, NEW T
  PROVE  /\ AmountIn(entries, T) \in Nat /\ ReservedIn(entries, T) \in Nat
         /\ AmountIn(Append(entries, e), T) =
               AmountIn(entries, T) + (IF e.type \in T THEN e.amount ELSE 0)
         /\ ReservedIn(Append(entries, e), T) =
               ReservedIn(entries, T) + (IF e.type \in T THEN e.reserved ELSE 0)
  <1> DEFINE n == Len(entries)
             longer == Append(entries, e)
             f == [k \in 1 .. n |-> IF entries[k].type \in T THEN entries[k].amount ELSE 0]
             g == [k \in 1 .. n + 1 |-> IF longer[k].type \in T THEN longer[k].amount ELSE 0]
             u == [k \in 1 .. n |-> IF entries[k].type \in T THEN entries[k].reserved ELSE 0]
             v == [k \in 1 .. n + 1 |-> IF longer[k].type \in T THEN longer[k].reserved ELSE 0]
  <1>1. /\ n \in Nat /\ Len(longer) = n + 1 /\ longer[n + 1] = e
        /\ \A k \in 1 .. n : longer[k] = entries[k] /\ entries[k] \in Entry
    OBVIOUS
  <1> HIDE DEF longer, n
  <1>2. /\ f \in [1 .. n -> Nat] /\ u \in [1 .. n -> Nat]
        /\ g \in [1 .. n + 1 -> Nat] /\ v \in [1 .. n + 1 -> Nat]
    <2>1. \A k \in 1 .. n + 1 : longer[k] \in Entry
      <3>1. \A k \in 1 .. n + 1 : k \in 1 .. n \/ k = n + 1
        BY <1>1
      <3>2. QED BY <1>1, <3>1
    <2>2. QED BY <1>1, <2>1 DEF Entry
  <1>3. /\ \A k \in 1 .. n : g[k] = f[k] /\ v[k] = u[k]
        /\ g[n + 1] = (IF e.type \in T THEN e.amount ELSE 0)
        /\ v[n + 1] = (IF e.type \in T THEN e.reserved ELSE 0)
    BY <1>1
  <1>4. /\ AmountIn(entries, T) = SumFunction(f) /\ ReservedIn(entries, T) = SumFunction(u)
        /\ AmountIn(longer, T) = SumFunction(g) /\ ReservedIn(longer, T) = SumFunction(v)
    BY <1>1 DEF AmountIn, ReservedIn, n
  <1> HIDE DEF f, g, u, v
  <1>5. SumFunction(f) \in Nat /\ SumFunction(u) \in Nat
    <2>1. IsFiniteSet(1 .. n)
      BY <1>1, FS_Interval
    <2>2. QED BY <1>2, <2>1, SumIsNatural
  <1>6. SumFunction(g) = SumFunction(f) + g[n + 1] /\ SumFunction(v) = SumFunction(u) + v[n + 1]
    <2>1. f \in [1 .. n -> Int] /\ u \in [1 .. n -> Int]
          /\ g \in [1 .. n + 1 -> Int] /\ v \in [1 .. n + 1 -> Int]
      BY <1>2
    <2>2. (\A k \in 1 .. n : g[k] = f[k]) /\ (\A k \in 1 .. n : v[k] = u[k])
      BY <1>3
    <2>3. SumFunction(g) = SumFunction(f) + g[n + 1]
      BY <1>1, <2>1, <2>2, SumAppend
    <2>4. SumFunction(v) = SumFunction(u) + v[n + 1]
      BY <1>1, <2>1, <2>2, SumAppend
    <2>5. QED BY <2>3, <2>4
  <1>7. QED BY <1>3, <1>4, <1>5, <1>6 DEF longer

\* What a reservation counts for is a natural number.
LEMMA CountsType ==
  ASSUME NEW r \in Reservation
  PROVE  /\ \A s : Held(r, s) \in Nat /\ Charged(r, s) \in Nat
         /\ Exceeds(r) \in Nat /\ Costs(r) \in Nat
  <1>1. Exceeds(r) \in Nat
    BY MaxOfTwo DEF Reservation, Exceeds
  <1>2. QED BY <1>1 DEF Reservation, Held, Charged, Costs

\* A total over the calls, and one in which a single call counts differently.
LEMMA CallCounts ==
  ASSUME NEW c \in Calls, NEW f \in [Calls -> Nat], NEW g \in [Calls -> Nat],
         \A d \in Calls \ {c} : g[d] = f[d]
  PROVE  SumFunction(f) \in Nat /\ SumFunction(g) = SumFunction(f) - f[c] + g[c]
  <1>1. IsFiniteSet(Calls)
    BY BudgetAssumption
  <1>2. f \in [Calls -> Int] /\ g \in [Calls -> Int]
    OBVIOUS
  <1>3. SumFunction(f) \in Nat
    BY <1>1, SumIsNatural
  <1>4. SumFunction(g) = SumFunction(f) - f[c] + g[c]
    BY <1>1, <1>2, SumChange
  <1>5. QED BY <1>3, <1>4

\* A reservation that changes counts by the difference in what is held.
LEMMA HeldChanges ==
  ASSUME NEW before \in [Calls -> Reservation], NEW after \in [Calls -> Reservation],
         NEW c \in Calls, \A d \in Calls \ {c} : after[d] = before[d], NEW s
  PROVE  HeldBy(after, s) = HeldBy(before, s) - Held(before[c], s) + Held(after[c], s)
  <1> DEFINE f == [d \in Calls |-> Held(before[d], s)]
             g == [d \in Calls |-> Held(after[d], s)]
  <1>1. \A d \in Calls : before[d] \in Reservation /\ after[d] \in Reservation
    OBVIOUS
  <1>2. f \in [Calls -> Nat] /\ g \in [Calls -> Nat] /\ \A d \in Calls \ {c} : g[d] = f[d]
    BY <1>1, CountsType
  <1>3. f[c] = Held(before[c], s) /\ g[c] = Held(after[c], s)
    OBVIOUS
  <1>4. HeldBy(before, s) = SumFunction(f) /\ HeldBy(after, s) = SumFunction(g)
    BY DEF HeldBy
  <1> HIDE DEF f, g
  <1>5. QED BY <1>2, <1>3, <1>4, CallCounts

\* It counts by the difference in what was charged.
LEMMA ChargedChanges ==
  ASSUME NEW before \in [Calls -> Reservation], NEW after \in [Calls -> Reservation],
         NEW c \in Calls, \A d \in Calls \ {c} : after[d] = before[d], NEW s
  PROVE  ChargedTo(after, s) = ChargedTo(before, s) - Charged(before[c], s) + Charged(after[c], s)
  <1> DEFINE f == [d \in Calls |-> Charged(before[d], s)]
             g == [d \in Calls |-> Charged(after[d], s)]
  <1>1. \A d \in Calls : before[d] \in Reservation /\ after[d] \in Reservation
    OBVIOUS
  <1>2. f \in [Calls -> Nat] /\ g \in [Calls -> Nat] /\ \A d \in Calls \ {c} : g[d] = f[d]
    BY <1>1, CountsType
  <1>3. f[c] = Charged(before[c], s) /\ g[c] = Charged(after[c], s)
    OBVIOUS
  <1>4. ChargedTo(before, s) = SumFunction(f) /\ ChargedTo(after, s) = SumFunction(g)
    BY DEF ChargedTo
  <1> HIDE DEF f, g
  <1>5. QED BY <1>2, <1>3, <1>4, CallCounts

\* It counts by the difference in what exceeded the reservations.
LEMMA ExceededChanges ==
  ASSUME NEW before \in [Calls -> Reservation], NEW after \in [Calls -> Reservation],
         NEW c \in Calls, \A d \in Calls \ {c} : after[d] = before[d]
  PROVE  ExceededBy(after) = ExceededBy(before) - Exceeds(before[c]) + Exceeds(after[c])
  <1> DEFINE f == [d \in Calls |-> Exceeds(before[d])]
             g == [d \in Calls |-> Exceeds(after[d])]
  <1>1. \A d \in Calls : before[d] \in Reservation /\ after[d] \in Reservation
    OBVIOUS
  <1>2. f \in [Calls -> Nat] /\ g \in [Calls -> Nat] /\ \A d \in Calls \ {c} : g[d] = f[d]
    BY <1>1, CountsType
  <1>3. f[c] = Exceeds(before[c]) /\ g[c] = Exceeds(after[c])
    OBVIOUS
  <1>4. ExceededBy(before) = SumFunction(f) /\ ExceededBy(after) = SumFunction(g)
    BY DEF ExceededBy
  <1> HIDE DEF f, g
  <1>5. QED BY <1>2, <1>3, <1>4, CallCounts

\* It counts by the difference in what the calls cost.
LEMMA CostChanges ==
  ASSUME NEW before \in [Calls -> Reservation], NEW after \in [Calls -> Reservation],
         NEW c \in Calls, \A d \in Calls \ {c} : after[d] = before[d]
  PROVE  CostOf(after) = CostOf(before) - Costs(before[c]) + Costs(after[c])
  <1> DEFINE f == [d \in Calls |-> Costs(before[d])]
             g == [d \in Calls |-> Costs(after[d])]
  <1>1. \A d \in Calls : before[d] \in Reservation /\ after[d] \in Reservation
    OBVIOUS
  <1>2. f \in [Calls -> Nat] /\ g \in [Calls -> Nat] /\ \A d \in Calls \ {c} : g[d] = f[d]
    BY <1>1, CountsType
  <1>3. f[c] = Costs(before[c]) /\ g[c] = Costs(after[c])
    OBVIOUS
  <1>4. CostOf(before) = SumFunction(f) /\ CostOf(after) = SumFunction(g)
    BY DEF CostOf
  <1> HIDE DEF f, g
  <1>5. QED BY <1>2, <1>3, <1>4, CallCounts

-----------------------------------------------------------------------------
(* The invariant of one account                                            *)

\* What an account looks like, and what its ledger and its reservations sum up to.
Account == [state : {"open", "frozen_overage"}, pending : BOOLEAN, revision : Nat \ {0},
            last : Nat, entries : Seq(Entry), reservations : [Calls -> Reservation]]

GivenIn(entries) == AmountIn(entries, {"authorization_initial", "authorization_added"})
TakenIn(entries) == AmountIn(entries, {"reservation_created"})
ReturnedIn(entries) ==
    ReservedIn(entries, {"reservation_released", "usage_settled", "unknown_committed"})
KnownIn(entries) == AmountIn(entries, {"usage_settled"})
UncertainIn(entries) == AmountIn(entries, {"unknown_committed"})
OverageIn(entries) == AmountIn(entries, {"usage_overage_recorded"})

ActiveBy(reservations)    == HeldBy(reservations, "active")
KnownBy(reservations)     == ChargedTo(reservations, "settled_known")
UncertainBy(reservations) == ChargedTo(reservations, "settled_uncertain")

\* The ledger says what the reservations say, also before "active" is clamped;
\* what was given back was reserved before.
Balanced(entries, reservations) ==
    /\ TakenIn(entries) - ReturnedIn(entries) = ActiveBy(reservations)
    /\ KnownIn(entries) = KnownBy(reservations)
    /\ UncertainIn(entries) = UncertainBy(reservations)
    /\ OverageIn(entries) = ExceededBy(reservations)
    /\ CostOf(reservations) = ActiveBy(reservations) + KnownBy(reservations) + UncertainBy(reservations)

\* An account that is not blocked is covered, and a call that never reserved
\* cost nothing.
Sound(b) ==
    /\ b \in Account
    /\ Balanced(b.entries, b.reservations)
    /\ IsBlocked(b) \/ CostOf(b.reservations) <= GivenIn(b.entries)
    /\ \A c \in Calls : b.reservations[c].state = "none" => b.reservations[c].actual = 0

\* What an entry adds to the totals of a ledger.
Adds(entries, e, longer) ==
    /\ longer \in Seq(Entry)
    /\ GivenIn(entries) \in Nat /\ TakenIn(entries) \in Nat /\ ReturnedIn(entries) \in Nat
    /\ KnownIn(entries) \in Nat /\ UncertainIn(entries) \in Nat /\ OverageIn(entries) \in Nat
    /\ GivenIn(longer) = GivenIn(entries)
          + (IF e.type \in {"authorization_initial", "authorization_added"} THEN e.amount ELSE 0)
    /\ TakenIn(longer) = TakenIn(entries)
          + (IF e.type = "reservation_created" THEN e.amount ELSE 0)
    /\ ReturnedIn(longer) = ReturnedIn(entries)
          + (IF e.type \in {"reservation_released", "usage_settled", "unknown_committed"}
             THEN e.reserved ELSE 0)
    /\ KnownIn(longer) = KnownIn(entries) + (IF e.type = "usage_settled" THEN e.amount ELSE 0)
    /\ UncertainIn(longer) = UncertainIn(entries)
          + (IF e.type = "unknown_committed" THEN e.amount ELSE 0)
    /\ OverageIn(longer) = OverageIn(entries)
          + (IF e.type = "usage_overage_recorded" THEN e.amount ELSE 0)

\* The totals of a ledger with one more entry.
LEMMA Appended ==
  ASSUME NEW entries \in Seq(Entry), NEW e \in Entry, NEW longer, longer = Append(entries, e)
  PROVE  Adds(entries, e, longer)
  <1>1. longer \in Seq(Entry)
    OBVIOUS
  <1>2. GivenIn(entries) \in Nat /\ GivenIn(longer) = GivenIn(entries)
               + (IF e.type \in {"authorization_initial", "authorization_added"} THEN e.amount ELSE 0)
    BY EntryAdds DEF GivenIn
  <1>3. TakenIn(entries) \in Nat /\ TakenIn(longer) = TakenIn(entries)
               + (IF e.type = "reservation_created" THEN e.amount ELSE 0)
    BY EntryAdds DEF TakenIn
  <1>4. ReturnedIn(entries) \in Nat /\ ReturnedIn(longer) = ReturnedIn(entries)
               + (IF e.type \in {"reservation_released", "usage_settled", "unknown_committed"}
                  THEN e.reserved ELSE 0)
    BY EntryAdds DEF ReturnedIn
  <1>5. KnownIn(entries) \in Nat /\ KnownIn(longer) = KnownIn(entries)
               + (IF e.type = "usage_settled" THEN e.amount ELSE 0)
    BY EntryAdds DEF KnownIn
  <1>6. UncertainIn(entries) \in Nat /\ UncertainIn(longer) = UncertainIn(entries)
               + (IF e.type = "unknown_committed" THEN e.amount ELSE 0)
    BY EntryAdds DEF UncertainIn
  <1>7. OverageIn(entries) \in Nat /\ OverageIn(longer) = OverageIn(entries)
               + (IF e.type = "usage_overage_recorded" THEN e.amount ELSE 0)
    BY EntryAdds DEF OverageIn
  <1>8. QED BY <1>1, <1>2, <1>3, <1>4, <1>5, <1>6, <1>7 DEF Adds

\* The totals of the reservations are natural numbers.
LEMMA ReservationTotals ==
  ASSUME NEW reservations \in [Calls -> Reservation]
  PROVE  /\ ActiveBy(reservations) \in Nat /\ KnownBy(reservations) \in Nat
         /\ UncertainBy(reservations) \in Nat
         /\ ExceededBy(reservations) \in Nat /\ CostOf(reservations) \in Nat
  <1> DEFINE held(s)    == [c \in Calls |-> Held(reservations[c], s)]
             charged(s) == [c \in Calls |-> Charged(reservations[c], s)]
             exceeds    == [c \in Calls |-> Exceeds(reservations[c])]
             costs      == [c \in Calls |-> Costs(reservations[c])]
  <1>1. IsFiniteSet(Calls) /\ \A c \in Calls : reservations[c] \in Reservation
    BY BudgetAssumption
  <1>2. /\ \A s : held(s) \in [Calls -> Nat] /\ charged(s) \in [Calls -> Nat]
        /\ exceeds \in [Calls -> Nat] /\ costs \in [Calls -> Nat]
    BY <1>1, CountsType
  <1>3. /\ ActiveBy(reservations) = SumFunction(held("active"))
        /\ KnownBy(reservations) = SumFunction(charged("settled_known"))
        /\ UncertainBy(reservations) = SumFunction(charged("settled_uncertain"))
        /\ ExceededBy(reservations) = SumFunction(exceeds)
        /\ CostOf(reservations) = SumFunction(costs)
    BY DEF ActiveBy, KnownBy, UncertainBy, HeldBy, ChargedTo, ExceededBy, CostOf
  <1>4. \A f \in [Calls -> Nat] : SumFunction(f) \in Nat
    BY <1>1, SumIsNatural
  <1> HIDE DEF held, charged, exceeds, costs
  <1>5. QED BY <1>2, <1>3, <1>4

\* The totals of the reservations after one of them changed.
LEMMA Replaced ==
  ASSUME NEW before \in [Calls -> Reservation], NEW c \in Calls, NEW r \in Reservation,
         NEW after, after = [before EXCEPT ![c] = r]
  PROVE  /\ after \in [Calls -> Reservation]
         /\ ActiveBy(before) \in Nat /\ KnownBy(before) \in Nat /\ UncertainBy(before) \in Nat
         /\ ExceededBy(before) \in Nat /\ CostOf(before) \in Nat
         /\ ActiveBy(after) = ActiveBy(before) - Held(before[c], "active") + Held(r, "active")
         /\ KnownBy(after) = KnownBy(before) - Charged(before[c], "settled_known")
               + Charged(r, "settled_known")
         /\ UncertainBy(after) = UncertainBy(before) - Charged(before[c], "settled_uncertain")
               + Charged(r, "settled_uncertain")
         /\ ExceededBy(after) = ExceededBy(before) - Exceeds(before[c]) + Exceeds(r)
         /\ CostOf(after) = CostOf(before) - Costs(before[c]) + Costs(r)
  <1>1. /\ after \in [Calls -> Reservation] /\ after[c] = r
        /\ \A d \in Calls \ {c} : after[d] = before[d]
    OBVIOUS
  <1>2. \A s : HeldBy(after, s) = HeldBy(before, s) - Held(before[c], s) + Held(after[c], s)
    BY <1>1, HeldChanges
  <1>3. \A s : ChargedTo(after, s) =
             ChargedTo(before, s) - Charged(before[c], s) + Charged(after[c], s)
    BY <1>1, ChargedChanges
  <1>4. /\ ActiveBy(after) = ActiveBy(before) - Held(before[c], "active") + Held(r, "active")
        /\ KnownBy(after) = KnownBy(before) - Charged(before[c], "settled_known")
               + Charged(r, "settled_known")
        /\ UncertainBy(after) = UncertainBy(before) - Charged(before[c], "settled_uncertain")
               + Charged(r, "settled_uncertain")
    <2>1. HeldBy(after, "active") =
             HeldBy(before, "active") - Held(before[c], "active") + Held(after[c], "active")
      BY <1>2
    <2>2. ChargedTo(after, "settled_known") = ChargedTo(before, "settled_known")
             - Charged(before[c], "settled_known") + Charged(after[c], "settled_known")
      BY <1>3
    <2>3. ChargedTo(after, "settled_uncertain") = ChargedTo(before, "settled_uncertain")
             - Charged(before[c], "settled_uncertain") + Charged(after[c], "settled_uncertain")
      BY <1>3
    <2>4. QED BY <1>1, <2>1, <2>2, <2>3 DEF ActiveBy, KnownBy, UncertainBy
  <1>5. /\ ExceededBy(after) = ExceededBy(before) - Exceeds(before[c]) + Exceeds(r)
        /\ CostOf(after) = CostOf(before) - Costs(before[c]) + Costs(r)
    BY <1>1, ExceededChanges, CostChanges
  <1>6. QED BY <1>1, <1>4, <1>5, ReservationTotals

\* What Budget computes from an account with a balanced ledger.
LEMMA Projection ==
  ASSUME NEW b \in Account, Balanced(b.entries, b.reservations)
  PROVE  /\ Authorized(b) = GivenIn(b.entries) /\ Authorized(b) \in Nat
         /\ Active(b) = ActiveBy(b.reservations)
         /\ Known(b) = KnownBy(b.reservations) /\ Uncertain(b) = UncertainBy(b.reservations)
         /\ Overage(b) = ExceededBy(b.reservations)
         /\ Committed(b) = CostOf(b.reservations) /\ Committed(b) \in Nat
         /\ ~IsBlocked(b) /\ Spendable(b) > 0 =>
               Spendable(b) = Authorized(b) - Committed(b)
  <1> DEFINE E == b.entries
             R == b.reservations
  <1>1. E \in Seq(Entry) /\ R \in [Calls -> Reservation]
    BY DEF Account
  <1>2. PICK e : e \in Entry
    <2>1. [type |-> "freeze_applied", amount |-> 0, reserved |-> 0, sequence |-> 1] \in Entry
      BY DEF Entry, EntryTypes
    <2>2. QED BY <2>1
  <1>3. /\ GivenIn(E) \in Nat /\ TakenIn(E) \in Nat /\ ReturnedIn(E) \in Nat
        /\ KnownIn(E) \in Nat /\ UncertainIn(E) \in Nat /\ OverageIn(E) \in Nat
    <2>1. Adds(E, e, Append(E, e))
      BY <1>1, <1>2, Appended
    <2>2. QED BY <2>1 DEF Adds
  <1>4. /\ ActiveBy(R) \in Nat /\ KnownBy(R) \in Nat /\ UncertainBy(R) \in Nat
        /\ ExceededBy(R) \in Nat /\ CostOf(R) \in Nat
    BY <1>1, ReservationTotals
  <1>5. /\ Authorized(b) = GivenIn(E) /\ Known(b) = KnownIn(E) /\ Uncertain(b) = UncertainIn(E)
        /\ Overage(b) = OverageIn(E)
    BY Totals DEF Authorized, Known, Uncertain, Overage, GivenIn, KnownIn, UncertainIn, OverageIn
  <1>6. Active(b) = ActiveBy(R)
    <2>1. Active(b) = Max({0, TakenIn(E) - ReturnedIn(E)})
      BY Totals DEF Active, TakenIn, ReturnedIn
    <2>2. TakenIn(E) - ReturnedIn(E) = ActiveBy(R)
      BY DEF Balanced
    <2>3. QED BY <1>4, <2>1, <2>2, MaxOfTwo
  <1>7. Known(b) = KnownBy(R) /\ Uncertain(b) = UncertainBy(R) /\ Overage(b) = ExceededBy(R)
    BY <1>5 DEF Balanced
  <1>8. Committed(b) = CostOf(R)
    BY <1>4, <1>6, <1>7 DEF Committed, Balanced
  <1>9. ~IsBlocked(b) /\ Spendable(b) > 0 => Spendable(b) = Authorized(b) - Committed(b)
    <2>1. Authorized(b) - Committed(b) \in Int
      BY <1>3, <1>4, <1>5, <1>8
    <2>2. QED BY <2>1, MaxOfTwo DEF Spendable
  <1>10. QED BY <1>3, <1>4, <1>5, <1>6, <1>7, <1>8, <1>9

-----------------------------------------------------------------------------
(* Each operation keeps a sound account sound and appends to its ledger    *)

\* The ledger of d begins with the ledger of b.
Longer(b, d) ==
    /\ Len(b.entries) <= Len(d.entries)
    /\ \A k \in 1 .. Len(b.entries) : d.entries[k] = b.entries[k]

Line(b, type, amount, reserved) ==
    [type |-> type, amount |-> amount, reserved |-> reserved, sequence |-> b.last + 1]

\* The entries with one more line.
Extra(b, type, amount, reserved) == Append(b.entries, Line(b, type, amount, reserved))

\* What Log does to an account.
LEMMA Logged ==
  \A b \in Account, type \in EntryTypes, amount \in Nat, reserved \in Nat :
      \A d : d = Log(b, type, amount, reserved) =>
          /\ Line(b, type, amount, reserved) \in Entry
          /\ d \in Account /\ d.entries = Extra(b, type, amount, reserved)
          /\ d.reservations = b.reservations /\ (IsBlocked(d) <=> IsBlocked(b))
          /\ Longer(b, d)
  <1> TAKE b \in Account, type \in EntryTypes, amount \in Nat, reserved \in Nat
  <1> TAKE d
  <1> HAVE d = Log(b, type, amount, reserved)
  <1> DEFINE line == Line(b, type, amount, reserved)
  <1>0. b.entries \in Seq(Entry) /\ b.last \in Nat /\ b.revision \in Nat \ {0}
    BY DEF Account
  <1>1. line \in Entry
    BY <1>0 DEF Line, Entry
  <1>2. d = [b EXCEPT !.entries = Append(b.entries, line), !.last = b.last + 1,
                      !.revision = b.revision + 1]
    BY DEF Log, Line, Account
  <1> DEFINE longer == Append(b.entries, line)
  <1>3. /\ longer \in Seq(Entry) /\ Len(longer) = Len(b.entries) + 1 /\ Len(b.entries) \in Nat
        /\ \A k \in 1 .. Len(b.entries) : longer[k] = b.entries[k]
    <2> HIDE DEF line
    <2>1. QED BY <1>0, <1>1
  <1> HIDE DEF line, longer
  <1>4. d = [b EXCEPT !.entries = longer, !.last = b.last + 1, !.revision = b.revision + 1]
    BY <1>2 DEF longer
  <1>5. d \in Account
    <2>1. d = [state |-> b.state, pending |-> b.pending, revision |-> b.revision + 1,
               last |-> b.last + 1, entries |-> longer, reservations |-> b.reservations]
      BY <1>4 DEF Account
    <2>2. /\ b.state \in {"open", "frozen_overage"} /\ b.pending \in BOOLEAN
          /\ b.reservations \in [Calls -> Reservation]
          /\ b.last + 1 \in Nat /\ b.revision + 1 \in Nat \ {0}
      BY <1>0 DEF Account
    <2>3. QED BY <1>3, <2>1, <2>2 DEF Account
  <1>6. d.entries = longer /\ d.reservations = b.reservations /\ (IsBlocked(d) <=> IsBlocked(b))
    BY <1>4 DEF Account, IsBlocked
  <1>7. Longer(b, d)
    BY <1>3, <1>6 DEF Longer
  <1>8. QED BY <1>1, <1>5, <1>6, <1>7 DEF line, longer, Extra

\* What one entry and one reservation change together.
Change(b, c, r, type, amount, reserved) ==
    Log([b EXCEPT !.reservations = [@ EXCEPT ![c] = r]], type, amount, reserved)

\* The account after such a change.
LEMMA Changed ==
  \A b \in Account, c \in Calls, r \in Reservation, type \in EntryTypes, amount \in Nat, reserved \in Nat :
      \A d : d = Change(b, c, r, type, amount, reserved) =>
          /\ Line(b, type, amount, reserved) \in Entry
          /\ d \in Account /\ d.entries = Extra(b, type, amount, reserved)
          /\ d.reservations = [b.reservations EXCEPT ![c] = r]
          /\ (IsBlocked(d) <=> IsBlocked(b))
          /\ Longer(b, d)
  <1> TAKE b \in Account, c \in Calls, r \in Reservation, type \in EntryTypes, amount \in Nat, reserved \in Nat
  <1> TAKE d
  <1> HAVE d = Change(b, c, r, type, amount, reserved)
  <1> DEFINE after == [b.reservations EXCEPT ![c] = r]
  <1>1. after \in [Calls -> Reservation]
    BY DEF Account
  <1> HIDE DEF after
  <1>7. PICK a : a = [b EXCEPT !.reservations = after]
    OBVIOUS
  <1>2. /\ a \in Account /\ a.reservations = after /\ a.entries = b.entries /\ a.last = b.last
        /\ (IsBlocked(a) <=> IsBlocked(b))
    BY <1>1, <1>7 DEF Account, IsBlocked
  <1>3. d = Log(a, type, amount, reserved)
    BY <1>7 DEF Change, after, Account
  <1>4. Line(a, type, amount, reserved) = Line(b, type, amount, reserved)
    BY <1>2 DEF Line
  <1>8. Extra(a, type, amount, reserved) = Extra(b, type, amount, reserved)
    BY <1>2, <1>4 DEF Extra
  <1>5. /\ Line(a, type, amount, reserved) \in Entry /\ d \in Account
        /\ d.entries = Extra(a, type, amount, reserved)
        /\ d.reservations = a.reservations /\ (IsBlocked(d) <=> IsBlocked(a))
        /\ Longer(a, d)
    <2>1. a \in Account
      BY <1>2
    <2>2. QED BY <1>3, <2>1, Logged
  <1>6. QED BY <1>2, <1>4, <1>8, <1>5 DEF after, Longer

\* The totals after such a change: what the line adds to the ledger's, and the
\* reservation to those of the calls.
Moved(b, d, c, r, type, amount, reserved) ==
    LET E == b.entries
        F == d.entries
        R == b.reservations
        S == d.reservations
        old == R[c]
    IN
    /\ GivenIn(E) \in Nat /\ TakenIn(E) \in Nat /\ ReturnedIn(E) \in Nat
    /\ KnownIn(E) \in Nat /\ UncertainIn(E) \in Nat /\ OverageIn(E) \in Nat
    /\ ActiveBy(R) \in Nat /\ KnownBy(R) \in Nat /\ UncertainBy(R) \in Nat
    /\ ExceededBy(R) \in Nat /\ CostOf(R) \in Nat
    /\ GivenIn(F) = GivenIn(E)
          + (IF type \in {"authorization_initial", "authorization_added"} THEN amount ELSE 0)
    /\ TakenIn(F) = TakenIn(E) + (IF type = "reservation_created" THEN amount ELSE 0)
    /\ ReturnedIn(F) = ReturnedIn(E)
          + (IF type \in {"reservation_released", "usage_settled", "unknown_committed"}
             THEN reserved ELSE 0)
    /\ KnownIn(F) = KnownIn(E) + (IF type = "usage_settled" THEN amount ELSE 0)
    /\ UncertainIn(F) = UncertainIn(E) + (IF type = "unknown_committed" THEN amount ELSE 0)
    /\ OverageIn(F) = OverageIn(E) + (IF type = "usage_overage_recorded" THEN amount ELSE 0)
    /\ ActiveBy(S) = ActiveBy(R) - Held(old, "active") + Held(r, "active")
    /\ KnownBy(S) = KnownBy(R) - Charged(old, "settled_known") + Charged(r, "settled_known")
    /\ UncertainBy(S) = UncertainBy(R) - Charged(old, "settled_uncertain")
          + Charged(r, "settled_uncertain")
    /\ ExceededBy(S) = ExceededBy(R) - Exceeds(old) + Exceeds(r)
    /\ CostOf(S) = CostOf(R) - Costs(old) + Costs(r)

\* Change moves the totals in this way.
LEMMA ChangeTotals ==
  ASSUME NEW b \in Account, NEW c \in Calls, NEW r \in Reservation, NEW type \in EntryTypes,
         NEW amount \in Nat, NEW reserved \in Nat,
         NEW d, d = Change(b, c, r, type, amount, reserved)
  PROVE  Moved(b, d, c, r, type, amount, reserved)
  <1> DEFINE E == b.entries
             F == d.entries
             R == b.reservations
             S == d.reservations
             line == Line(b, type, amount, reserved)
  <1>1. E \in Seq(Entry) /\ R \in [Calls -> Reservation]
    BY DEF Account
  <1>2. line \in Entry /\ F = Append(E, line) /\ S = [R EXCEPT ![c] = r]
    BY Changed DEF Extra
  <1>3. line.type = type /\ line.amount = amount /\ line.reserved = reserved
    BY DEF Line
  <1> HIDE DEF E, F, R, S, line
  <1>4. /\ GivenIn(E) \in Nat /\ TakenIn(E) \in Nat /\ ReturnedIn(E) \in Nat
        /\ KnownIn(E) \in Nat /\ UncertainIn(E) \in Nat /\ OverageIn(E) \in Nat
        /\ GivenIn(F) = GivenIn(E)
              + (IF type \in {"authorization_initial", "authorization_added"} THEN amount ELSE 0)
        /\ TakenIn(F) = TakenIn(E) + (IF type = "reservation_created" THEN amount ELSE 0)
        /\ ReturnedIn(F) = ReturnedIn(E)
              + (IF type \in {"reservation_released", "usage_settled", "unknown_committed"}
                 THEN reserved ELSE 0)
        /\ KnownIn(F) = KnownIn(E) + (IF type = "usage_settled" THEN amount ELSE 0)
        /\ UncertainIn(F) = UncertainIn(E) + (IF type = "unknown_committed" THEN amount ELSE 0)
        /\ OverageIn(F) = OverageIn(E) + (IF type = "usage_overage_recorded" THEN amount ELSE 0)
    <2>1. Adds(E, line, F)
      BY <1>1, <1>2, Appended
    <2>2. QED BY <1>3, <2>1 DEF Adds
  <1>5. /\ ActiveBy(R) \in Nat /\ KnownBy(R) \in Nat /\ UncertainBy(R) \in Nat
        /\ ExceededBy(R) \in Nat /\ CostOf(R) \in Nat
        /\ ActiveBy(S) = ActiveBy(R) - Held(R[c], "active") + Held(r, "active")
        /\ KnownBy(S) = KnownBy(R) - Charged(R[c], "settled_known") + Charged(r, "settled_known")
        /\ UncertainBy(S) = UncertainBy(R) - Charged(R[c], "settled_uncertain")
              + Charged(r, "settled_uncertain")
        /\ ExceededBy(S) = ExceededBy(R) - Exceeds(R[c]) + Exceeds(r)
        /\ CostOf(S) = CostOf(R) - Costs(R[c]) + Costs(r)
    BY <1>1, <1>2, Replaced
  <1>6. QED BY <1>4, <1>5 DEF E, F, R, S, Moved

\* What an operation on a call does: the account stays sound, its ledger is
\* continued, the call's reservation becomes r, the authorization is the same.
Settles(b, c, r, d) ==
    /\ Sound(d)
    /\ Longer(b, d)
    /\ d.reservations = [b.reservations EXCEPT ![c] = r]
    /\ GivenIn(d.entries) = GivenIn(b.entries)

Holding(n)  == [state |-> "active", amount |-> n, actual |-> 0]
Closed(reservation, s, n) == [state |-> s, amount |-> reservation.amount, actual |-> n]

\* A reservation within what is left keeps the account covered.
LEMMA ReservingKeeps ==
  ASSUME NEW b, Sound(b), NEW c \in Calls, NEW n \in Nat, ~IsBlocked(b),
         b.reservations[c].state = "none",
         CostOf(b.reservations) + n <= GivenIn(b.entries)
  PROVE  /\ Settles(b, c, Holding(n), Reserved(b, c, n))
         /\ ~IsBlocked(Reserved(b, c, n))
  <1> DEFINE r == Holding(n)
             d == Reserved(b, c, n)
             old == b.reservations[c]
  <1>1. b \in Account /\ old \in Reservation /\ b.reservations \in [Calls -> Reservation]
        /\ old.actual = 0
    BY DEF Sound, Account
  <1>2. r \in Reservation
    BY DEF Reservation, Holding
  <1>3. d = Change(b, c, r, "reservation_created", n, 0)
    BY <1>1 DEF Change, Reserved, Holding, Account
  <1>4. "reservation_created" \in EntryTypes
    BY DEF EntryTypes
  <1>5. /\ Held(old, "active") = 0 /\ Held(r, "active") = n
        /\ Charged(old, "settled_known") = 0 /\ Charged(r, "settled_known") = 0
        /\ Charged(old, "settled_uncertain") = 0 /\ Charged(r, "settled_uncertain") = 0
        /\ Exceeds(old) = 0 /\ Exceeds(r) = 0 /\ Costs(old) = 0 /\ Costs(r) = n
    BY <1>1 DEF Held, Charged, Exceeds, Costs, Holding
  <1>6. r.state = "active"
    BY DEF Holding
  <1> HIDE DEF r, d
  <1>7. /\ d \in Account /\ d.reservations = [b.reservations EXCEPT ![c] = r]
        /\ Longer(b, d) /\ ~IsBlocked(d)
    BY <1>1, <1>2, <1>3, <1>4, Changed
  <1>8. Balanced(d.entries, d.reservations) /\ GivenIn(d.entries) = GivenIn(b.entries)
        /\ CostOf(d.reservations) <= GivenIn(d.entries)
    <2>1. Moved(b, d, c, r, "reservation_created", n, 0)
      BY <1>1, <1>2, <1>3, <1>4, ChangeTotals
    <2>2. Balanced(b.entries, b.reservations)
      BY DEF Sound
    <2>3. QED BY <1>5, <2>1, <2>2 DEF Moved, Balanced
  <1>9. \A x \in Calls : d.reservations[x].state = "none" => d.reservations[x].actual = 0
    BY <1>1, <1>6, <1>7 DEF Sound
  <1>10. QED BY <1>7, <1>8, <1>9 DEF Settles, Sound, r, d

\* How a reservation is closed: the state it gets and what is charged for it,
\* with the line that records it.
Closing(reservation, s, n, type, charge) ==
    \/ s = "released" /\ n = reservation.actual
       /\ type = "reservation_released" /\ charge = reservation.amount
    \/ s = "settled_known" /\ type = "usage_settled" /\ charge = n
    \/ s = "settled_uncertain" /\ type = "unknown_committed" /\ charge = n

\* Closing a reservation keeps the ledger balanced, but for the overage; the
\* call now costs what it was charged instead of what it held.
Closes(b, c, s, n, d) ==
    /\ d \in Account /\ Longer(b, d) /\ (IsBlocked(d) <=> IsBlocked(b))
    /\ d.reservations = [b.reservations EXCEPT ![c] = Closed(b.reservations[c], s, n)]
    /\ s # "none"
    /\ GivenIn(d.entries) = GivenIn(b.entries) /\ GivenIn(b.entries) \in Nat
    /\ OverageIn(d.entries) = ExceededBy(b.reservations) /\ ExceededBy(b.reservations) \in Nat
    /\ ExceededBy(d.reservations) = ExceededBy(b.reservations)
          + (IF s = "settled_known" /\ n > b.reservations[c].amount
             THEN n - b.reservations[c].amount ELSE 0)
    /\ TakenIn(d.entries) - ReturnedIn(d.entries) = ActiveBy(d.reservations)
    /\ KnownIn(d.entries) = KnownBy(d.reservations)
    /\ UncertainIn(d.entries) = UncertainBy(d.reservations)
    /\ CostOf(d.reservations) = ActiveBy(d.reservations) + KnownBy(d.reservations)
          + UncertainBy(d.reservations)
    /\ CostOf(d.reservations) = CostOf(b.reservations) - b.reservations[c].amount
          + (IF s = "released" THEN 0 ELSE n)
    /\ CostOf(b.reservations) \in Nat

\* A line that closes a reservation has this effect.
LEMMA ClosingCounts ==
  ASSUME NEW b \in Account, Balanced(b.entries, b.reservations),
         NEW c \in Calls, b.reservations[c].state = "active",
         NEW s, NEW n \in Nat, NEW type, NEW charge,
         Closing(b.reservations[c], s, n, type, charge),
         NEW d,
         d = Change(b, c, Closed(b.reservations[c], s, n), type, charge, b.reservations[c].amount)
  PROVE  Closes(b, c, s, n, d)
  <1> DEFINE old == b.reservations[c]
             r == Closed(old, s, n)
  <1>1. old \in Reservation /\ old.amount \in Nat /\ old.state = "active"
    BY DEF Account, Reservation
  <1>2. r \in Reservation /\ r.state = s /\ r.amount = old.amount /\ r.actual = n /\ s # "none"
    BY <1>1 DEF Reservation, Closed, Closing
  <1>3. type \in EntryTypes /\ charge \in Nat
    BY <1>1 DEF Closing, EntryTypes
  <1>4. /\ Held(old, "active") = old.amount /\ Held(r, "active") = 0
        /\ Charged(old, "settled_known") = 0
        /\ Charged(r, "settled_known") = (IF s = "settled_known" THEN n ELSE 0)
        /\ Charged(old, "settled_uncertain") = 0
        /\ Charged(r, "settled_uncertain") = (IF s = "settled_uncertain" THEN n ELSE 0)
        /\ Exceeds(old) = 0
        /\ Costs(old) = old.amount /\ Costs(r) = (IF s = "released" THEN 0 ELSE n)
    BY <1>1, <1>2 DEF Held, Charged, Exceeds, Costs, Closing
  <1>5. Exceeds(r) = IF s = "settled_known" /\ n > old.amount THEN n - old.amount ELSE 0
    BY <1>1, <1>2, MaxOfTwo DEF Exceeds
  <1> HIDE DEF r
  <1>6. /\ d \in Account /\ Longer(b, d) /\ (IsBlocked(d) <=> IsBlocked(b))
        /\ d.reservations = [b.reservations EXCEPT ![c] = r]
    BY <1>1, <1>2, <1>3, Changed DEF r
  <1>7. Moved(b, d, c, r, type, charge, old.amount)
    BY <1>1, <1>2, <1>3, ChangeTotals DEF r
  <1>8. /\ GivenIn(d.entries) = GivenIn(b.entries) /\ GivenIn(b.entries) \in Nat
        /\ OverageIn(d.entries) = ExceededBy(b.reservations) /\ ExceededBy(b.reservations) \in Nat
        /\ ExceededBy(d.reservations) = ExceededBy(b.reservations)
              + (IF s = "settled_known" /\ n > old.amount THEN n - old.amount ELSE 0)
    BY <1>1, <1>3, <1>4, <1>5, <1>7 DEF Moved, Balanced, Closing
  <1>9. /\ TakenIn(d.entries) - ReturnedIn(d.entries) = ActiveBy(d.reservations)
        /\ KnownIn(d.entries) = KnownBy(d.reservations)
        /\ UncertainIn(d.entries) = UncertainBy(d.reservations)
    BY <1>1, <1>3, <1>4, <1>7 DEF Moved, Balanced, Closing
  <1>10. /\ CostOf(d.reservations) = ActiveBy(d.reservations) + KnownBy(d.reservations)
               + UncertainBy(d.reservations)
         /\ CostOf(d.reservations) = CostOf(b.reservations) - old.amount
               + (IF s = "released" THEN 0 ELSE n)
         /\ CostOf(b.reservations) \in Nat
    BY <1>1, <1>3, <1>4, <1>7 DEF Moved, Balanced, Closing
  <1>11. QED BY <1>2, <1>6, <1>8, <1>9, <1>10 DEF r, Closes

\* The totals after a line that no reservation goes with.
Noted(b, d, type, amount) ==
    LET E == b.entries
        F == d.entries
    IN
    /\ GivenIn(E) \in Nat /\ TakenIn(E) \in Nat /\ ReturnedIn(E) \in Nat
    /\ KnownIn(E) \in Nat /\ UncertainIn(E) \in Nat /\ OverageIn(E) \in Nat
    /\ GivenIn(F) = GivenIn(E) + (IF type = "authorization_added" THEN amount ELSE 0)
    /\ TakenIn(F) = TakenIn(E) /\ ReturnedIn(F) = ReturnedIn(E)
    /\ KnownIn(F) = KnownIn(E) /\ UncertainIn(F) = UncertainIn(E)
    /\ OverageIn(F) = OverageIn(E) + (IF type = "usage_overage_recorded" THEN amount ELSE 0)

LineTypes == {"authorization_added", "usage_overage_recorded", "freeze_applied", "freeze_cleared"}

\* Log of such a line changes nothing but the ledger.
LEMMA LineTotals ==
  ASSUME NEW b \in Account, NEW amount \in Nat, NEW type \in LineTypes,
         NEW d, d = Log(b, type, amount, 0)
  PROVE  /\ d \in Account /\ Longer(b, d) /\ (IsBlocked(d) <=> IsBlocked(b))
         /\ d.reservations = b.reservations
         /\ Noted(b, d, type, amount)
  <1> DEFINE E == b.entries
             F == d.entries
             line == Line(b, type, amount, 0)
  <1>1. type \in EntryTypes /\ E \in Seq(Entry)
    BY DEF EntryTypes, LineTypes, Account
  <1>2. /\ line \in Entry /\ F = Append(E, line)
        /\ d \in Account /\ Longer(b, d) /\ (IsBlocked(d) <=> IsBlocked(b))
        /\ d.reservations = b.reservations
    <2>1. line \in Entry /\ F = Extra(b, type, amount, 0)
      BY <1>1, Logged
    <2>2. d \in Account /\ Longer(b, d)
      BY <1>1, Logged
    <2>3. (IsBlocked(d) <=> IsBlocked(b)) /\ d.reservations = b.reservations
      BY <1>1, Logged
    <2>4. QED BY <2>1, <2>2, <2>3 DEF Extra
  <1>3. line.type = type /\ line.amount = amount /\ line.reserved = 0
    BY DEF Line
  <1> HIDE DEF E, F, line
  <1>4. /\ GivenIn(E) \in Nat /\ TakenIn(E) \in Nat /\ ReturnedIn(E) \in Nat
        /\ KnownIn(E) \in Nat /\ UncertainIn(E) \in Nat /\ OverageIn(E) \in Nat
        /\ GivenIn(F) = GivenIn(E) + (IF type = "authorization_added" THEN amount ELSE 0)
        /\ TakenIn(F) = TakenIn(E) /\ ReturnedIn(F) = ReturnedIn(E)
        /\ KnownIn(F) = KnownIn(E) /\ UncertainIn(F) = UncertainIn(E)
        /\ OverageIn(F) = OverageIn(E) + (IF type = "usage_overage_recorded" THEN amount ELSE 0)
    <2>1. /\ type \notin {"authorization_initial", "reservation_created"}
          /\ type \notin {"reservation_released", "usage_settled", "unknown_committed"}
      BY DEF LineTypes
    <2>2. /\ GivenIn(E) \in Nat /\ TakenIn(E) \in Nat /\ ReturnedIn(E) \in Nat
          /\ KnownIn(E) \in Nat /\ UncertainIn(E) \in Nat /\ OverageIn(E) \in Nat
          /\ GivenIn(F) = GivenIn(E) + (IF type = "authorization_added" THEN amount ELSE 0)
          /\ TakenIn(F) = TakenIn(E) + 0 /\ ReturnedIn(F) = ReturnedIn(E) + 0
          /\ KnownIn(F) = KnownIn(E) + 0 /\ UncertainIn(F) = UncertainIn(E) + 0
          /\ OverageIn(F) = OverageIn(E) + (IF type = "usage_overage_recorded" THEN amount ELSE 0)
      <3>1. Adds(E, line, F)
        BY <1>1, <1>2, Appended
      <3>2. QED BY <1>3, <2>1, <3>1 DEF Adds
    <2>3. QED BY <2>2
  <1>5. QED BY <1>2, <1>4 DEF E, F, Noted

\* Freezing discloses the overage and blocks the account.
LEMMA FreezingCounts ==
  ASSUME NEW b \in Account, NEW over \in Nat, NEW d, d = Frozen(b, over)
  PROVE  /\ d \in Account /\ Longer(b, d) /\ IsBlocked(d)
         /\ d.reservations = b.reservations
         /\ Noted(b, d, "usage_overage_recorded", over)
  <1>1. PICK p : p = Log(b, "usage_overage_recorded", over, 0)
    OBVIOUS
  <1>2. PICK q : q = [p EXCEPT !.state = "frozen_overage", !.revision = @ + 1]
    OBVIOUS
  <1>3. d = Log(q, "freeze_applied", 0, 0)
    BY <1>1, <1>2 DEF Frozen
  <1>4. /\ p \in Account /\ Longer(b, p) /\ p.reservations = b.reservations
        /\ Noted(b, p, "usage_overage_recorded", over)
    <2>1. "usage_overage_recorded" \in LineTypes
      BY DEF LineTypes
    <2>2. QED BY <1>1, <2>1, LineTotals
  <1>5. /\ q \in Account /\ q.entries = p.entries /\ q.reservations = p.reservations
        /\ IsBlocked(q)
    <2>1. q = [state |-> "frozen_overage", pending |-> p.pending, revision |-> p.revision + 1,
               last |-> p.last, entries |-> p.entries, reservations |-> p.reservations]
      BY <1>2, <1>4 DEF Account
    <2>2. /\ p.pending \in BOOLEAN /\ p.revision + 1 \in Nat \ {0} /\ p.last \in Nat
          /\ p.entries \in Seq(Entry) /\ p.reservations \in [Calls -> Reservation]
      BY <1>4 DEF Account
    <2>3. QED BY <2>1, <2>2 DEF Account, IsBlocked
  <1>6. /\ d \in Account /\ Longer(q, d) /\ IsBlocked(d) /\ d.reservations = q.reservations
        /\ Noted(q, d, "freeze_applied", 0)
    <2>1. "freeze_applied" \in LineTypes
      BY DEF LineTypes
    <2>2. QED BY <1>3, <1>5, <2>1, LineTotals
  <1>7. Noted(b, d, "usage_overage_recorded", over)
    BY <1>4, <1>5, <1>6 DEF Noted
  <1>8. Longer(b, d)
    <2>1. /\ b.entries \in Seq(Entry) /\ p.entries \in Seq(Entry) /\ d.entries \in Seq(Entry)
      BY <1>4, <1>6 DEF Account
    <2>2. QED BY <1>4, <1>5, <1>6, <2>1 DEF Longer
  <1>9. QED BY <1>4, <1>5, <1>6, <1>7, <1>8

\* The two updates of a settlement, one after the other.
LEMMA Rewritten ==
  ASSUME NEW old \in Reservation, NEW s, NEW n
  PROVE  [[old EXCEPT !.state = s] EXCEPT !.actual = n] = Closed(old, s, n)
  <1>1. PICK o : o = [old EXCEPT !.state = s]
    OBVIOUS
  <1>2. o = [state |-> s, amount |-> old.amount, actual |-> old.actual]
    BY <1>1 DEF Reservation
  <1>3. [o EXCEPT !.actual = n] = [state |-> s, amount |-> old.amount, actual |-> n]
    BY <1>2
  <1>4. QED BY <1>1, <1>3 DEF Closed

\* A released reservation frees what it held.
LEMMA ReleasingKeeps ==
  ASSUME NEW b, Sound(b), NEW c \in Calls, b.reservations[c].state = "active"
  PROVE  LET old == b.reservations[c]
         IN  /\ Settles(b, c, Closed(old, "released", old.actual), Released(b, c))
             /\ (IsBlocked(Released(b, c)) <=> IsBlocked(b))
  <1> DEFINE old == b.reservations[c]
  <1>1. /\ b \in Account /\ Balanced(b.entries, b.reservations)
        /\ old \in Reservation /\ old.amount \in Nat /\ old.actual \in Nat
        /\ b.reservations \in [Calls -> Reservation]
    BY DEF Sound, Account, Reservation
  <1>2. PICK d : d = Released(b, c)
    OBVIOUS
  <1> PICK n : n = old.actual
    OBVIOUS
  <1> PICK charge : charge = old.amount
    OBVIOUS
  <1>3. PICK r : r = Closed(old, "released", n)
    OBVIOUS
  <1>4. Closing(old, "released", n, "reservation_released", charge) /\ n \in Nat
    BY <1>1 DEF Closing
  <1>5. d = Change(b, c, r, "reservation_released", charge, old.amount)
    <2>1. [b EXCEPT !.reservations[c].state = "released"]
             = [b EXCEPT !.reservations = [@ EXCEPT ![c] = r]]
      <3>1. [old EXCEPT !.state = "released"] = r
        BY <1>1, <1>3 DEF Reservation, Closed
      <3>2. QED BY <1>1, <3>1
    <2>2. QED BY <1>2, <2>1 DEF Released, Change
  <1>6. /\ d \in Account /\ Longer(b, d) /\ (IsBlocked(d) <=> IsBlocked(b))
        /\ d.reservations = [b.reservations EXCEPT ![c] = r] /\ r.state # "none"
        /\ Balanced(d.entries, d.reservations)
        /\ GivenIn(d.entries) = GivenIn(b.entries) /\ GivenIn(b.entries) \in Nat
        /\ CostOf(d.reservations) = CostOf(b.reservations) - old.amount
        /\ CostOf(b.reservations) \in Nat
    <2>1. Closes(b, c, "released", n, d)
      BY <1>1, <1>3, <1>4, <1>5, ClosingCounts
    <2>2. r.state # "none"
      BY <1>3 DEF Closed
    <2>3. QED BY <1>1, <1>3, <2>1, <2>2 DEF Closes, Balanced
  <1>7. Sound(d)
    <2>1. IsBlocked(d) \/ CostOf(d.reservations) <= GivenIn(d.entries)
      BY <1>1, <1>6 DEF Sound
    <2>2. \A x \in Calls : d.reservations[x].state = "none" => d.reservations[x].actual = 0
      BY <1>1, <1>6 DEF Sound
    <2>3. QED BY <1>6, <2>1, <2>2 DEF Sound
  <1>8. QED BY <1>2, <1>3, <1>6, <1>7 DEF Settles

\* Trusted usage is charged in full; beyond the reservation it freezes.
LEMMA SettlingKnownKeeps ==
  ASSUME NEW b, Sound(b), NEW c \in Calls, b.reservations[c].state = "active", NEW n \in Nat
  PROVE  LET old == b.reservations[c]
         IN  /\ Settles(b, c, Closed(old, "settled_known", n), SettledKnown(b, c, n))
             /\ (IsBlocked(SettledKnown(b, c, n)) <=> IsBlocked(b) \/ n > old.amount)
  <1> DEFINE old == b.reservations[c]
  <1>1. /\ b \in Account /\ Balanced(b.entries, b.reservations)
        /\ old \in Reservation /\ old.amount \in Nat /\ old.actual \in Nat
        /\ b.reservations \in [Calls -> Reservation]
    BY DEF Sound, Account, Reservation
  <1>2. PICK r : r = Closed(old, "settled_known", n)
    OBVIOUS
  <1>3. PICK p : p = Change(b, c, r, "usage_settled", n, old.amount)
    OBVIOUS
  <1>4. PICK d : d = SettledKnown(b, c, n)
    OBVIOUS
  <1>5. d = IF n > old.amount THEN Frozen(p, n - old.amount) ELSE p
    <2>1. [b EXCEPT !.reservations[c].state = "settled_known", !.reservations[c].actual = n]
             = [b EXCEPT !.reservations = [@ EXCEPT ![c] = r]]
      <3>1. [[old EXCEPT !.state = "settled_known"] EXCEPT !.actual = n] = r
        BY <1>1, <1>2, Rewritten
      <3>2. QED BY <1>1, <3>1
    <2>2. QED BY <1>3, <1>4, <2>1 DEF SettledKnown, Change
  <1>6. Closing(old, "settled_known", n, "usage_settled", n)
    BY DEF Closing
  <1>7. /\ p \in Account /\ Longer(b, p) /\ (IsBlocked(p) <=> IsBlocked(b))
        /\ p.reservations = [b.reservations EXCEPT ![c] = r] /\ r.state # "none"
        /\ GivenIn(p.entries) = GivenIn(b.entries) /\ GivenIn(b.entries) \in Nat
        /\ OverageIn(p.entries) = ExceededBy(b.reservations) /\ ExceededBy(b.reservations) \in Nat
        /\ ExceededBy(p.reservations) = ExceededBy(b.reservations)
              + (IF n > old.amount THEN n - old.amount ELSE 0)
        /\ TakenIn(p.entries) - ReturnedIn(p.entries) = ActiveBy(p.reservations)
        /\ KnownIn(p.entries) = KnownBy(p.reservations)
        /\ UncertainIn(p.entries) = UncertainBy(p.reservations)
        /\ CostOf(p.reservations) = ActiveBy(p.reservations) + KnownBy(p.reservations)
               + UncertainBy(p.reservations)
        /\ CostOf(p.reservations) = CostOf(b.reservations) - old.amount + n
        /\ CostOf(b.reservations) \in Nat
    <2>1. Closes(b, c, "settled_known", n, p)
      BY <1>1, <1>2, <1>3, <1>6, ClosingCounts
    <2>2. r.state # "none"
      BY <1>2 DEF Closed
    <2>3. QED BY <1>1, <1>2, <2>1, <2>2 DEF Closes
  <1>8. /\ d \in Account /\ Longer(b, d) /\ d.reservations = p.reservations
        /\ (IsBlocked(d) <=> IsBlocked(b) \/ n > old.amount)
        /\ GivenIn(d.entries) = GivenIn(b.entries)
        /\ Balanced(d.entries, d.reservations)
    <2>1. CASE n > old.amount
      <3>1. n - old.amount \in Nat /\ d = Frozen(p, n - old.amount)
        BY <1>1, <1>5, <2>1
      <3>2. /\ d \in Account /\ Longer(p, d) /\ IsBlocked(d) /\ d.reservations = p.reservations
            /\ Noted(p, d, "usage_overage_recorded", n - old.amount)
        BY <1>7, <3>1, FreezingCounts
      <3>3. Longer(b, d)
        <4>1. /\ b.entries \in Seq(Entry) /\ p.entries \in Seq(Entry) /\ d.entries \in Seq(Entry)
          BY <1>1, <1>7, <3>2 DEF Account
        <4>2. QED BY <1>7, <3>2, <4>1 DEF Longer
      <3>4. GivenIn(d.entries) = GivenIn(b.entries) /\ Balanced(d.entries, d.reservations)
        BY <1>1, <1>7, <2>1, <3>2 DEF Noted, Balanced
      <3>5. QED BY <2>1, <3>2, <3>3, <3>4
    <2>2. CASE ~(n > old.amount)
      <3>1. d = p
        BY <1>5, <2>2
      <3>2. Balanced(d.entries, d.reservations)
        BY <1>1, <1>7, <2>2, <3>1 DEF Balanced
      <3>3. QED BY <1>7, <2>2, <3>1, <3>2
    <2>3. QED BY <2>1, <2>2
  <1>9. Sound(d)
    <2>1. IsBlocked(d) \/ CostOf(d.reservations) <= GivenIn(d.entries)
      BY <1>1, <1>7, <1>8 DEF Sound
    <2>2. \A x \in Calls : d.reservations[x].state = "none" => d.reservations[x].actual = 0
      BY <1>1, <1>7, <1>8 DEF Sound
    <2>3. QED BY <1>8, <2>1, <2>2 DEF Sound
  <1>10. QED BY <1>2, <1>4, <1>7, <1>8, <1>9 DEF Settles

\* Uncertain usage is charged at the larger of the reservation and the report.
LEMMA SettlingUncertainKeeps ==
  ASSUME NEW b, Sound(b), NEW c \in Calls, b.reservations[c].state = "active", NEW n \in Nat
  PROVE  LET old    == b.reservations[c]
             charge == Max({old.amount, n})
         IN  /\ charge \in Nat
             /\ Settles(b, c, Closed(old, "settled_uncertain", charge), SettledUncertain(b, c, n))
             /\ (IsBlocked(SettledUncertain(b, c, n)) <=> IsBlocked(b) \/ charge > old.amount)
  <1> DEFINE old == b.reservations[c]
  <1>1. /\ b \in Account /\ Balanced(b.entries, b.reservations)
        /\ old \in Reservation /\ old.amount \in Nat /\ old.actual \in Nat
        /\ b.reservations \in [Calls -> Reservation]
    BY DEF Sound, Account, Reservation
  <1>2. PICK charge : charge = Max({old.amount, n})
    OBVIOUS
  <1>3. charge \in Nat /\ charge >= old.amount
    BY <1>1, <1>2, MaxOfTwo
  <1>4. PICK r : r = Closed(old, "settled_uncertain", charge)
    OBVIOUS
  <1>5. PICK p : p = Change(b, c, r, "unknown_committed", charge, old.amount)
    OBVIOUS
  <1>6. PICK d : d = SettledUncertain(b, c, n)
    OBVIOUS
  <1>7. d = IF charge > old.amount THEN [p EXCEPT !.pending = TRUE, !.revision = @ + 1] ELSE p
    <2>1. [b EXCEPT !.reservations[c].state = "settled_uncertain", !.reservations[c].actual = charge]
             = [b EXCEPT !.reservations = [@ EXCEPT ![c] = r]]
      <3>1. [[old EXCEPT !.state = "settled_uncertain"] EXCEPT !.actual = charge] = r
        BY <1>1, <1>4, Rewritten
      <3>2. QED BY <1>1, <3>1
    <2>2. p = Log([b EXCEPT !.reservations[c].state = "settled_uncertain",
                            !.reservations[c].actual = charge], "unknown_committed", charge, old.amount)
      BY <1>5, <2>1 DEF Change
    <2>3. QED BY <1>2, <1>6, <2>2 DEF SettledUncertain
  <1>8. Closing(old, "settled_uncertain", charge, "unknown_committed", charge)
    BY DEF Closing
  <1>9. /\ p \in Account /\ Longer(b, p) /\ (IsBlocked(p) <=> IsBlocked(b))
        /\ p.reservations = [b.reservations EXCEPT ![c] = r] /\ r.state # "none"
        /\ GivenIn(p.entries) = GivenIn(b.entries) /\ GivenIn(b.entries) \in Nat
        /\ Balanced(p.entries, p.reservations)
        /\ CostOf(p.reservations) = CostOf(b.reservations) - old.amount + charge
        /\ CostOf(b.reservations) \in Nat
    <2>1. Closes(b, c, "settled_uncertain", charge, p)
      BY <1>1, <1>3, <1>4, <1>5, <1>8, ClosingCounts
    <2>2. r.state # "none"
      BY <1>4 DEF Closed
    <2>3. QED BY <1>1, <1>3, <1>4, <2>1, <2>2 DEF Closes, Balanced
  <1>10. /\ d \in Account /\ d.entries = p.entries /\ d.reservations = p.reservations
         /\ (IsBlocked(d) <=> IsBlocked(b) \/ charge > old.amount)
    <2>1. CASE charge > old.amount
      <3>1. d = [state |-> p.state, pending |-> TRUE, revision |-> p.revision + 1, last |-> p.last,
                 entries |-> p.entries, reservations |-> p.reservations]
        BY <1>7, <1>9, <2>1 DEF Account
      <3>2. /\ p.state \in {"open", "frozen_overage"} /\ p.revision \in Nat \ {0} /\ p.last \in Nat
            /\ p.entries \in Seq(Entry) /\ p.reservations \in [Calls -> Reservation]
        BY <1>9 DEF Account
      <3>3. d \in Account
        BY <3>1, <3>2 DEF Account
      <3>4. QED BY <2>1, <3>1, <3>3 DEF IsBlocked
    <2>2. CASE ~(charge > old.amount)
      BY <1>7, <1>9, <2>2
    <2>3. QED BY <2>1, <2>2
  <1>11. Sound(d)
    <2>1. IsBlocked(d) \/ CostOf(d.reservations) <= GivenIn(d.entries)
      BY <1>1, <1>3, <1>9, <1>10 DEF Sound
    <2>2. \A x \in Calls : d.reservations[x].state = "none" => d.reservations[x].actual = 0
      BY <1>1, <1>9, <1>10 DEF Sound
    <2>3. QED BY <1>9, <1>10, <2>1, <2>2 DEF Sound
  <1>12. QED BY <1>2, <1>3, <1>4, <1>6, <1>9, <1>10, <1>11 DEF Settles, Longer

\* An operation on the account as a whole.
Continues(b, d) == Sound(d) /\ Longer(b, d) /\ d.reservations = b.reservations

\* A larger authorization covers what was covered before.
LEMMA ExtendingKeeps ==
  ASSUME NEW b, Sound(b), NEW n \in Nat
  PROVE  /\ Continues(b, Extended(b, n))
         /\ GivenIn(Extended(b, n).entries) = GivenIn(b.entries) + n
         /\ (IsBlocked(Extended(b, n)) <=> IsBlocked(b))
  <1>1. b \in Account /\ Balanced(b.entries, b.reservations)
    BY DEF Sound
  <1>2. PICK p : p = Log(b, "authorization_added", n, 0)
    OBVIOUS
  <1>3. PICK d : d = Extended(b, n)
    OBVIOUS
  <1>4. /\ p \in Account /\ Longer(b, p) /\ (IsBlocked(p) <=> IsBlocked(b))
        /\ p.reservations = b.reservations /\ Noted(b, p, "authorization_added", n)
    <2>1. "authorization_added" \in LineTypes
      BY DEF LineTypes
    <2>2. QED BY <1>1, <1>2, <2>1, LineTotals
  <1>5. /\ d \in Account /\ d.entries = p.entries /\ d.reservations = p.reservations
        /\ (IsBlocked(d) <=> IsBlocked(p))
    <2>1. d = [p EXCEPT !.last = b.last, !.revision = b.revision + 1]
      BY <1>2, <1>3 DEF Extended
    <2>2. d = [state |-> p.state, pending |-> p.pending, revision |-> b.revision + 1, last |-> b.last,
               entries |-> p.entries, reservations |-> p.reservations]
      BY <1>4, <2>1 DEF Account
    <2>3. b.revision \in Nat \ {0} /\ b.last \in Nat
      BY <1>1 DEF Account
    <2>4. /\ p.state \in {"open", "frozen_overage"} /\ p.pending \in BOOLEAN
          /\ p.entries \in Seq(Entry) /\ p.reservations \in [Calls -> Reservation]
      BY <1>4 DEF Account
    <2>5. d \in Account
      BY <2>2, <2>3, <2>4 DEF Account
    <2>6. QED BY <2>2, <2>5 DEF IsBlocked
  <1>6. GivenIn(d.entries) = GivenIn(b.entries) + n /\ GivenIn(b.entries) \in Nat
    BY <1>4, <1>5 DEF Noted
  <1>7. Balanced(d.entries, d.reservations)
    BY <1>1, <1>4, <1>5 DEF Noted, Balanced
  <1>8. Sound(d)
    <2>1. CostOf(b.reservations) \in Nat
      BY <1>1, ReservationTotals DEF Account
    <2>2. IsBlocked(d) \/ CostOf(d.reservations) <= GivenIn(d.entries)
      BY <1>4, <1>5, <1>6, <2>1 DEF Sound
    <2>3. \A x \in Calls : d.reservations[x].state = "none" => d.reservations[x].actual = 0
      BY <1>4, <1>5 DEF Sound
    <2>4. QED BY <1>5, <1>7, <2>2, <2>3 DEF Sound
  <1>9. QED BY <1>3, <1>4, <1>5, <1>6, <1>8 DEF Continues, Longer

\* An account is unblocked only when everything is covered.
LEMMA UnfreezingKeeps ==
  ASSUME NEW b, Sound(b), CostOf(b.reservations) <= GivenIn(b.entries)
  PROVE  /\ Continues(b, Unfrozen(b))
         /\ GivenIn(Unfrozen(b).entries) = GivenIn(b.entries)
         /\ ~IsBlocked(Unfrozen(b))
  <1>1. b \in Account /\ Balanced(b.entries, b.reservations)
    BY DEF Sound
  <1>2. PICK p : p = [b EXCEPT !.state = "open", !.pending = FALSE, !.revision = @ + 1]
    OBVIOUS
  <1>3. PICK d : d = Unfrozen(b)
    OBVIOUS
  <1>4. /\ p \in Account /\ p.entries = b.entries /\ p.reservations = b.reservations
        /\ ~IsBlocked(p)
    <2>1. p = [state |-> "open", pending |-> FALSE, revision |-> b.revision + 1, last |-> b.last,
               entries |-> b.entries, reservations |-> b.reservations]
      BY <1>1, <1>2 DEF Account
    <2>2. /\ b.revision \in Nat \ {0} /\ b.last \in Nat
          /\ b.entries \in Seq(Entry) /\ b.reservations \in [Calls -> Reservation]
      BY <1>1 DEF Account
    <2>3. p \in Account
      BY <2>1, <2>2 DEF Account
    <2>4. QED BY <2>1, <2>3 DEF IsBlocked
  <1>5. /\ d \in Account /\ Longer(p, d) /\ ~IsBlocked(d) /\ d.reservations = p.reservations
        /\ Noted(p, d, "freeze_cleared", 0)
    <2>1. "freeze_cleared" \in LineTypes
      BY DEF LineTypes
    <2>2. d = Log(p, "freeze_cleared", 0, 0)
      BY <1>2, <1>3 DEF Unfrozen
    <2>3. QED BY <1>4, <2>1, <2>2, LineTotals
  <1>6. GivenIn(d.entries) = GivenIn(b.entries) /\ Balanced(d.entries, d.reservations)
    BY <1>1, <1>4, <1>5 DEF Noted, Balanced
  <1>7. Sound(d)
    <2>1. \A x \in Calls : d.reservations[x].state = "none" => d.reservations[x].actual = 0
      BY <1>4, <1>5 DEF Sound
    <2>2. QED BY <1>4, <1>5, <1>6, <2>1 DEF Sound
  <1>8. QED BY <1>3, <1>4, <1>5, <1>6, <1>7 DEF Continues, Longer

\* A new account is sound.
LEMMA CreatedIsSound ==
  /\ Sound(Created) /\ ~IsBlocked(Created)
  /\ GivenIn(Created.entries) = Requested
  /\ Created.reservations = [c \in Calls |-> NoReservation]
  <1> DEFINE none == [c \in Calls |-> NoReservation]
             e == [type |-> "authorization_initial", amount |-> Requested,
                   reserved |-> 0, sequence |-> 1]
  <1>1. Requested \in Nat /\ IsFiniteSet(Calls)
    BY BudgetAssumption
  <1>2. e \in Entry /\ NoReservation \in Reservation
    BY <1>1 DEF Entry, EntryTypes, NoReservation, Reservation
  <1>3. PICK d : d = Created
    OBVIOUS
  <1>4. /\ d = [state |-> "open", pending |-> FALSE, revision |-> 1, last |-> 1,
                 entries |-> <<e>>, reservations |-> none]
        /\ <<e>> = Append(<<>>, e) /\ <<e>> \in Seq(Entry)
    BY <1>2, <1>3 DEF Created
  <1>5. d \in Account /\ ~IsBlocked(d) /\ d.entries = <<e>> /\ d.reservations = none
    BY <1>2, <1>4 DEF Account, IsBlocked
  <1>6. \A T : AmountIn(<<>>, T) = 0 /\ ReservedIn(<<>>, T) = 0
    <2> SUFFICES ASSUME NEW T PROVE AmountIn(<<>>, T) = 0 /\ ReservedIn(<<>>, T) = 0
      OBVIOUS
    <2>1. IsFiniteSet({})
      BY FS_EmptySet
    <2>2. \A f \in [{} -> Int] : SumFunction(f) = 0
      BY <2>1, SumOfZeros
    <2>3. Len(<<>>) = 0 /\ 1 .. 0 = {}
      OBVIOUS
    <2>4. AmountIn(<<>>, T) = 0
      <3>1. PICK f : f = [k \in 1 .. Len(<<>>) |->
                             IF <<>>[k].type \in T THEN <<>>[k].amount ELSE 0]
        OBVIOUS
      <3>2. f \in [{} -> Int]
        BY <2>3, <3>1
      <3>3. QED BY <2>2, <3>1, <3>2 DEF AmountIn
    <2>5. ReservedIn(<<>>, T) = 0
      <3>1. PICK f : f = [k \in 1 .. Len(<<>>) |->
                             IF <<>>[k].type \in T THEN <<>>[k].reserved ELSE 0]
        OBVIOUS
      <3>2. f \in [{} -> Int]
        BY <2>3, <3>1
      <3>3. QED BY <2>2, <3>1, <3>2 DEF ReservedIn
    <2>6. QED BY <2>4, <2>5
  <1>7. /\ GivenIn(<<>>) = 0 /\ TakenIn(<<>>) = 0 /\ ReturnedIn(<<>>) = 0
        /\ KnownIn(<<>>) = 0 /\ UncertainIn(<<>>) = 0 /\ OverageIn(<<>>) = 0
    BY <1>6 DEF GivenIn, TakenIn, ReturnedIn, KnownIn, UncertainIn, OverageIn
  <1>8. /\ GivenIn(d.entries) = Requested /\ TakenIn(d.entries) = 0 /\ ReturnedIn(d.entries) = 0
        /\ KnownIn(d.entries) = 0 /\ UncertainIn(d.entries) = 0 /\ OverageIn(d.entries) = 0
    <2>1. e.type = "authorization_initial" /\ e.amount = Requested
      OBVIOUS
    <2>2. <<>> \in Seq(Entry)
      OBVIOUS
    <2> HIDE DEF e
    <2>3. PICK before : before = <<>>
      OBVIOUS
    <2>4. before \in Seq(Entry) /\ d.entries = Append(before, e)
      BY <1>4, <1>5, <2>2, <2>3
    <2>5. /\ GivenIn(before) = 0 /\ TakenIn(before) = 0 /\ ReturnedIn(before) = 0
          /\ KnownIn(before) = 0 /\ UncertainIn(before) = 0 /\ OverageIn(before) = 0
      BY <1>7, <2>3
    <2>6. e \in Entry
      BY <1>2
    <2>7. /\ GivenIn(d.entries) = 0 + e.amount /\ TakenIn(d.entries) = 0 + 0
          /\ ReturnedIn(d.entries) = 0 + 0 /\ KnownIn(d.entries) = 0 + 0
          /\ UncertainIn(d.entries) = 0 + 0 /\ OverageIn(d.entries) = 0 + 0
      <3>1. Adds(before, e, d.entries)
        BY <2>4, <2>6, Appended
      <3>2. /\ e.type \notin {"reservation_created", "usage_settled", "unknown_committed",
                            "usage_overage_recorded"}
            /\ e.type \notin {"reservation_released", "usage_settled", "unknown_committed"}
        BY <2>1
      <3>3. QED BY <2>1, <2>5, <3>1, <3>2 DEF Adds
    <2>8. QED BY <1>1, <2>1, <2>7
  <1>9. /\ ActiveBy(none) = 0 /\ KnownBy(none) = 0 /\ UncertainBy(none) = 0
        /\ ExceededBy(none) = 0 /\ CostOf(none) = 0
    <2>1. \A f \in [Calls -> Int] : (\A c \in Calls : f[c] = 0) => SumFunction(f) = 0
      BY <1>1, SumOfZeros
    <2>2. /\ \A s \in {"active", "settled_known", "settled_uncertain"} :
                 Held(NoReservation, s) = 0 /\ Charged(NoReservation, s) = 0
          /\ Exceeds(NoReservation) = 0 /\ Costs(NoReservation) = 0
      BY DEF NoReservation, Held, Charged, Exceeds, Costs
    <2>3. HeldBy(none, "active") = SumFunction([c \in Calls |-> 0])
      BY <2>2 DEF HeldBy
    <2>4. /\ ChargedTo(none, "settled_known") = SumFunction([c \in Calls |-> 0])
          /\ ChargedTo(none, "settled_uncertain") = SumFunction([c \in Calls |-> 0])
      BY <2>2 DEF ChargedTo
    <2>5. /\ ExceededBy(none) = SumFunction([c \in Calls |-> 0])
          /\ CostOf(none) = SumFunction([c \in Calls |-> 0])
      BY <2>2 DEF ExceededBy, CostOf
    <2>6. SumFunction([c \in Calls |-> 0]) = 0
      BY <2>1
    <2>7. QED BY <2>3, <2>4, <2>5, <2>6 DEF ActiveBy, KnownBy, UncertainBy
  <1>10. Balanced(d.entries, d.reservations) /\ CostOf(d.reservations) <= GivenIn(d.entries)
    BY <1>1, <1>5, <1>8, <1>9 DEF Balanced
  <1>11. \A x \in Calls : d.reservations[x].actual = 0
    BY <1>5 DEF NoReservation
  <1>12. QED BY <1>3, <1>5, <1>8, <1>10, <1>11 DEF Sound

-----------------------------------------------------------------------------
(* The invariant: every account in memory and in the store is sound        *)

SoundAccounts == {b \in Account : Sound(b)}

BInv ==
    /\ memory \in [Runtimes -> SoundAccounts \cup {NoBudget}]
    /\ saved \in SoundAccounts \cup {NoBudget}

\* No account is taken for the absence of one.
LEMMA NoBudgetIsNoAccount == NoBudget \notin Account
  BY DEF NoBudget, Account

\* The effects an operation can have on the account.
Holds(b, d) == \E c \in Calls, n \in Nat \ {0} :
    /\ b.reservations[c].state = "none" /\ ~IsBlocked(b) /\ ~IsBlocked(d)
    /\ CostOf(b.reservations) + n <= GivenIn(b.entries)
    /\ Settles(b, c, Holding(n), d)

Charges(b, d) == \E c \in Calls, s \in Settled, n \in Nat :
    /\ b.reservations[c].state = "active"
    /\ Settles(b, c, Closed(b.reservations[c], s, n), d)
    /\ IsBlocked(d) <=> IsBlocked(b) \/ (s # "released" /\ n > b.reservations[c].amount)

Authorizes(b, d) ==
    Continues(b, d) /\ GivenIn(d.entries) > GivenIn(b.entries) /\ (IsBlocked(d) <=> IsBlocked(b))

Unblocks(b, d) ==
    /\ Continues(b, d) /\ GivenIn(d.entries) = GivenIn(b.entries)
    /\ IsBlocked(b) /\ ~IsBlocked(d)
    /\ CostOf(b.reservations) <= GivenIn(b.entries)

Effect(b, d) == Holds(b, d) \/ Charges(b, d) \/ Authorizes(b, d) \/ Unblocks(b, d)

\* The operations of a runtime that has loaded the account.
Works(r) ==
    \/ \E c \in Calls, n \in Amounts : PrepareReservation(r, c, n)
    \/ \E c \in Calls : ReleaseUnsentReservation(r, c) \/ Settle(r, c)
    \/ \E n \in Amounts : AddAuthorization(r, n)
    \/ EvaluateUnfreeze(r)

\* Each of them has one of these effects on what the runtime had in memory, and
\* writes the result to its memory and to the store.
LEMMA WorksHaveEffects ==
  ASSUME BInv, NEW r \in Runtimes, Works(r)
  PROVE  /\ Loaded(r) /\ memory[r] \in SoundAccounts
         /\ memory' = [memory EXCEPT ![r] = saved']
         /\ Effect(memory[r], saved') /\ Sound(saved')
  <1> PICK b : b = memory[r]
    OBVIOUS
  <1>1. Loaded(r)
    BY DEF Works, PrepareReservation, ReleaseUnsentReservation, Settle, SettleKnownUsage,
           SettleUncertainUsage, AddAuthorization, EvaluateUnfreeze, IsActive
  <1>2. b \in SoundAccounts /\ b \in Account /\ Sound(b) /\ Balanced(b.entries, b.reservations)
    BY <1>1 DEF BInv, Loaded, SoundAccounts, Sound
  <1>3. b.reservations \in [Calls -> Reservation]
        /\ \A c \in Calls : b.reservations[c].amount \in Nat /\ b.reservations[c].actual \in Nat
    BY <1>2 DEF Account, Reservation
  <1>4. /\ Authorized(b) = GivenIn(b.entries) /\ Committed(b) = CostOf(b.reservations)
        /\ Authorized(b) \in Nat /\ Committed(b) \in Nat
        /\ ~IsBlocked(b) /\ Spendable(b) > 0 => Spendable(b) = Authorized(b) - Committed(b)
    BY <1>2, Projection
  <1>5. \A d : Persist(r, d) => saved' = d /\ memory' = [memory EXCEPT ![r] = saved']
    BY DEF Persist
  <1>6. ASSUME NEW c \in Calls, NEW n \in Amounts, PrepareReservation(r, c, n)
        PROVE  memory' = [memory EXCEPT ![r] = saved'] /\ Effect(b, saved') /\ Sound(saved')
    <2>1. /\ ~IsBlocked(b) /\ b.reservations[c].state = "none" /\ n <= Spendable(b)
          /\ saved' = Reserved(b, c, n) /\ memory' = [memory EXCEPT ![r] = saved']
      BY <1>5, <1>6 DEF PrepareReservation
    <2>2. n \in Nat \ {0} /\ Spendable(b) \in Int
      BY <1>4, MaxOfTwo, BudgetAssumption DEF Spendable
    <2>3. CostOf(b.reservations) + n <= GivenIn(b.entries)
      BY <1>4, <2>1, <2>2
    <2>4. Settles(b, c, Holding(n), saved') /\ ~IsBlocked(saved')
      BY <1>2, <2>1, <2>2, <2>3, ReservingKeeps
    <2>5. Holds(b, saved')
      BY <2>1, <2>2, <2>3, <2>4 DEF Holds
    <2>6. QED BY <2>1, <2>4, <2>5 DEF Effect, Settles
  <1>7. ASSUME NEW c \in Calls, ReleaseUnsentReservation(r, c)
        PROVE  memory' = [memory EXCEPT ![r] = saved'] /\ Effect(b, saved') /\ Sound(saved')
    <2>1. /\ b.reservations[c].state = "active"
          /\ saved' = Released(b, c) /\ memory' = [memory EXCEPT ![r] = saved']
      BY <1>5, <1>7 DEF ReleaseUnsentReservation, IsActive
    <2>2. PICK n : n = b.reservations[c].actual
      OBVIOUS
    <2>3. /\ Settles(b, c, Closed(b.reservations[c], "released", n), saved')
          /\ (IsBlocked(saved') <=> IsBlocked(b))
      BY <1>2, <2>1, <2>2, ReleasingKeeps
    <2>4. "released" \in Settled /\ n \in Nat
      BY <1>3, <2>2 DEF Settled
    <2>5. Charges(b, saved')
      BY <2>1, <2>3, <2>4 DEF Charges
    <2>6. QED BY <2>1, <2>3, <2>5 DEF Effect, Settles
  <1>8. ASSUME NEW c \in Calls, NEW n \in Amounts \cup {0}, SettleKnownUsage(r, c, n)
        PROVE  memory' = [memory EXCEPT ![r] = saved'] /\ Effect(b, saved') /\ Sound(saved')
    <2>1. /\ b.reservations[c].state = "active" /\ n \in Nat
          /\ saved' = SettledKnown(b, c, n) /\ memory' = [memory EXCEPT ![r] = saved']
      <3>1. n \in Nat
        BY BudgetAssumption
      <3>2. QED BY <1>5, <1>8, <3>1 DEF SettleKnownUsage, IsActive
    <2>2. /\ Settles(b, c, Closed(b.reservations[c], "settled_known", n), saved')
          /\ (IsBlocked(saved') <=> IsBlocked(b) \/ n > b.reservations[c].amount)
      BY <1>2, <2>1, SettlingKnownKeeps
    <2>3. "settled_known" \in Settled /\ "settled_known" # "released"
      BY DEF Settled
    <2>4. Charges(b, saved')
      BY <2>1, <2>2, <2>3 DEF Charges
    <2>5. QED BY <2>1, <2>2, <2>4 DEF Effect, Settles
  <1>9. ASSUME NEW c \in Calls, NEW n \in Amounts \cup {0}, SettleUncertainUsage(r, c, n)
        PROVE  memory' = [memory EXCEPT ![r] = saved'] /\ Effect(b, saved') /\ Sound(saved')
    <2>1. /\ b.reservations[c].state = "active" /\ n \in Nat
          /\ saved' = SettledUncertain(b, c, n) /\ memory' = [memory EXCEPT ![r] = saved']
      <3>1. n \in Nat
        BY BudgetAssumption
      <3>2. QED BY <1>5, <1>9, <3>1 DEF SettleUncertainUsage, IsActive
    <2>2. PICK charge : charge = Max({b.reservations[c].amount, n})
      OBVIOUS
    <2>3. /\ charge \in Nat
          /\ Settles(b, c, Closed(b.reservations[c], "settled_uncertain", charge), saved')
          /\ (IsBlocked(saved') <=> IsBlocked(b) \/ charge > b.reservations[c].amount)
      BY <1>2, <2>1, <2>2, SettlingUncertainKeeps
    <2>4. "settled_uncertain" \in Settled /\ "settled_uncertain" # "released"
      BY DEF Settled
    <2>5. Charges(b, saved')
      BY <2>1, <2>3, <2>4 DEF Charges
    <2>6. QED BY <2>1, <2>3, <2>5 DEF Effect, Settles
  <1>10. ASSUME NEW n \in Amounts, AddAuthorization(r, n)
         PROVE  memory' = [memory EXCEPT ![r] = saved'] /\ Effect(b, saved') /\ Sound(saved')
    <2>1. /\ n \in Nat \ {0}
          /\ saved' = Extended(b, n) /\ memory' = [memory EXCEPT ![r] = saved']
      BY <1>5, <1>10, BudgetAssumption DEF AddAuthorization
    <2>2. /\ Continues(b, saved') /\ GivenIn(saved'.entries) = GivenIn(b.entries) + n
          /\ (IsBlocked(saved') <=> IsBlocked(b))
      BY <1>2, <2>1, ExtendingKeeps
    <2>3. Authorizes(b, saved')
      BY <1>4, <2>1, <2>2 DEF Authorizes
    <2>4. QED BY <2>1, <2>2, <2>3 DEF Effect, Continues
  <1>11. ASSUME EvaluateUnfreeze(r)
         PROVE  memory' = [memory EXCEPT ![r] = saved'] /\ Effect(b, saved') /\ Sound(saved')
    <2>1. /\ IsBlocked(b) /\ Authorized(b) >= Committed(b)
          /\ saved' = Unfrozen(b) /\ memory' = [memory EXCEPT ![r] = saved']
      BY <1>5, <1>11 DEF EvaluateUnfreeze
    <2>2. CostOf(b.reservations) <= GivenIn(b.entries)
      BY <1>4, <2>1
    <2>3. /\ Continues(b, saved') /\ GivenIn(saved'.entries) = GivenIn(b.entries)
          /\ ~IsBlocked(saved')
      BY <1>2, <2>1, <2>2, UnfreezingKeeps
    <2>4. Unblocks(b, saved')
      BY <2>1, <2>2, <2>3 DEF Unblocks
    <2>5. QED BY <2>1, <2>3, <2>4 DEF Effect, Continues
  <1>12. QED
    BY <1>1, <1>2, <1>6, <1>7, <1>8, <1>9, <1>10, <1>11 DEF Works, Settle

\* The steps of the specification by kind.
LEMMA StepKinds ==
  ASSUME Next
  PROVE  \E r \in Runtimes : CreateAccount(r) \/ RestoreAccount(r) \/ Works(r) \/ Exit(r)
  BY DEF Next, Works

\* Every account in memory and in the store stays sound, also with several
\* processes that overwrite each other.
THEOREM Invariance == Spec => []BInv
  <1>1. Init => BInv
    BY DEF Init, BInv
  <1>2. ASSUME BInv, [Next]_vars PROVE BInv'
    <2>1. CASE UNCHANGED vars
      BY <1>2, <2>1 DEF BInv, vars
    <2>2. ASSUME NEW r \in Runtimes, CreateAccount(r) PROVE BInv'
      <3>1. Created \in SoundAccounts
        BY CreatedIsSound DEF SoundAccounts, Sound
      <3>2. memory' = [memory EXCEPT ![r] = Created] /\ saved' = Created
        BY <2>2 DEF CreateAccount, Persist
      <3>3. QED BY <1>2, <3>1, <3>2 DEF BInv
    <2>3. ASSUME NEW r \in Runtimes, RestoreAccount(r) PROVE BInv'
      BY <1>2, <2>3 DEF RestoreAccount, BInv
    <2>4. ASSUME NEW r \in Runtimes, Works(r) PROVE BInv'
      <3>1. memory' = [memory EXCEPT ![r] = saved'] /\ Sound(saved')
        BY <1>2, <2>4, WorksHaveEffects
      <3>2. saved' \in SoundAccounts
        BY <3>1 DEF SoundAccounts, Sound
      <3>3. QED BY <1>2, <3>1, <3>2 DEF BInv
    <2>5. ASSUME NEW r \in Runtimes, Exit(r) PROVE BInv'
      BY <1>2, <2>5 DEF Exit, BInv
    <2>6. QED BY <1>2, <2>1, <2>2, <2>3, <2>4, <2>5, StepKinds
  <1>3. QED BY <1>1, <1>2, PTL DEF Spec

\* Every account there is, is a sound one.
LEMMA BudgetsAreSound == BInv => \A b \in Budgets : b \in Account /\ Sound(b)
  BY DEF BInv, Budgets, States, SoundAccounts

\* The account, its ledger and its reservations keep their types.
THEOREM TypeCorrect == Spec => []TypeOK
  <1>1. BInv => TypeOK
    <2> SUFFICES ASSUME BInv, NEW b \in Budgets
                 PROVE  /\ b.state \in {"open", "frozen_overage"} /\ b.pending \in BOOLEAN
                        /\ b.revision \in Nat \ {0} /\ b.last \in Nat
                        /\ b.entries \in Seq(Entry) /\ b.reservations \in [Calls -> Reservation]
      BY DEF TypeOK
    <2>1. b \in Account
      BY BudgetsAreSound
    <2>2. QED BY <2>1 DEF Account
  <1>2. QED BY <1>1, Invariance, PTL

\* The projection of the ledger is the total over the reservations, whatever
\* was reserved, settled, extended and restored before.
THEOREM LedgerIsBalanced == Spec => []LedgerMatchesReservations
  <1>1. BInv => LedgerMatchesReservations
    <2> SUFFICES ASSUME BInv, NEW b \in Budgets
                 PROVE  /\ Active(b) = HeldIn(b, "active")
                        /\ Known(b) = ChargedIn(b, "settled_known")
                        /\ Uncertain(b) = ChargedIn(b, "settled_uncertain")
      BY DEF LedgerMatchesReservations
    <2>1. b \in Account /\ Balanced(b.entries, b.reservations)
      BY BudgetsAreSound DEF Sound
    <2>2. /\ Active(b) = ActiveBy(b.reservations) /\ Known(b) = KnownBy(b.reservations)
          /\ Uncertain(b) = UncertainBy(b.reservations)
      BY <2>1, Projection
    <2>3. QED BY <2>2, Totals DEF ActiveBy, KnownBy, UncertainBy
  <1>2. QED BY <1>1, Invariance, PTL

\* An account that is not covered takes no reservation.
THEOREM UncoveredIsBlocked == Spec => []DeficitBlocks
  <1>1. BInv => DeficitBlocks
    <2> SUFFICES ASSUME BInv, NEW b \in Budgets, Committed(b) > Authorized(b)
                 PROVE  IsBlocked(b)
      BY DEF DeficitBlocks
    <2>1. b \in Account /\ Sound(b) /\ Balanced(b.entries, b.reservations)
      BY BudgetsAreSound DEF Sound
    <2>2. /\ Authorized(b) = GivenIn(b.entries) /\ Committed(b) = CostOf(b.reservations)
          /\ Authorized(b) \in Nat /\ Committed(b) \in Nat
      BY <2>1, Projection
    <2>3. QED BY <2>1, <2>2 DEF Sound
  <1>2. QED BY <1>1, Invariance, PTL

\* What trusted usage exceeded the reservations by is disclosed exactly once.
THEOREM OverageIsExact == Spec => []OverageIsDisclosed
  <1>1. BInv => OverageIsDisclosed
    <2> SUFFICES ASSUME BInv, NEW b \in Budgets
                 PROVE  Overage(b) = ExceededBy(b.reservations)
      BY DEF OverageIsDisclosed, ExceededBy, Exceeds
    <2>1. b \in Account /\ Balanced(b.entries, b.reservations)
      BY BudgetsAreSound DEF Sound
    <2>2. QED BY <2>1, Projection
  <1>2. QED BY <1>1, Invariance, PTL

-----------------------------------------------------------------------------
(* With one process at a time                                              *)

\* Two processes that serve a task at once overwrite each other's row.  The
\* next theorems are about tasks on which at most one process works at a time,
\* whichever of the processes that is.
OneAtATime == \A r, q \in Runtimes : Loaded(r) /\ Loaded(q) => r = q

\* The process that works on the task has in memory what is in the store.
Current == \A r \in Runtimes : Loaded(r) => memory[r] = saved

CInv == BInv /\ Current

\* With one process at a time memory and store agree.
LEMMA OneAtATimeIsCurrent == Spec /\ []OneAtATime => []CInv
  <1>1. Init => Current
    BY DEF Init, Current, Loaded
  <1>2. ASSUME BInv, Current, OneAtATime, [Next]_vars PROVE Current'
    <2>1. CASE UNCHANGED vars
      BY <1>2, <2>1 DEF Current, Loaded, vars
    <2>2. ASSUME NEW r \in Runtimes, NEW b, memory' = [memory EXCEPT ![r] = b],
                 b = saved' \/ b = NoBudget, saved' = saved \/ saved = NoBudget \/ Loaded(r)
          PROVE  Current'
      <3>1. /\ memory'[r] = b /\ \A q \in Runtimes \ {r} : memory'[q] = memory[q]
        BY <1>2, <2>2 DEF BInv
      <3>2. ASSUME NEW q \in Runtimes, q # r, memory[q] # NoBudget PROVE saved' = memory[q]
        <4>1. memory[q] = saved /\ ~Loaded(r)
          BY <1>2, <3>2 DEF Current, OneAtATime, Loaded
        <4>2. QED BY <2>2, <3>2, <4>1
      <3>3. ASSUME NEW q \in Runtimes, memory'[q] # NoBudget PROVE memory'[q] = saved'
        BY <2>2, <3>1, <3>2, <3>3
      <3>4. QED BY <3>3 DEF Current, Loaded
    <2>3. ASSUME NEW r \in Runtimes, CreateAccount(r) PROVE Current'
      BY <2>2, <2>3 DEF CreateAccount, Persist
    <2>4. ASSUME NEW r \in Runtimes, RestoreAccount(r) PROVE Current'
      BY <2>2, <2>4 DEF RestoreAccount
    <2>5. ASSUME NEW r \in Runtimes, Works(r) PROVE Current'
      <3>1. Loaded(r) /\ memory' = [memory EXCEPT ![r] = saved']
        BY <1>2, <2>5, WorksHaveEffects
      <3>2. QED BY <2>2, <3>1
    <2>6. ASSUME NEW r \in Runtimes, Exit(r) PROVE Current'
      BY <2>2, <2>6 DEF Exit
    <2>7. QED BY <1>2, <2>1, <2>3, <2>4, <2>5, <2>6, StepKinds
  <1>3. QED BY <1>1, <1>2, Invariance, PTL DEF Spec, CInv

\* What can happen to the row in the store.
LEMMA RowChanges ==
  ASSUME CInv, [Next]_vars
  PROVE  \/ saved' = saved
         \/ saved = NoBudget /\ saved' = Created
         \/ saved \in SoundAccounts /\ Sound(saved') /\ Effect(saved, saved')
  <1>1. CASE UNCHANGED vars
    BY <1>1 DEF vars
  <1>2. ASSUME NEW r \in Runtimes, CreateAccount(r) PROVE saved = NoBudget /\ saved' = Created
    BY <1>2 DEF CreateAccount, Persist
  <1>3. ASSUME NEW r \in Runtimes, RestoreAccount(r) \/ Exit(r) PROVE saved' = saved
    BY <1>3 DEF RestoreAccount, Exit
  <1>4. ASSUME NEW r \in Runtimes, Works(r)
        PROVE  saved \in SoundAccounts /\ Sound(saved') /\ Effect(saved, saved')
    <2>1. Loaded(r) /\ memory[r] \in SoundAccounts /\ Effect(memory[r], saved') /\ Sound(saved')
      BY <1>4, WorksHaveEffects DEF CInv
    <2>2. memory[r] = saved
      BY <2>1 DEF CInv, Current
    <2>3. QED BY <2>1, <2>2
  <1>5. QED BY <1>1, <1>2, <1>3, <1>4, StepKinds

\* Every effect appends to the ledger and keeps what is settled.
LEMMA EffectsAppend ==
  ASSUME NEW b \in SoundAccounts, NEW d, Effect(b, d)
  PROVE  /\ Longer(b, d)
         /\ \A c \in Calls : b.reservations[c].state \in Settled =>
                d.reservations[c] = b.reservations[c]
  <1>1. b.reservations \in [Calls -> Reservation]
    BY DEF SoundAccounts, Account
  <1>2. ASSUME NEW c \in Calls, NEW r, b.reservations[c].state \in {"none", "active"},
               Settles(b, c, r, d)
        PROVE  /\ Longer(b, d)
               /\ \A x \in Calls : b.reservations[x].state \in Settled =>
                      d.reservations[x] = b.reservations[x]
    BY <1>1, <1>2 DEF Settles, Settled
  <1>3. CASE Holds(b, d)
    BY <1>2, <1>3 DEF Holds
  <1>4. CASE Charges(b, d)
    BY <1>2, <1>4 DEF Charges
  <1>5. CASE Authorizes(b, d) \/ Unblocks(b, d)
    BY <1>5 DEF Authorizes, Unblocks, Continues
  <1>6. QED BY <1>3, <1>4, <1>5 DEF Effect

\* The ledger in the store is only appended to, and what was settled stays.
THEOREM HistoryIsFinal == Spec /\ []OneAtATime => HistoryIsKept
  <1>1. ASSUME CInv, [Next]_vars, saved # NoBudget
        PROVE  /\ IsPrefix(saved.entries, saved'.entries)
               /\ \A c \in Calls : saved.reservations[c].state \in Settled =>
                      saved'.reservations[c] = saved.reservations[c]
    <2>1. saved \in SoundAccounts /\ saved.entries \in Seq(Entry)
      BY <1>1 DEF CInv, BInv, SoundAccounts, Account
    <2>2. CASE saved' = saved
      BY <2>1, <2>2 DEF IsPrefix
    <2>3. CASE Sound(saved') /\ Effect(saved, saved')
      <3>1. /\ Longer(saved, saved')
            /\ \A c \in Calls : saved.reservations[c].state \in Settled =>
                   saved'.reservations[c] = saved.reservations[c]
        BY <2>1, <2>3, EffectsAppend
      <3>2. saved'.entries \in Seq(Entry)
        BY <2>3 DEF Sound, Account
      <3>3. IsPrefix(saved.entries, saved'.entries)
        BY <2>1, <3>1, <3>2 DEF Longer, IsPrefix
      <3>4. QED BY <3>1, <3>3
    <2>4. QED BY <1>1, <2>2, <2>3, RowChanges
  <1>2. QED BY <1>1, OneAtATimeIsCurrent, PTL DEF Spec, HistoryIsKept

-----------------------------------------------------------------------------
(* The store implements a token cap                                        *)

\* The abstract state an account stands for.
LimitOf(b)   == IF b # NoBudget THEN Authorized(b) ELSE 0
StageOf(b)   == [c \in Calls |-> IF b # NoBudget THEN Stage(b.reservations[c].state) ELSE "new"]
TokensOf(b)  == [c \in Calls |->
                    IF ~(b # NoBudget) THEN 0
                    ELSE CASE b.reservations[c].state = "active" -> b.reservations[c].amount
                           [] b.reservations[c].state = "released" -> 0
                           [] OTHER -> b.reservations[c].actual]
BlockedOf(b) == b # NoBudget /\ IsBlocked(b)

\* The abstract state of a sound account.
LEMMA AbstractState ==
  ASSUME NEW b, Sound(b)
  PROVE  /\ LimitOf(b) = GivenIn(b.entries) /\ LimitOf(b) \in Nat
         /\ StageOf(b) = [c \in Calls |-> Stage(b.reservations[c].state)]
         /\ TokensOf(b) = [c \in Calls |-> Costs(b.reservations[c])]
         /\ TokensOf(b) \in [Calls -> Nat]
         /\ SumFunction(TokensOf(b)) = CostOf(b.reservations)
         /\ (BlockedOf(b) <=> IsBlocked(b)) /\ BlockedOf(b) \in BOOLEAN
  <1>1. b \in Account /\ Balanced(b.entries, b.reservations) /\ b # NoBudget
    BY NoBudgetIsNoAccount DEF Sound
  <1>2. \A c \in Calls : b.reservations[c] \in Reservation
    BY <1>1 DEF Account
  <1>3. LimitOf(b) = GivenIn(b.entries) /\ LimitOf(b) \in Nat
    BY <1>1, Projection DEF LimitOf
  <1>4. StageOf(b) = [c \in Calls |-> Stage(b.reservations[c].state)]
    BY <1>1 DEF StageOf
  <1>5. TokensOf(b) = [c \in Calls |-> Costs(b.reservations[c])]
    BY <1>1, <1>2 DEF TokensOf, Costs, Reservation
  <1>6. TokensOf(b) \in [Calls -> Nat]
    BY <1>2, <1>5, CountsType
  <1>7. SumFunction(TokensOf(b)) = CostOf(b.reservations)
    BY <1>5 DEF CostOf
  <1>8. (BlockedOf(b) <=> IsBlocked(b)) /\ BlockedOf(b) \in BOOLEAN
    BY <1>1 DEF BlockedOf
  <1>9. QED BY <1>3, <1>4, <1>5, <1>6, <1>7, <1>8

\* What a change of one reservation does to the abstract state.
LEMMA AbstractChange ==
  ASSUME NEW b, Sound(b), NEW c \in Calls, NEW r \in Reservation, NEW d, Settles(b, c, r, d)
  PROVE  /\ Sound(d) /\ LimitOf(d) = LimitOf(b)
         /\ StageOf(b)[c] = Stage(b.reservations[c].state)
         /\ StageOf(d) = [StageOf(b) EXCEPT ![c] = Stage(r.state)]
         /\ TokensOf(b)[c] = Costs(b.reservations[c])
         /\ TokensOf(d) = [TokensOf(b) EXCEPT ![c] = Costs(r)] /\ TokensOf(d)[c] = Costs(r)
  <1>1. Sound(d) /\ d.reservations = [b.reservations EXCEPT ![c] = r]
        /\ GivenIn(d.entries) = GivenIn(b.entries)
    BY DEF Settles
  <1>2. b.reservations \in [Calls -> Reservation]
    BY DEF Sound, Account
  <1>3. LimitOf(d) = LimitOf(b)
    BY <1>1, AbstractState
  <1>4. /\ StageOf(b) = [x \in Calls |-> Stage(b.reservations[x].state)]
        /\ StageOf(d) = [x \in Calls |-> Stage(d.reservations[x].state)]
        /\ TokensOf(b) = [x \in Calls |-> Costs(b.reservations[x])]
        /\ TokensOf(d) = [x \in Calls |-> Costs(d.reservations[x])]
    BY <1>1, AbstractState
  <1>5. d.reservations[c] = r /\ \A x \in Calls \ {c} : d.reservations[x] = b.reservations[x]
    BY <1>1, <1>2
  <1>6. StageOf(b)[c] = Stage(b.reservations[c].state) /\ TokensOf(b)[c] = Costs(b.reservations[c])
    BY <1>4
  <1>7. StageOf(d) = [StageOf(b) EXCEPT ![c] = Stage(r.state)]
    BY <1>4, <1>5
  <1>8. TokensOf(d)[c] = Costs(r) /\ TokensOf(d) = [TokensOf(b) EXCEPT ![c] = Costs(r)]
    BY <1>4, <1>5
  <1>9. QED BY <1>1, <1>3, <1>6, <1>7, <1>8

\* The cap adds up what the calls hold in the same way.
LEMMA CapSums == \A f : Cap!SumFunction(f) = SumFunction(f)
  BY DEF SumFunction, SumFunctionOnSet, FoldFunctionOnSet, MapThenFoldSet,
         Cap!SumFunction, Cap!SumFunctionOnSet, Cap!FoldFunctionOnSet, Cap!MapThenFoldSet

\* Each effect on the row is a step of the cap.
LEMMA StepsRefine ==
  ASSUME CInv, [Next]_vars
  PROVE  [Cap!CapNext]_(Cap!capVars)
  <1> DEFINE L == LimitOf(saved)
             S == StageOf(saved)
             T == TokensOf(saved)
             B == BlockedOf(saved)
             LL == LimitOf(saved')
             SS == StageOf(saved')
             TT == TokensOf(saved')
             BB == BlockedOf(saved')
  <1>1. L = LL /\ S = SS /\ T = TT /\ B = BB => UNCHANGED Cap!capVars
    BY DEF Cap!capVars, LimitOf, StageOf, TokensOf, BlockedOf, Exists
  <1>2. LL > L /\ S = SS /\ T = TT /\ B = BB => Cap!Authorize
    BY DEF Cap!Authorize, LimitOf, StageOf, TokensOf, BlockedOf, Exists
  <1>3. Cap!Total = SumFunction(T)
    BY CapSums DEF Cap!Total, TokensOf, Exists
  <1>4. B /\ L >= SumFunction(T) /\ BB = FALSE /\ L = LL /\ S = SS /\ T = TT => Cap!Unblock
    <2> SUFFICES ASSUME B, L >= Cap!Total, BB = FALSE, L = LL, S = SS, T = TT PROVE Cap!Unblock
      BY <1>3
    <2>1. QED BY DEF Cap!Unblock, LimitOf, StageOf, TokensOf, BlockedOf, Exists
  <1>5. ASSUME NEW c \in Calls, NEW n \in 1 .. L, S[c] = "new", ~B,
               SS = [S EXCEPT ![c] = "held"], SumFunction(T) + n <= L,
               TT = [T EXCEPT ![c] = n], L = LL, B = BB
        PROVE  Cap!Hold(c)
    <2>1. Cap!Total + n <= L
      BY <1>3, <1>5
    <2>2. QED BY <1>5, <2>1 DEF Cap!Hold, LimitOf, StageOf, TokensOf, BlockedOf, Exists
  <1>6. ASSUME NEW c \in Calls, S[c] = "held", SS = [S EXCEPT ![c] = "closed"],
               TT = [T EXCEPT ![c] = TT[c]], TT[c] \in Nat,
               BB = (B \/ TT[c] > T[c]), L = LL
        PROVE  Cap!Charge(c)
    BY <1>6 DEF Cap!Charge, LimitOf, StageOf, TokensOf, BlockedOf, Exists
  <1>7. CASE saved' = saved
    BY <1>1, <1>7
  <1>8. CASE saved = NoBudget /\ saved' = Created
    <2>1. /\ Sound(Created) /\ ~IsBlocked(Created) /\ GivenIn(Created.entries) = Requested
          /\ Created.reservations = [c \in Calls |-> NoReservation]
      BY CreatedIsSound
    <2>2. L = 0 /\ S = [c \in Calls |-> "new"] /\ T = [c \in Calls |-> 0] /\ B = FALSE
      BY <1>8 DEF LimitOf, StageOf, TokensOf, BlockedOf
    <2>3. /\ LL = Requested /\ BB = FALSE
          /\ SS = [c \in Calls |-> Stage(Created.reservations[c].state)]
          /\ TT = [c \in Calls |-> Costs(Created.reservations[c])]
      BY <1>8, <2>1, AbstractState
    <2>4. Stage("none") = "new" /\ Costs(NoReservation) = 0 /\ NoReservation.state = "none"
      BY DEF Stage, Costs, NoReservation
    <2>5. SS = [c \in Calls |-> "new"] /\ TT = [c \in Calls |-> 0]
      BY <2>1, <2>3, <2>4
    <2>6. LL > L
      BY <2>2, <2>3, BudgetAssumption
    <2> HIDE DEF L, S, T, B, LL, SS, TT, BB
    <2>7. QED BY <1>2, <2>2, <2>3, <2>5, <2>6 DEF Cap!CapNext
  <1>9. CASE saved \in SoundAccounts /\ Sound(saved') /\ Effect(saved, saved')
    <2> DEFINE b == saved
               d == saved'
    <2>1. /\ L = GivenIn(b.entries) /\ L \in Nat /\ T \in [Calls -> Nat]
          /\ SumFunction(T) = CostOf(b.reservations) /\ (B <=> IsBlocked(b)) /\ B \in BOOLEAN
          /\ Sound(b) /\ b.reservations \in [Calls -> Reservation]
          /\ CostOf(b.reservations) \in Nat
      BY <1>9, AbstractState, ReservationTotals DEF SoundAccounts, Account
    <2>2. /\ LL = GivenIn(d.entries) /\ LL \in Nat /\ TT \in [Calls -> Nat]
          /\ (BB <=> IsBlocked(d)) /\ BB \in BOOLEAN
      BY <1>9, AbstractState
    <2>3. Continues(b, d) => S = SS /\ T = TT
      <3>1. Continues(b, d) => b.reservations = d.reservations
        BY DEF Continues
      <3>2. /\ S = [c \in Calls |-> Stage(b.reservations[c].state)]
            /\ T = [c \in Calls |-> Costs(b.reservations[c])]
        BY <2>1, AbstractState
      <3>3. /\ SS = [c \in Calls |-> Stage(d.reservations[c].state)]
            /\ TT = [c \in Calls |-> Costs(d.reservations[c])]
        BY <1>9, AbstractState
      <3>4. QED BY <3>1, <3>2, <3>3
    <2>4. ASSUME Holds(b, d) PROVE Cap!CapNext
      <3>1. PICK c \in Calls, n \in Nat \ {0} :
               /\ b.reservations[c].state = "none" /\ ~IsBlocked(b) /\ ~IsBlocked(d)
               /\ CostOf(b.reservations) + n <= GivenIn(b.entries)
               /\ Settles(b, c, Holding(n), d)
        BY <2>4 DEF Holds
      <3>2. Holding(n) \in Reservation
        BY DEF Holding, Reservation
      <3>3. /\ LL = L /\ S[c] = Stage(b.reservations[c].state)
            /\ SS = [S EXCEPT ![c] = Stage(Holding(n).state)]
            /\ TT = [T EXCEPT ![c] = Costs(Holding(n))]
        BY <2>1, <3>1, <3>2, AbstractChange
      <3>4. Stage("none") = "new" /\ Stage(Holding(n).state) = "held" /\ Costs(Holding(n)) = n
        BY DEF Stage, Holding, Costs
      <3> HIDE DEF L, S, T, B, LL, SS, TT, BB
      <3>5. n \in 1 .. L /\ SumFunction(T) + n <= L /\ ~B /\ B = BB
        BY <2>1, <2>2, <3>1
      <3>6. Cap!Hold(c)
        BY <1>5, <3>1, <3>3, <3>4, <3>5
      <3>7. QED BY <3>6 DEF Cap!CapNext
    <2>5. ASSUME Charges(b, d) PROVE Cap!CapNext
      <3>1. PICK c \in Calls, s \in Settled, n \in Nat :
               /\ b.reservations[c].state = "active"
               /\ Settles(b, c, Closed(b.reservations[c], s, n), d)
               /\ IsBlocked(d) <=> IsBlocked(b) \/ (s # "released" /\ n > b.reservations[c].amount)
        BY <2>5 DEF Charges
      <3>2. PICK r : r = Closed(b.reservations[c], s, n)
        OBVIOUS
      <3>3. b.reservations[c] \in Reservation /\ b.reservations[c].amount \in Nat
        BY <2>1 DEF Reservation
      <3>4. r \in Reservation /\ r.state = s /\ r.actual = n
        BY <3>2, <3>3 DEF Closed, Reservation, Settled
      <3>5. /\ LL = L /\ S[c] = Stage("active") /\ T[c] = Costs(b.reservations[c])
            /\ SS = [S EXCEPT ![c] = Stage(s)]
            /\ TT = [T EXCEPT ![c] = Costs(r)] /\ TT[c] = Costs(r)
        BY <2>1, <3>1, <3>2, <3>4, AbstractChange
      <3>6. /\ Stage("active") = "held" /\ Stage(s) = "closed"
            /\ Costs(b.reservations[c]) = b.reservations[c].amount
            /\ Costs(r) = (IF s = "released" THEN 0 ELSE n)
        BY <3>1, <3>4 DEF Stage, Costs, Settled
      <3> HIDE DEF L, S, T, B, LL, SS, TT, BB
      <3>7. Costs(r) \in Nat /\ (BB <=> B \/ Costs(r) > T[c])
        BY <2>1, <2>2, <3>1, <3>3, <3>5, <3>6
      <3>8. BB = (B \/ TT[c] > T[c])
        BY <2>2, <3>5, <3>7
      <3>9. Cap!Charge(c)
        BY <1>6, <3>5, <3>6, <3>7, <3>8
      <3>10. QED BY <3>9 DEF Cap!CapNext
    <2>6. ASSUME Authorizes(b, d) PROVE Cap!CapNext
      <3> HIDE DEF L, S, T, B, LL, SS, TT, BB
      <3>1. LL > L /\ B = BB /\ S = SS /\ T = TT
        BY <2>1, <2>2, <2>3, <2>6 DEF Authorizes
      <3>2. QED BY <1>2, <3>1 DEF Cap!CapNext
    <2>7. ASSUME Unblocks(b, d) PROVE Cap!CapNext
      <3> HIDE DEF L, S, T, B, LL, SS, TT, BB
      <3>1. B /\ L >= SumFunction(T) /\ BB = FALSE /\ L = LL /\ S = SS /\ T = TT
        BY <2>1, <2>2, <2>3, <2>7 DEF Unblocks
      <3>2. QED BY <1>4, <3>1 DEF Cap!CapNext
    <2>8. QED BY <1>9, <2>4, <2>5, <2>6, <2>7 DEF Effect
  <1>10. QED BY <1>7, <1>8, <1>9, RowChanges

\* The account in the store implements the token cap: a call holds tokens only
\* within the authorization, every hold is closed once, and a call that cost
\* more than it held blocks new ones until everything is covered again.
THEOREM Refinement == Spec /\ []OneAtATime => ImplementsTokenCap
  <1>1. Init => Cap!CapInit
    BY DEF Init, Cap!CapInit, Exists
  <1>2. QED
    BY <1>1, OneAtATimeIsCurrent, StepsRefine, PTL DEF Spec, ImplementsTokenCap, Cap!CapSpec
=============================================================================
