------------------------------ MODULE TokenCap ------------------------------
(***************************************************************************)
(* What a token budget promises, without ledger, store or processes: a     *)
(* call holds tokens only within the limit, every hold is closed once, and *)
(* after a call that cost more than it held nothing new is held until the  *)
(* limit covers everything again.                                          *)
(***************************************************************************)
EXTENDS Naturals, Functions

CONSTANT Calls

VARIABLES limit,    \* tokens authorized
          stage,    \* of every call: "new", "held" or "closed"
          tokens,   \* what the call holds, or what it was charged
          blocked   \* a call went over what it held

capVars == <<limit, stage, tokens, blocked>>

Total == SumFunction(tokens)

CapInit ==
    /\ limit = 0
    /\ stage = [c \in Calls |-> "new"]
    /\ tokens = [c \in Calls |-> 0]
    /\ blocked = FALSE

Authorize == limit' > limit /\ UNCHANGED <<stage, tokens, blocked>>

Hold(c) ==
    /\ stage[c] = "new" /\ ~blocked
    /\ stage' = [stage EXCEPT ![c] = "held"]
    /\ \E n \in 1 .. limit :
           /\ Total + n <= limit
           /\ tokens' = [tokens EXCEPT ![c] = n]
    /\ UNCHANGED <<limit, blocked>>

Charge(c) ==
    /\ stage[c] = "held"
    /\ stage' = [stage EXCEPT ![c] = "closed"]
    /\ tokens' = [tokens EXCEPT ![c] = tokens'[c]]
    /\ tokens'[c] \in Nat
    /\ blocked' = (blocked \/ tokens'[c] > tokens[c])
    /\ UNCHANGED limit

Unblock == blocked /\ limit >= Total /\ blocked' = FALSE /\ UNCHANGED <<limit, stage, tokens>>

CapNext == Authorize \/ Unblock \/ \E c \in Calls : Hold(c) \/ Charge(c)

CapSpec == CapInit /\ [][CapNext]_capVars
=============================================================================
