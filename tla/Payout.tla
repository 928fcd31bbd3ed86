------------------------------- MODULE Payout -------------------------------
(***************************************************************************)
(* What payouts promise, told without requests, callbacks, retries or      *)
(* crashes: money is set aside before the provider hears of a payout, only *)
(* as much as there is, and leaves for good or comes back once, as the     *)
(* provider has decided; after that, the merchant may be told once.        *)
(* Disbursement is the program that keeps this promise.                    *)
(***************************************************************************)
EXTENDS Integers, FiniteSets

CONSTANTS
    Disbursements,  \* payouts merchants ask for
    Deposit         \* how many of them there is money for

VARIABLES
    money,      \* where the money of a payout is
    fate,       \* what the provider makes of it
    told        \* how often the merchant was told what became of it

vars == <<money, fate, told>>

Init ==
    /\ money = [d \in Disbursements |-> "own"]
    /\ fate = [d \in Disbursements |-> "none"]
    /\ told = [d \in Disbursements |-> 0]

Held == {d \in Disbursements : money[d] \in {"reserved", "spent"}}

MoneyMoves(d, from, to) ==
    /\ money[d] = from
    /\ money' = [money EXCEPT ![d] = to]
    /\ UNCHANGED <<fate, told>>

Reserve(d) ==
    /\ Cardinality(Held) < Deposit
    /\ MoneyMoves(d, "own", "reserved")

Take(d) ==
    /\ money[d] = "reserved"
    /\ fate[d] = "none"
    /\ \E news \in {"processing", "paid", "rejected"} : fate' = [fate EXCEPT ![d] = news]
    /\ UNCHANGED <<money, told>>

Decide(d) ==
    /\ fate[d] = "processing"
    /\ \E news \in {"paid", "rejected"} : fate' = [fate EXCEPT ![d] = news]
    /\ UNCHANGED <<money, told>>

Spend(d) ==
    /\ fate[d] = "paid"
    /\ MoneyMoves(d, "reserved", "spent")

Return(d) ==
    /\ fate[d] = "rejected"
    /\ MoneyMoves(d, "reserved", "returned")

Tell(d) ==
    /\ money[d] \in {"spent", "returned"}
    /\ told[d] = 0
    /\ told' = [told EXCEPT ![d] = 1]
    /\ UNCHANGED <<money, fate>>

Next ==
    \E d \in Disbursements :
        \/ Reserve(d)
        \/ Take(d)
        \/ Decide(d)
        \/ Spend(d)
        \/ Return(d)
        \/ Tell(d)

Spec == Init /\ [][Next]_vars

=============================================================================
