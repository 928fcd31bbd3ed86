----------------------------- MODULE Settlement -----------------------------
(***************************************************************************)
(* What the settlement engine promises, told without pods, runs, claims,   *)
(* retries or crashes: money that was captured is moved to the merchant's  *)
(* settled balance once, in batches of one merchant and one set of terms,  *)
(* after the cutoff of those terms has passed it, and sooner or later.     *)
(* SettlementEngine is the program that keeps this promise.                *)
(***************************************************************************)
EXTENDS Integers, FiniteSets

CONSTANTS
    Purchases,      \* PurchaseTransaction rows
    Detail,         \* [Purchases -> merchant, method, paidAt (0: null), hasFee]
    Terms,          \* merchant and method ("*": every method) that have a policy
    Horizon,        \* bound of the cutoffs
    BatchLimit      \* the most purchases one batch may settle

VARIABLES
    captured,       \* purchases the provider has been paid for
    settled,        \* purchases that belong to a batch
    posted,         \* purchases whose amount has moved to the settled balance
    cutoff          \* [Terms -> what was paid before this moment may be settled]

vars == <<captured, settled, posted, cutoff>>

Init ==
    /\ captured = {}
    /\ settled = {}
    /\ posted = {}
    /\ cutoff = [k \in Terms |-> 0]

Capture(p) ==
    /\ p \notin captured
    /\ captured' = captured \cup {p}
    /\ UNCHANGED <<settled, posted, cutoff>>

Advance(k) ==
    /\ cutoff[k] < Horizon
    /\ cutoff' = [cutoff EXCEPT ![k] = @ + 1]
    /\ UNCHANGED <<captured, settled, posted>>

\* What may be settled now under the terms k.
Payable(k) ==
    {p \in captured \ settled :
        /\ k.merchant = Detail[p].merchant
        /\ k.method \in {"*", Detail[p].method}
        /\ Detail[p].hasFee
        /\ Detail[p].paidAt # 0
        /\ Detail[p].paidAt < cutoff[k]}

\* A batch marks its purchases and moves their money, or does neither.
Settle(k, batch) ==
    /\ batch # {}
    /\ batch \subseteq Payable(k)
    /\ Cardinality(batch) <= BatchLimit
    /\ settled' = settled \cup batch
    /\ posted' = posted \cup batch
    /\ UNCHANGED <<captured, cutoff>>

Next ==
    \/ \E p \in Purchases : Capture(p)
    \/ \E k \in Terms : Advance(k)
    \/ \E k \in Terms : \E batch \in SUBSET Payable(k) : Settle(k, batch)

Spec == Init /\ [][Next]_vars

\* The purchase p is settled, in whatever company.
Pays(p) ==
    \E k \in Terms : \E batch \in SUBSET Payable(k) : p \in batch /\ Settle(k, batch)

\* Time passes, and what stays payable is paid.
Fairness ==
    /\ \A k \in Terms : WF_vars(Advance(k))
    /\ \A p \in Purchases : WF_vars(Pays(p))

FairSpec == Spec /\ Fairness

=============================================================================
