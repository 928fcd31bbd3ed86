-------------------------- MODULE MCBalanceLedger --------------------------
(***************************************************************************)
(* Instances of BalanceLedger for TLC: one or two merchants, the house,    *)
(* agents, and the programs the callers run: the payin webhook, the        *)
(* settlement batch, the payout request and the payout callback.           *)
(***************************************************************************)
EXTENDS BalanceLedger, TLC

Sessions == Permutations(Transactions)

M(id, bucket) == RowOf("MERCHANT", id, bucket)
I(bucket) == RowOf("INTERNAL", 0, bucket)
A(id, bucket) == RowOf("AGENT", id, bucket)

Need(reason, source) == [reason |-> reason, source |-> source]
Prog(needs, movements) == [needs |-> needs, movements |-> movements]

\* A share of a purchase, settled: two legs of one holder.
Release(type, id, amount) ==
    {Debit(RowOf(type, id, "PENDING"), amount), Credit(RowOf(type, id, "AVAILABLE"), amount)}

Payin(p, legs) == Prog({}, <<MovementOf("PAYIN_CAPTURED", p, legs)>>)

PayoutRequest(d, m, amount, earlier) ==
    Prog({Need("MERCHANT_SETTLED", p) : p \in earlier}, <<MovementOf("PAYOUT_RESERVED", d,
                    {Debit(M(m, "AVAILABLE"), amount), Credit(M(m, "RESERVED"), amount)})>>)

PayoutCompleted(d, m, amount, fee) ==
    Prog({Need("PAYOUT_RESERVED", d)},
         <<MovementOf("PAYOUT_COMPLETED", d,
                {Debit(M(m, "RESERVED"), amount), Credit(I("AVAILABLE"), fee)})>>)

PayoutFailed(d, m, amount) ==
    Prog({Need("PAYOUT_RESERVED", d)},
         <<MovementOf("PAYOUT_FAILED", d,
                {Debit(M(m, "RESERVED"), amount), Credit(M(m, "AVAILABLE"), amount)})>>)

-----------------------------------------------------------------------------
(* Batches of two merchants with agents in common, a payin beside them,    *)
(* and two payouts for more than the first merchant's balance.             *)

Rows ==
    {M(1, b) : b \in Bucket} \cup {M(2, "PENDING"), M(2, "AVAILABLE")}
      \cup {I("PENDING"), I("AVAILABLE")}
      \cup {A(a, b) : a \in {1, 2}, b \in {"PENDING", "AVAILABLE"}}
Sources == {"p1", "p2", "p3", "d1", "d2"}

Settle(p, m, a) ==
    MovementOf("MERCHANT_SETTLED", p,
         Release("MERCHANT", m, 1) \cup Release("INTERNAL", 0, 1) \cup Release("AGENT", a, 1))

\* The payments arrive one after the other; the last may race a batch.
Capture(p, m, a, earlier) ==
    Prog({Need("PAYIN_CAPTURED", q) : q \in earlier},
         <<MovementOf("PAYIN_CAPTURED", p,
                {Credit(M(m, "PENDING"), 1), Credit(I("PENDING"), 1), Credit(A(a, "PENDING"), 1)})>>)

Batch(movements) ==
    Prog({Need("PAYIN_CAPTURED", m.source) : m \in Range(movements)}, movements)

Programs ==
    {Capture("p1", 1, 1, {}), Capture("p2", 1, 2, {"p1"}), Capture("p3", 2, 2, {"p2"}),
     Batch(<<Settle("p1", 1, 1), Settle("p2", 1, 2)>>),
     Batch(<<Settle("p3", 2, 2)>>),
     PayoutRequest("d1", 1, 2, {"p1", "p3"}),
     PayoutRequest("d2", 1, 2, {"p1", "p3"}),
     PayoutCompleted("d1", 1, 2, 1),
     PayoutFailed("d2", 1, 2),
     \* the unbalanced transfer of balance.service.spec.ts
     Prog({Need("PAYOUT_RESERVED", "d1")},
          <<MovementOf("MERCHANT_SETTLED", "d1",
                       {Debit(I("PENDING"), 1), Credit(M(1, "AVAILABLE"), 1)})>>),
     \* a fee line of zero
     Prog({Need("PAYOUT_RESERVED", "d2")},
          <<MovementOf("PAYIN_CAPTURED", "d1", {Credit(M(1, "PENDING"), 3), Credit(I("PENDING"), 0)})>>)}

=============================================================================
