----------------------------- MODULE Movements -----------------------------
(***************************************************************************)
(* libs/balance: what its callers hand it.  A movement is a set of legs,   *)
(* each a positive amount credited to or debited from one bucket of one    *)
(* holder, posted together for one reason and one source.                  *)
(*                                                                         *)
(* Amounts are integers counting the smallest unit the money column stores.*)
(***************************************************************************)
EXTENDS Integers, FiniteSets, FiniteSetsExt

HolderType == {"MERCHANT", "INTERNAL", "AGENT"}
Bucket == {"PENDING", "AVAILABLE", "RESERVED"}
Direction == {"CREDIT", "DEBIT"}
Reason == {"PAYIN_CAPTURED", "MERCHANT_SETTLED", "PAYOUT_RESERVED",
           "PAYOUT_COMPLETED", "PAYOUT_FAILED"}

\* Reasons whose legs only move value between the buckets of a holder.
TransferReasons == {"MERCHANT_SETTLED", "PAYOUT_RESERVED", "PAYOUT_FAILED"}

-----------------------------------------------------------------------------
(* Building a movement.                                                    *)

RowOf(type, id, bucket) == [holderType |-> type, holderId |-> id, bucket |-> bucket]

Credit(row, amount) == [row |-> row, direction |-> "CREDIT", amount |-> amount]

Debit(row, amount) == [row |-> row, direction |-> "DEBIT", amount |-> amount]

MovementOf(reason, source, legs) == [reason |-> reason, source |-> source, legs |-> legs]

DebitsOf(m) == {l \in m.legs : l.direction = "DEBIT"}

-----------------------------------------------------------------------------
(* What validate accepts.                                                  *)

Signed(l) == IF l.direction = "CREDIT" THEN l.amount ELSE -l.amount

SameHolder(r, s) == r.holderType = s.holderType /\ r.holderId = s.holderId

\* What a set of legs does to the total of the holder of row r.
NetOfHolder(legs, r) ==
    MapThenSumSet(Signed, {l \in legs : SameHolder(l.row, r)})

NetsToZero(m) == \A l \in m.legs : NetOfHolder(m.legs, l.row) = 0

Valid(m) ==
    /\ m.legs # {}
    /\ \A l \in m.legs : l.amount > 0
    /\ \A k, l \in m.legs : k.row = l.row => k = l
    /\ m.reason \in TransferReasons => NetsToZero(m)

=============================================================================
