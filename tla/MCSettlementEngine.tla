------------------------- MODULE MCSettlementEngine -------------------------
(***************************************************************************)
(* Instances of SettlementEngine for TLC.                                  *)
(***************************************************************************)
EXTENDS SettlementEngine

Default == [merchant |-> "m", method |-> "*"]
Override == [merchant |-> "m", method |-> "QRIS"]

Paid(method, paidAt, hasFee) ==
    [merchant |-> "m", method |-> method, paidAt |-> paidAt, hasFee |-> hasFee]

\* Two purchases to settle, one captured without fee rows, one without paidAt.
FewPurchases == {"p1", "p2", "noFee", "noDate"}
FewDetail == [p1     |-> Paid("QRIS", 1, TRUE),
              p2     |-> Paid("VA", 1, TRUE),
              noFee  |-> Paid("QRIS", 1, FALSE),
              noDate |-> Paid("QRIS", 0, TRUE)]

DefaultOnly == {Default}
DefaultAndOverride == {Default, Override}

TwoRuns == {"r1", "r2"}
OneRun == {"r1"}
BothDefault == [r \in TwoRuns |-> Default]
OneDefault == [r \in OneRun |-> Default]
OneEach == [r1 |-> Default, r2 |-> Override]

=============================================================================
