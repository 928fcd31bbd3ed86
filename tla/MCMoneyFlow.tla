---------------------------- MODULE MCMoneyFlow ----------------------------
(***************************************************************************)
(* Instances of MoneyFlow for TLC: a purchase that pays for a payout, two  *)
(* agents and fees that leave halves to round.                             *)
(***************************************************************************)
EXTENDS MoneyFlow, TLC

Of(fixed, part) == [fixed |-> fixed, part |-> part]
FeeRow(internal, agent) == [internal |-> internal, agent |-> agent]

Amounts == "p1" :> 20 @@ "d1" :> 4
Provider == [PURCHASE |-> Of(0, 1), DISBURSEMENT |-> Of(1, 0)]

\* A fee with agents, one that leaves the merchant nothing, and the schema's
\* defaults.
Usual == FeeRow(Of(1, 1), Of(0, 1))
All == FeeRow(Of(18, 0), Of(0, 0))
Nothing == FeeRow(Of(0, 0), Of(0, 0))
Charges == [PURCHASE |-> {{All}, {}}, DISBURSEMENT |-> {}]

Submitted == {1 :> 8, 1 :> 3 @@ 2 :> 5}

\* A merchant with fees, registered by an agent who has 0 per cent.
Registered ==
    {[PURCHASE |-> {Usual}, DISBURSEMENT |-> {Usual}, agents |-> {1 :> 0}]}

\* The fees of a merchant nobody has configured.
Unconfigured ==
    {[PURCHASE |-> {Nothing}, DISBURSEMENT |-> {Nothing}, agents |-> {NoShares}]}

=============================================================================
