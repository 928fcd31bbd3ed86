--------------------------- MODULE MCDisbursement ---------------------------
(***************************************************************************)
(* Instances of Disbursement for TLC.  A payout that is not in Confirmable *)
(* is routed to a provider without a status call.                          *)
(***************************************************************************)
EXTENDS Disbursement

Two == {"d1", "d2"}
One == {"d1"}
EveryEvent == Event
AtOnceOnly == {"at once"}

=============================================================================
