----------------------------- MODULE MCPurchase -----------------------------
(***************************************************************************)
(* Instances of Purchase for TLC.  Purchases share nothing but handlers:   *)
(* one of them shows what its own callbacks and request can do to it.      *)
(***************************************************************************)
EXTENDS Purchase

One == {"p1"}
EveryFault == Fault

=============================================================================
