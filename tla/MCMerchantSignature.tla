------------------------ MODULE MCMerchantSignature ------------------------
(***************************************************************************)
(* Instances of MerchantSignature for TLC.                                 *)
(***************************************************************************)
EXTENDS MerchantSignature, TLC

\* A clock that is fast or slow by as much as is tolerated: the band of the
\* timestamp has just opened, or is about to close.
Edges == {-Tolerance, Tolerance}

Verifications == Permutations(Deliveries)

=============================================================================
