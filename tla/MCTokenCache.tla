---------------------------- MODULE MCTokenCache ----------------------------
(***************************************************************************)
(* Instances of TokenCache for TLC: two requests, which come to the same   *)
(* pod and can share a promise, or to two pods.                            *)
(***************************************************************************)
EXTENDS TokenCache

TwoRequests == {"r1", "r2"}
TwoPods == {"a", "b"}

SamePodOrTwo ==
    {[r \in TwoRequests |-> "a"],
     [r \in TwoRequests |-> IF r = "r1" THEN "a" ELSE "b"]}

=============================================================================
