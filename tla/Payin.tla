-------------------------------- MODULE Payin --------------------------------
(***************************************************************************)
(* What payins promise, told without requests, callbacks, retries or       *)
(* crashes: a purchase ends once, as the provider has decided or, as long  *)
(* as nobody has paid, because it was given up; with a payment its money   *)
(* is credited, once; after that, the merchant may be told once.           *)
(* Purchase is the program that keeps this promise.                        *)
(***************************************************************************)
EXTENDS Integers

CONSTANT Purchases      \* purchases merchants ask for

VARIABLES
    fate,       \* what the customer and the provider make of it
    outcome,    \* how it ended, "OPEN" until then
    credited,   \* what PENDING was credited: the "net" of its fees or the "gross"
    told        \* how often the merchant was told of it

vars == <<fate, outcome, credited, told>>

Init ==
    /\ fate = [p \in Purchases |-> "none"]
    /\ outcome = [p \in Purchases |-> "OPEN"]
    /\ credited = [p \in Purchases |-> {}]
    /\ told = [p \in Purchases |-> 0]

Show(p) ==
    /\ fate[p] = "none"
    /\ outcome[p] = "OPEN"
    /\ fate' = [fate EXCEPT ![p] = "open"]
    /\ UNCHANGED <<outcome, credited, told>>

\* Nobody can pay or decline what is over; it may still expire.
Decide(p) ==
    /\ fate[p] = "open"
    /\ \E news \in {"paid", "failed", "expired"} :
          /\ outcome[p] = "OPEN" \/ news = "expired"
          /\ fate' = [fate EXCEPT ![p] = news]
    /\ UNCHANGED <<outcome, credited, told>>

Ends(p, end) ==
    /\ outcome[p] = "OPEN"
    /\ outcome' = [outcome EXCEPT ![p] = end]
    /\ UNCHANGED <<fate, told>>

GiveUp(p) ==
    /\ fate[p] \notin {"paid", "failed"}
    /\ Ends(p, "FAILED")
    /\ UNCHANGED credited

Refuse(p) ==
    /\ \/ fate[p] = "failed" /\ Ends(p, "FAILED")
       \/ fate[p] = "expired" /\ Ends(p, "EXPIRED")
    /\ UNCHANGED credited

Credit(p) ==
    /\ fate[p] = "paid"
    /\ Ends(p, "SUCCESS")
    /\ \E amount \in {"net", "gross"} : credited' = [credited EXCEPT ![p] = {amount}]

Tell(p) ==
    /\ outcome[p] = "SUCCESS"
    /\ told[p] = 0
    /\ told' = [told EXCEPT ![p] = 1]
    /\ UNCHANGED <<fate, outcome, credited>>

Next ==
    \E p \in Purchases :
        \/ Show(p)
        \/ Decide(p)
        \/ GiveUp(p)
        \/ Refuse(p)
        \/ Credit(p)
        \/ Tell(p)

Spec == Init /\ [][Next]_vars

=============================================================================
