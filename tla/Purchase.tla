------------------------------- MODULE Purchase -------------------------------
(***************************************************************************)
(* apps/transaction, QRIS payins: the request that reserves a row and asks *)
(* the provider for a QR code, the customer and the provider (external),   *)
(* and the callbacks, each handled on its own and in any order.            *)
(*                                                                         *)
(* A database transaction, an update, a call to the provider and a call to *)
(* the fee service are one action each.  A callback finds its purchase by  *)
(* the provider's reference, which only RecordUpstreamResult writes.       *)
(***************************************************************************)
EXTENDS Integers

CONSTANTS
    Purchases,      \* purchases merchants ask for
    Handlers,       \* callbacks that may be in progress at a time
    Faults,         \* which steps may fail (see Fault)
    MaxSent,        \* bound of the notifications for one purchase
    Retries,        \* how often the provider repeats one that was not answered 200
    MaxFailures     \* bound of the failures

\* "answer": an HTTP error answers a call that did create the QR code.
Fault == {"request", "record", "answer", "lookup", "handler", "fee", "merchant"}

ASSUME PurchaseAssumption ==
    /\ Faults \subseteq Fault
    /\ MaxSent \in Nat
    /\ Retries \in Nat
    /\ MaxFailures \in Nat

VARIABLES
    status,     \* the row's status; "NONE" before it is inserted
    reference,  \* is providerReference recorded?
    dated,      \* is paidAt recorded?
    fees,       \* how many breakdowns the fee rows hold
    captured,   \* the PAYIN_CAPTURED movements: "net" of fees, or the "gross"
    told,       \* merchant webhooks posted for it
    request,    \* where the request that creates it is
    qr,         \* what the provider has made of it
    owed,       \* notifications on their way: what they say, retries left
    sent,       \* notifications begun
    handler,    \* the callbacks in progress
    failures,   \* how many things went wrong so far
    happened    \* which of the faults

rowVars == <<status, reference, dated, fees, captured>>
faultVars == <<failures, happened>>
vars == <<rowVars, told, request, qr, owed, sent, handler, faultVars>>

\* Mutant: the status of the create response ends it.
TerminalOrPending == {"SUCCESS", "FAILED", "EXPIRED", "CANCELLED", "PENDING"}

TerminalStatuses == {"SUCCESS", "FAILED", "EXPIRED", "CANCELLED"}

Free == [at |-> "idle"]

Init ==
    /\ status = [p \in Purchases |-> "NONE"]
    /\ reference = [p \in Purchases |-> FALSE]
    /\ dated = [p \in Purchases |-> FALSE]
    /\ fees = [p \in Purchases |-> 0]
    /\ captured = [p \in Purchases |-> {}]
    /\ told = [p \in Purchases |-> 0]
    /\ request = [p \in Purchases |-> "none"]
    /\ qr = [p \in Purchases |-> "none"]
    /\ owed = [p \in Purchases |-> {}]
    /\ sent = [p \in Purchases |-> 0]
    /\ handler = [h \in Handlers |-> Free]
    /\ failures = 0
    /\ happened = {}

Goto(p, next) == request' = [request EXCEPT ![p] = next]

Fails(fault) ==
    /\ fault \in Faults
    /\ failures < MaxFailures
    /\ failures' = failures + 1
    /\ happened' = happened \cup {fault}

-----------------------------------------------------------------------------
(* The request.                                                            *)

ReserveTransaction(p) ==
    /\ request[p] = "none"
    /\ status' = [status EXCEPT ![p] = "PENDING"]
    /\ Goto(p, "call")
    /\ UNCHANGED <<reference, dated, fees, captured, told, qr, owed, sent, handler, faultVars>>

\* createQRIS answers with the QR code.
CallUpstream(p) ==
    /\ request[p] = "call"
    /\ qr' = [qr EXCEPT ![p] = "open"]
    /\ Goto(p, "record")
    /\ UNCHANGED <<rowVars, told, owed, sent, handler, faultVars>>

\* The provider refuses, or there is no client for it.
UpstreamRefuses(p) ==
    /\ request[p] = "call"
    /\ Goto(p, "mark")
    /\ UNCHANGED <<rowVars, told, qr, owed, sent, handler, faultVars>>

\* No answer: PENDING, whether or not there is a QR code somewhere.
UpstreamTimesOut(p) ==
    /\ request[p] = "call"
    /\ qr' \in {qr, [qr EXCEPT ![p] = "open"]}
    /\ Goto(p, "done")
    /\ UNCHANGED <<rowVars, told, owed, sent, handler, faultVars>>

\* An HTTP error counts as a refusal, whatever is behind it.
UpstreamErrors(p) ==
    /\ request[p] = "call"
    /\ Fails("answer")
    /\ qr' = [qr EXCEPT ![p] = "open"]
    /\ Goto(p, "mark")
    /\ UNCHANGED <<rowVars, told, owed, sent, handler>>

\* The status is the one of the create response: the QR code is open.
RecordUpstreamResult(p) ==
    /\ request[p] = "record"
    /\ status' = [status EXCEPT ![p] = "PENDING"]
    /\ reference' = [reference EXCEPT ![p] = TRUE]
    /\ Goto(p, "shown")
    /\ UNCHANGED <<dated, fees, captured, told, qr, owed, sent, handler, faultVars>>

\* The update fails and is logged: the merchant gets the QR code all the same.
RecordFails(p) ==
    /\ request[p] = "record"
    /\ Fails("record")
    /\ Goto(p, "shown")
    /\ UNCHANGED <<rowVars, told, qr, owed, sent, handler>>

MarkFailed(p) ==
    /\ request[p] = "mark"
    /\ status' = [status EXCEPT ![p] = "FAILED"]
    /\ Goto(p, "done")
    /\ UNCHANGED <<reference, dated, fees, captured, told, qr, owed, sent, handler, faultVars>>

\* The process ends before the merchant is answered.
RequestDies(p) ==
    /\ request[p] \in {"call", "record", "mark"}
    /\ Fails("request")
    /\ Goto(p, "done")
    /\ UNCHANGED <<rowVars, told, qr, owed, sent, handler>>

-----------------------------------------------------------------------------
(* The customer and the provider.                                          *)

\* Nobody pays a QR code the merchant was never given.
Outcome(p) ==
    IF request[p] = "shown" THEN {"paid", "failed", "expired"} ELSE {"expired"}

Notification(p, said) == [said |-> said, left |-> Retries]

\* The fate of the QR code, and the notification of it.
Decide(p) ==
    /\ qr[p] = "open"
    /\ \E outcome \in Outcome(p) :
          /\ qr' = [qr EXCEPT ![p] = outcome]
          /\ owed' = [owed EXCEPT ![p] = @ \cup {Notification(p, outcome)}]
    /\ UNCHANGED <<rowVars, told, request, sent, handler, faultVars>>

\* A notification before there is news, or one more of the same.
NotifyAgain(p) ==
    /\ qr[p] # "none"
    /\ sent[p] < MaxSent
    /\ sent' = [sent EXCEPT ![p] = @ + 1]
    /\ owed' = [owed EXCEPT ![p] = @ \cup {Notification(p, qr[p])}]
    /\ UNCHANGED <<rowVars, told, request, qr, handler, faultVars>>

-----------------------------------------------------------------------------
(* The callback.                                                           *)

Move(h, next) == handler' = [handler EXCEPT ![h] = next]

\* Mutant: whatever goes wrong is answered 200.
AnswerOk(h) == Move(h, Free) /\ UNCHANGED owed

\* HTTP 500: the provider tries again unless it has tried enough.
AskRetry(h) ==
    /\ Move(h, Free)
    /\ LET n == handler[h].news
           again == IF n.left = 0 THEN {} ELSE {[n EXCEPT !.left = @ - 1]}
       IN  owed' = [owed EXCEPT ![handler[h].p] = @ \cup again]

Delivered(p, n) ==
    /\ n \in owed[p]
    /\ owed' = [owed EXCEPT ![p] = @ \ {n}]

\* Mutant: found by our own reference, which is there from the start.
FoundByOwnReference(p) == status[p] # "NONE"

Found(p) == reference[p]

\* Answered 200 at once when there is no such reference, or it is all over.
Handle(h, p, n) ==
    /\ handler[h] = Free
    /\ Delivered(p, n)
    /\ Move(h, IF ~Found(p) \/ status[p] \in TerminalStatuses THEN Free
               ELSE [at |-> "confirm", p |-> p, news |-> n])
    /\ UNCHANGED <<rowVars, told, request, qr, sent, faultVars>>

\* The lookup throws: answered 200, like an unknown reference.
LookupFails(h, p, n) ==
    /\ handler[h] = Free
    /\ Fails("lookup")
    /\ Delivered(p, n)
    /\ UNCHANGED <<rowVars, told, request, qr, sent, handler>>

\* Mutant: the notification is the source of truth.
TakesItsWord(h) ==
    IF handler[h].news.said = "open" THEN "SUCCESS" ELSE "FAILED"

\* mapMotionPayStatus of what the provider says when asked.
Confirmed(h) ==
    CASE qr[handler[h].p] = "paid"    -> "SUCCESS"
      [] qr[handler[h].p] = "failed"  -> "FAILED"
      [] qr[handler[h].p] = "expired" -> "EXPIRED"
      [] OTHER                        -> "PENDING"

EarnsFees(verdict) == verdict = "SUCCESS"

ConfirmWithProvider(h) ==
    /\ handler[h].at = "confirm"
    /\ Move(h, CASE Confirmed(h) = "PENDING"  -> Free
                 [] EarnsFees(Confirmed(h)) ->
                       [handler[h] EXCEPT !.at = "fee"]
                 [] OTHER ->
                       [at     |-> "settle", p |-> handler[h].p, news |-> handler[h].news,
                        status |-> Confirmed(h), amount |-> "none"])
    /\ UNCHANGED <<rowVars, told, request, qr, owed, sent, faultVars>>

\* calculateFee answers, or fails and there is no breakdown.
CalculateFee(h) ==
    /\ handler[h].at = "fee"
    /\ \E amount \in {"net", "gross"} :
          /\ IF amount = "net" THEN UNCHANGED faultVars ELSE Fails("fee")
          /\ Move(h, [at     |-> "settle", p |-> handler[h].p, news |-> handler[h].news,
                      status |-> Confirmed(h), amount |-> amount])
    /\ UNCHANGED <<rowVars, told, request, qr, owed, sent>>

\* Mutant: a table without its unique key.
NoUniqueKey(p) == p \notin Purchases

\* The movement's entries are there already: P2002, everything is undone.
Duplicate(p) == captured[p] # {}

Tells(h) == handler[h].status = "SUCCESS"

\* Mutant: the fee rows without the movement, or the other way round.
FeesAnyway(h) == 1

FeesOf(h) == IF handler[h].amount = "net" THEN 1 ELSE 0

\* Status, paidAt, fee rows and movement in one transaction.  What paidAt
\* becomes, the notification says.
Settle(h) ==
    /\ handler[h].at = "settle"
    /\ LET p == handler[h].p
           amount == handler[h].amount
       IN  IF amount # "none" /\ Duplicate(p)
           THEN AskRetry(h) /\ UNCHANGED rowVars
           ELSE /\ status' = [status EXCEPT ![p] = handler[h].status]
                /\ dated' = [dated EXCEPT ![p] = handler[h].news.said = "paid"]
                /\ fees' = [fees EXCEPT ![p] = @ + FeesOf(h)]
                /\ captured' = [captured EXCEPT ![p] = @ \cup ({amount} \ {"none"})]
                /\ Move(h, IF Tells(h) THEN [handler[h] EXCEPT !.at = "notify"] ELSE Free)
                /\ UNCHANGED <<reference, owed>>
    /\ UNCHANGED <<told, request, qr, sent, faultVars>>

\* A webhook the merchant does not answer is logged and forgotten.
NotifyMerchant(h) ==
    /\ handler[h].at = "notify"
    /\ \/ told' = [told EXCEPT ![handler[h].p] = @ + 1] /\ UNCHANGED faultVars
       \/ Fails("merchant") /\ UNCHANGED told
    /\ Move(h, Free)
    /\ UNCHANGED <<rowVars, request, qr, owed, sent>>

\* The status read fails, the transaction fails, or the process ends.
HandlerFails(h) ==
    /\ handler[h] # Free
    /\ Fails("handler")
    /\ AskRetry(h)
    /\ UNCHANGED <<rowVars, told, request, qr, sent>>

-----------------------------------------------------------------------------
RequestStep(p) ==
    \/ CallUpstream(p)
    \/ UpstreamRefuses(p)
    \/ UpstreamTimesOut(p)
    \/ RecordUpstreamResult(p)
    \/ MarkFailed(p)

HandlerStep(h) ==
    \/ ConfirmWithProvider(h)
    \/ CalculateFee(h)
    \/ Settle(h)
    \/ NotifyMerchant(h)

Receive(p) == \E h \in Handlers : \E n \in owed[p] : Handle(h, p, n)

Next ==
    \/ \E p \in Purchases :
          \/ ReserveTransaction(p)
          \/ RequestStep(p)
          \/ UpstreamErrors(p)
          \/ RecordFails(p)
          \/ RequestDies(p)
          \/ Decide(p)
          \/ NotifyAgain(p)
          \/ Receive(p)
          \/ \E h \in Handlers : \E n \in owed[p] : LookupFails(h, p, n)
    \/ \E h \in Handlers : HandlerStep(h) \/ HandlerFails(h)

Spec == Init /\ [][Next]_vars

(***************************************************************************)
(* A request that has begun goes on, the provider comes to a decision and  *)
(* delivers what it owes, a handler goes on.  Nobody has to ask for a      *)
(* purchase, and nothing has to fail.                                      *)
(***************************************************************************)
Fairness ==
    /\ \A p \in Purchases : /\ WF_vars(RequestStep(p))
                            /\ WF_vars(Decide(p))
                            /\ SF_vars(Receive(p))
    /\ \A h \in Handlers : WF_vars(HandlerStep(h))

FairSpec == Spec /\ Fairness

-----------------------------------------------------------------------------
(* Properties                                                              *)

Message == [said : {"open", "paid", "failed", "expired"}, left : 0 .. Retries]

TypeOK ==
    /\ status \in [Purchases -> {"NONE", "PENDING"} \cup TerminalStatuses]
    /\ reference \in [Purchases -> BOOLEAN]
    /\ dated \in [Purchases -> BOOLEAN]
    /\ fees \in [Purchases -> Nat]
    /\ captured \in [Purchases -> SUBSET {"net", "gross"}]
    /\ told \in [Purchases -> Nat]
    /\ request \in [Purchases -> {"none", "call", "record", "mark", "shown", "done"}]
    /\ qr \in [Purchases -> {"none", "open", "paid", "failed", "expired"}]
    /\ owed \in [Purchases -> SUBSET Message]
    /\ sent \in [Purchases -> 0 .. MaxSent]
    /\ handler \in [Handlers ->
          {Free} \cup [at : {"confirm", "fee"}, p : Purchases, news : Message]
                 \cup [at : {"settle", "notify"}, p : Purchases, news : Message,
                       status : TerminalStatuses, amount : {"none", "net", "gross"}]]
    /\ failures \in 0 .. MaxFailures
    /\ happened \subseteq Faults

(***************************************************************************)
(* The status never disagrees with the provider, and never with the        *)
(* ledger: SUCCESS and a captured movement are the same thing and need the *)
(* customer's money, FAILED and EXPIRED rule it out.                       *)
(***************************************************************************)
StatusIsTrue ==
    \A p \in Purchases :
        /\ status[p] = "SUCCESS" <=> captured[p] # {}
        /\ status[p] = "SUCCESS" => qr[p] = "paid"
        /\ status[p] \in {"FAILED", "EXPIRED"} => qr[p] # "paid"

(***************************************************************************)
(* What settlement relies on: a purchase has fee rows exactly if PENDING   *)
(* was credited net of them, and one breakdown only, though two callbacks  *)
(* may have asked for fees and only one of them got an answer.             *)
(***************************************************************************)
LegsMatchFees ==
    \A p \in Purchases :
        /\ captured[p] # {"net", "gross"}
        /\ fees[p] = IF captured[p] = {"net"} THEN 1 ELSE 0

\* How the row says the purchase ended.
OutcomeOf(p) == IF status[p] \in TerminalStatuses THEN status[p] ELSE "OPEN"

Promise == INSTANCE Payin WITH fate <- qr,
                               outcome <- [p \in Purchases |-> OutcomeOf(p)],
                               credited <- captured

(***************************************************************************)
(* Whatever is notified, however often and concurrently: a purchase ends   *)
(* once, and as the provider decided unless it was given up unpaid; its    *)
(* money is credited once and in the step that ends it; and the merchant   *)
(* is told at most once, and of nothing but that.                          *)
(***************************************************************************)
PayinKeepsPromise == Promise!Spec

(***************************************************************************)
(* Statuses a transaction can never move out of.  Unlike a payout, a       *)
(* purchase is not found by a callback before its request has written      *)
(* what the provider answered.                                             *)
(***************************************************************************)
TerminalIsFinal == [][
    \A p \in Purchases :
        status[p] \in TerminalStatuses => status'[p] = status[p]]_vars

\* A notification that is not handled yet, or a handler that has not given up,
\* with the retries left for all that can still go wrong.
NotificationIsComing(p) ==
    \/ \E n \in owed[p] : n.left + failures >= Retries
    \/ \E h \in Handlers : /\ handler[h].at \in {"confirm", "fee", "settle"}
                          /\ handler[h].p = p
                          /\ handler[h].news.left + failures >= Retries

(***************************************************************************)
(* A payment that was made or refused reaches the row: until then the row  *)
(* can be found and the notification is coming, whatever was notified      *)
(* before, unless the reference was not recorded, a lookup failed or       *)
(* failures outnumber the retries.                                         *)
(***************************************************************************)
OutcomeIsComing ==
    \A p \in Purchases :
        /\ qr[p] \in {"paid", "failed"}
        /\ happened \cap {"record", "lookup"} = {}
        /\ failures <= Retries
        =>  \/ status[p] \in TerminalStatuses
            \/ reference[p] /\ NotificationIsComing(p)

(***************************************************************************)
(* Two faults alone can keep it from being captured: the provider's        *)
(* reference was not recorded, or a lookup failed and was answered 200.    *)
(* No other failure, repetition or order of callbacks does, as long as the *)
(* provider repeats a notification more often than handling it fails.      *)
(***************************************************************************)
CapturedUnlessLost ==
    \A p \in Purchases :
        qr[p] = "paid" ~>
            \/ captured[p] # {}
            \/ happened \cap {"record", "lookup"} # {}
            \/ failures > Retries

=============================================================================
