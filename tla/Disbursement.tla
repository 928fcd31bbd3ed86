---------------------------- MODULE Disbursement ----------------------------
(***************************************************************************)
(* apps/transaction, payouts: the request that reserves the merchant's     *)
(* money and calls the provider, the provider (external), and the          *)
(* callbacks it sends, each handled on its own and in any order.           *)
(*                                                                         *)
(* A database transaction, an update and a call to the provider are one    *)
(* action each.  Every payout is for one unit, fee included: the postings  *)
(* a payout has made say where that unit is.                               *)
(***************************************************************************)
EXTENDS Integers, FiniteSets

CONSTANTS
    Disbursements,  \* payouts merchants ask for
    Confirmable,    \* those routed to MOTIONPAY, whose status can be read back
    Handlers,       \* callbacks that may be in progress at a time
    Deposit,        \* what the merchant has in AVAILABLE
    Events,         \* which of the rarer events may happen (see Event)
    MaxSent,        \* bound of the callbacks beyond those that are owed
    Retries,        \* how often the provider repeats one that was not answered 200
    MaxFailures     \* bound of the crashes and failed calls and updates

\* "at once": the payment leg answers SUCCESS.  "gateway": a payment that may
\* have gone through is answered by an HTTP error, or by what its schema refuses.
\* The others fail where they are named.
Event == {"at once", "gateway", "request", "lookup", "handler"}

ASSUME PayoutAssumption ==
    /\ Confirmable \subseteq Disbursements
    /\ Deposit \in Nat
    /\ Events \subseteq Event
    /\ MaxSent \in Nat
    /\ Retries \in Nat
    /\ MaxFailures \in Nat

VARIABLES
    status,     \* the row's status; "NONE" before it is inserted
    posted,     \* reasons of its committed movements
    request,    \* where the request that creates it is
    transfer,   \* what the provider has made of it
    told,       \* merchant webhooks posted for it
    owed,       \* callbacks on their way: the retries each has left
    sent,       \* callbacks begun that nobody owed
    handler,    \* the callbacks in progress
    failures,   \* how many things went wrong so far
    happened    \* the events so far

eventVars == <<failures, happened>>
callbackVars == <<owed, sent, handler>>
vars == <<status, posted, request, transfer, told, callbackVars, eventVars>>

Verdict == {"SUCCESS", "FAILED"}

\* Mutant: PENDING taken for a terminal status.
TerminalOrPending == {"PENDING", "SUCCESS", "FAILED", "EXPIRED", "CANCELLED"}

TerminalStatuses == {"SUCCESS", "FAILED", "EXPIRED", "CANCELLED"}

Free == [at |-> "idle"]

Init ==
    /\ status = [d \in Disbursements |-> "NONE"]
    /\ posted = [d \in Disbursements |-> {}]
    /\ request = [d \in Disbursements |-> [at |-> "none"]]
    /\ transfer = [d \in Disbursements |-> "none"]
    /\ told = [d \in Disbursements |-> 0]
    /\ owed = [d \in Disbursements |-> {}]
    /\ sent = [d \in Disbursements |-> 0]
    /\ handler = [h \in Handlers |-> Free]
    /\ failures = 0
    /\ happened = {}

Goto(d, next) == request' = [request EXCEPT ![d] = next]

Happens(event) ==
    /\ event \in Events
    /\ happened' = happened \cup {event}

Fails(event) ==
    /\ Happens(event)
    /\ failures < MaxFailures
    /\ failures' = failures + 1

-----------------------------------------------------------------------------
(* The request.                                                            *)

Available ==
    Deposit - Cardinality({d \in Disbursements : "PAYOUT_RESERVED" \in posted[d]})
            + Cardinality({d \in Disbursements : "PAYOUT_FAILED" \in posted[d]})

\* Mutant: the answer of reserve is not looked at.
ReserveUnchecked == Available \in Int

ReserveOk == Available >= 1

\* Row, fee rows and reservation in one transaction, or nothing at all.
ReserveTransactionAndBalance(d) ==
    /\ request[d].at = "none"
    /\ ReserveOk
    /\ status' = [status EXCEPT ![d] = "PENDING"]
    /\ posted' = [posted EXCEPT ![d] = {"PAYOUT_RESERVED"}]
    /\ Goto(d, [at |-> "inquiry"])
    /\ UNCHANGED <<transfer, told, callbackVars, eventVars>>

\* The inquiry resolves the account, or the payout has failed cleanly.
AccountInquiry(d) ==
    /\ request[d].at = "inquiry"
    /\ \/ Goto(d, [at |-> "payment"])
       \/ Goto(d, [at |-> "mark"])
    /\ UNCHANGED <<status, posted, told, transfer, callbackVars, eventVars>>

Owes(d) == owed' = [owed EXCEPT ![d] = @ \cup {Retries}]

\* The payment leg is answered, PENDING as a rule.
PaymentAccepted(d) ==
    /\ request[d].at = "payment"
    /\ transfer' = [transfer EXCEPT ![d] = "processing"]
    /\ Goto(d, [at |-> "record", status |-> "PENDING"])
    /\ UNCHANGED <<status, posted, told, callbackVars, eventVars>>

PaidAtOnce(d) ==
    /\ request[d].at = "payment"
    /\ Happens("at once")
    /\ transfer' = [transfer EXCEPT ![d] = "paid"]
    /\ Owes(d)
    /\ Goto(d, [at |-> "record", status |-> "SUCCESS"])
    /\ UNCHANGED <<status, posted, told, sent, handler, failures>>

\* Mutant: every failed payment leg counts as refused.
NothingIsUnknown(failure) == failure = "outcome unknown"

\* isUpstreamTransportFailure: no answer, as against an answer with an HTTP status.
OutcomeUnknown(failure) == failure = "no answer"

\* recordFailure: an unknown outcome stays PENDING, anything else is FAILED.
PaymentFails(d, failure) ==
    /\ request[d].at = "payment"
    /\ Goto(d, [at |-> IF OutcomeUnknown(failure) THEN "done" ELSE "mark"])
    /\ UNCHANGED <<status, posted, told, callbackVars, failures>>

PaymentRefused(d) ==
    /\ PaymentFails(d, "refused")
    /\ transfer' = [transfer EXCEPT ![d] = "rejected"]
    /\ UNCHANGED happened

\* A call that may have got through: no answer, or an HTTP error for one.
PaymentLost(d) ==
    /\ \/ PaymentFails(d, "no answer") /\ UNCHANGED happened
       \/ PaymentFails(d, "HTTP error") /\ Happens("gateway")
    /\ transfer' \in {transfer, [transfer EXCEPT ![d] = "processing"]}

\* The update asks for nothing but the row's id.
RecordUpstreamResult(d) ==
    /\ request[d].at = "record"
    /\ status' = [status EXCEPT ![d] = request[d].status]
    /\ Goto(d, [at |-> "done"])
    /\ UNCHANGED <<posted, transfer, told, callbackVars, eventVars>>

\* Nor does this one; and it posts nothing.
MarkFailed(d) ==
    /\ request[d].at = "mark"
    /\ status' = [status EXCEPT ![d] = "FAILED"]
    /\ Goto(d, [at |-> "done"])
    /\ UNCHANGED <<posted, transfer, told, callbackVars, eventVars>>

\* A crash, or an update that fails and is logged: the row stays as it is.
RequestDies(d) ==
    /\ request[d].at \notin {"none", "done"}
    /\ Fails("request")
    /\ Goto(d, [at |-> "done"])
    /\ UNCHANGED <<status, posted, told, transfer, callbackVars>>

-----------------------------------------------------------------------------
(* The provider.                                                           *)

Decide(d) ==
    /\ transfer[d] = "processing"
    /\ \E outcome \in {"paid", "rejected"} :
          transfer' = [transfer EXCEPT ![d] = outcome]
    /\ Owes(d)
    /\ UNCHANGED <<status, posted, told, request, sent, handler, eventVars>>

\* A callback before there is news, or one more of the same.
CallAgain(d) ==
    /\ transfer[d] # "none"
    /\ sent[d] < MaxSent
    /\ sent' = [sent EXCEPT ![d] = @ + 1]
    /\ Owes(d)
    /\ UNCHANGED <<status, posted, told, request, transfer, handler, eventVars>>

-----------------------------------------------------------------------------
(* The callback: find the row, confirm with the provider, settle.          *)

Release(h) == handler' = [handler EXCEPT ![h] = Free]

\* Mutant: whatever goes wrong is answered 200.
AnswerOk(h) == Release(h) /\ UNCHANGED owed

\* HTTP 500: the provider tries again unless it has tried enough.
AskRetry(h) ==
    /\ LET left == handler[h].left
       IN  owed' = [owed EXCEPT ![handler[h].d] =
                      IF left = 0 THEN @ ELSE @ \cup {left - 1}]
    /\ Release(h)

Delivered(d, left) ==
    /\ left \in owed[d]
    /\ owed' = [owed EXCEPT ![d] = @ \ {left}]

\* Nothing says the callback tells the truth.
Handle(h, d, left, claimed) ==
    /\ handler[h] = Free
    /\ Delivered(d, left)
    /\ handler' = [handler EXCEPT ![h] =
                     IF status[d] \in TerminalStatuses THEN Free
                     ELSE [at |-> "confirm", d |-> d, left |-> left, claimed |-> claimed]]
    /\ UNCHANGED <<status, posted, told, request, transfer, sent, eventVars>>

\* The lookup throws: answered 200, like an unknown transaction.
LookupFails(h, d, left) ==
    /\ handler[h] = Free
    /\ Delivered(d, left)
    /\ Fails("lookup")
    /\ UNCHANGED <<status, posted, told, request, transfer, sent, handler>>

\* Mutant: the notification is the source of truth.
TakesItsWord(h) == handler[h].claimed

\* What the provider says when asked.
Confirmed(h) ==
    CASE transfer[handler[h].d] = "paid"     -> "SUCCESS"
      [] transfer[handler[h].d] = "rejected" -> "FAILED"
      [] OTHER                               -> "PENDING"

ConfirmWithProvider(h) ==
    /\ handler[h].at = "confirm"
    /\ handler[h].d \in Confirmable
    /\ handler' = [handler EXCEPT ![h] =
                     IF Confirmed(h) = "PENDING" THEN Free
                     ELSE [at |-> "settle", d |-> @.d, left |-> @.left, status |-> Confirmed(h)]]
    /\ UNCHANGED <<status, posted, told, request, transfer, owed, sent, eventVars>>

\* No client for the provider.
CannotConfirm(h) ==
    /\ handler[h].at = "confirm"
    /\ handler[h].d \notin Confirmable
    /\ AskRetry(h)
    /\ UNCHANGED <<status, posted, told, request, transfer, sent, eventVars>>

OutcomeReason(verdict) ==
    IF verdict = "SUCCESS" THEN "PAYOUT_COMPLETED" ELSE "PAYOUT_FAILED"

\* Status and movement in one transaction; the unique key of the movement's
\* entries undoes both when another callback was first.
Settle(h) ==
    /\ handler[h].at = "settle"
    /\ LET d == handler[h].d
           reason == OutcomeReason(handler[h].status)
       IN  IF reason \in posted[d]
           THEN AskRetry(h) /\ UNCHANGED <<status, posted>>
           ELSE /\ status' = [status EXCEPT ![d] = handler[h].status]
                /\ posted' = [posted EXCEPT ![d] = @ \cup {reason}]
                /\ handler' = [handler EXCEPT ![h] = [@ EXCEPT !.at = "notify"]]
                /\ UNCHANGED owed
    /\ UNCHANGED <<request, transfer, told, sent, eventVars>>

\* A webhook the merchant does not answer is logged and forgotten.
NotifyMerchant(h) ==
    /\ handler[h].at = "notify"
    /\ told' \in {told, [told EXCEPT ![handler[h].d] = @ + 1]}
    /\ Release(h)
    /\ UNCHANGED <<status, posted, request, transfer, owed, sent, eventVars>>

\* The status read fails, the transaction fails, or the process dies.
HandlerFails(h) ==
    /\ handler[h] # Free
    /\ Fails("handler")
    /\ AskRetry(h)
    /\ UNCHANGED <<status, posted, told, request, transfer, sent>>

-----------------------------------------------------------------------------
RequestStep(d) ==
    \/ AccountInquiry(d)
    \/ PaymentAccepted(d)
    \/ PaidAtOnce(d)
    \/ PaymentRefused(d)
    \/ PaymentLost(d)
    \/ RecordUpstreamResult(d)
    \/ MarkFailed(d)

HandlerStep(h) ==
    \/ ConfirmWithProvider(h)
    \/ CannotConfirm(h)
    \/ Settle(h)
    \/ NotifyMerchant(h)

Receive(d) ==
    \E h \in Handlers, left \in 0 .. Retries, claimed \in Verdict :
        Handle(h, d, left, claimed)

Next ==
    \/ \E d \in Disbursements :
          \/ ReserveTransactionAndBalance(d)
          \/ RequestStep(d)
          \/ RequestDies(d)
          \/ Decide(d)
          \/ CallAgain(d)
          \/ Receive(d)
          \/ \E h \in Handlers, left \in 0 .. Retries : LookupFails(h, d, left)
    \/ \E h \in Handlers : HandlerStep(h) \/ HandlerFails(h)

Spec == Init /\ [][Next]_vars

(***************************************************************************)
(* A request that has begun goes on, the provider comes to a decision and  *)
(* delivers what it owes, a handler goes on.  Nothing obliges a merchant   *)
(* to ask, a provider to repeat itself, or anything to fail.               *)
(***************************************************************************)
Fairness ==
    /\ \A d \in Disbursements : /\ WF_vars(RequestStep(d))
                                /\ WF_vars(Decide(d))
                                /\ SF_vars(Receive(d))
    /\ \A h \in Handlers : WF_vars(HandlerStep(h))

FairSpec == Spec /\ Fairness

-----------------------------------------------------------------------------
(* Properties                                                              *)

TypeOK ==
    /\ status \in [Disbursements -> {"NONE", "PENDING"} \cup TerminalStatuses]
    /\ posted \in [Disbursements ->
                     SUBSET {"PAYOUT_RESERVED", "PAYOUT_COMPLETED", "PAYOUT_FAILED"}]
    /\ request \in [Disbursements ->
                     [at : {"none", "inquiry", "payment", "mark", "done"}]
                       \cup [at : {"record"}, status : {"PENDING", "SUCCESS"}]]
    /\ transfer \in [Disbursements -> {"none", "processing", "paid", "rejected"}]
    /\ told \in [Disbursements -> Nat]
    /\ owed \in [Disbursements -> SUBSET (0 .. Retries)]
    /\ sent \in [Disbursements -> 0 .. MaxSent]
    /\ handler \in [Handlers ->
           {Free} \cup [at : {"confirm"}, d : Disbursements, left : 0 .. Retries,
                        claimed : Verdict]
                  \cup [at : {"settle", "notify"}, d : Disbursements, left : 0 .. Retries,
                        status : Verdict]]
    /\ failures \in 0 .. MaxFailures
    /\ happened \subseteq Events

\* Where the postings of a payout say its money is.
MoneyOf(d) ==
    IF "PAYOUT_RESERVED" \notin posted[d] THEN "own"
    ELSE IF "PAYOUT_COMPLETED" \in posted[d] THEN "spent"
    ELSE IF "PAYOUT_FAILED" \in posted[d] THEN "returned" ELSE "reserved"

Promise == INSTANCE Payout WITH money <- [d \in Disbursements |-> MoneyOf(d)],
                                fate <- transfer

(***************************************************************************)
(* The callback is a trigger, never a source of truth: whatever callbacks  *)
(* say and however they interleave, the reservation comes before the call  *)
(* to the provider and is covered, is consumed or given back once and as   *)
(* the provider decided, and the merchant is told once and only after      *)
(* that.                                                                   *)
(***************************************************************************)
PayoutKeepsPromise == Promise!Spec

(***************************************************************************)
(* Never assert a failure that is not verified: the provider is not about  *)
(* to pay, and has not paid, a payout whose status is FAILED.              *)
(***************************************************************************)
FailureIsVerified ==
    \A d \in Disbursements :
        status[d] = "FAILED" => transfer[d] \in {"none", "rejected"}

(***************************************************************************)
(* Only an HTTP error in front of a payment that was taken makes a FAILED  *)
(* payout of one that may be paid: no crash, timeout, early callback or    *)
(* overtaken update does.                                                  *)
(***************************************************************************)
FailureIsVerifiedBarGateway == FailureIsVerified \/ "gateway" \in happened

(***************************************************************************)
(* The provider is never asked to pay out more than the merchant has, over *)
(* all payouts, whatever was given back in between.                        *)
(***************************************************************************)
NeverOverspent ==
    Cardinality({d \in Disbursements : transfer[d] \in {"processing", "paid"}})
        <= Deposit

(***************************************************************************)
(* RESERVED empties one of two ways: a payout that is over has consumed    *)
(* its reservation or given it back.                                       *)
(***************************************************************************)
ReservationIsReleased ==
    \A d \in Disbursements :
        status[d] \in TerminalStatuses =>
            posted[d] \cap {"PAYOUT_COMPLETED", "PAYOUT_FAILED"} # {}

\* A callback that is not handled yet, or a handler that has not given up, with
\* the retries left for all that can still go wrong.
CallbackIsComing(d) ==
    \/ \E left \in owed[d] : left + failures >= Retries
    \/ \E h \in Handlers : /\ handler[h].at \in {"confirm", "settle"}
                          /\ handler[h].d = d
                          /\ handler[h].left + failures >= Retries

(***************************************************************************)
(* Nothing but a lookup that fails, or one failure more than the provider  *)
(* has retries, loses the callback a paid payout waits for: until the      *)
(* reservation is consumed its row stays open and the callback is coming.  *)
(***************************************************************************)
CompletionIsComing ==
    \A d \in Confirmable :
        /\ transfer[d] = "paid"
        /\ happened \cap {"at once", "gateway", "lookup"} = {}
        /\ failures <= Retries
        =>  \/ "PAYOUT_COMPLETED" \in posted[d]
            \/ status[d] \notin TerminalStatuses /\ CallbackIsComing(d)

(***************************************************************************)
(* Every payout the provider has paid consumes its reservation in the end, *)
(* except that a payment answered SUCCESS at once or by a gateway's error, *)
(* a lookup that fails, and more failures than the provider has retries    *)
(* may keep it from that.                                                  *)
(***************************************************************************)
CompletedUnlessLost ==
    \A d \in Confirmable :
        transfer[d] = "paid" ~>
            \/ "PAYOUT_COMPLETED" \in posted[d]
            \/ happened \cap {"at once", "gateway", "lookup"} # {}
            \/ failures > Retries

=============================================================================
