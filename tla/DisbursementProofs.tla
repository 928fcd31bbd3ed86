------------------------- MODULE DisbursementProofs -------------------------
(***************************************************************************)
(* Theorems about Disbursement, for any payouts, providers, handlers,      *)
(* deposit, events, numbers of callbacks, retries and failures.            *)
(***************************************************************************)
EXTENDS Disbursement, FiniteSetTheorems, TLAPS

-----------------------------------------------------------------------------
(* Types.                                                                  *)

Confirming == [at : {"confirm"}, d : Disbursements, left : 0 .. Retries, claimed : Verdict]

Settling == [at : {"settle", "notify"}, d : Disbursements, left : 0 .. Retries,
             status : Verdict]

HandlersTyped == handler \in [Handlers -> {Free} \cup Confirming \cup Settling]

LEMMA HandlerTypes == TypeOK => HandlersTyped
BY DEF TypeOK, HandlersTyped, Confirming, Settling

\* What the record of a handler holds depends on where it is.
LEMMA Shapes ==
    ASSUME TypeOK, NEW h \in Handlers
    PROVE  /\ handler[h].at = "idle" <=> handler[h] = Free
           /\ handler[h] # Free => /\ handler[h].d \in Disbursements
                                   /\ handler[h].left \in 0 .. Retries
           /\ handler[h].at = "confirm" => handler[h] \in Confirming
           /\ handler[h].at \in {"settle", "notify"} =>
                 handler[h] \in Settling /\ handler[h].status \in Verdict
BY HandlerTypes DEF Free, HandlersTyped, Confirming, Settling

LEMMA InitTyped == Init => TypeOK
BY PayoutAssumption DEF Init, TypeOK, Free

LEMMA HappensTyped ==
    ASSUME TypeOK, NEW event, Happens(event)
    PROVE  happened' \subseteq Events
BY DEF Happens, TypeOK

LEMMA FailsTyped ==
    ASSUME TypeOK, NEW event, Fails(event)
    PROVE  failures' \in 0 .. MaxFailures /\ happened' \subseteq Events
BY PayoutAssumption DEF Fails, Happens, TypeOK

LEMMA OwesTyped ==
    ASSUME TypeOK, NEW d \in Disbursements, Owes(d)
    PROVE  owed' \in [Disbursements -> SUBSET (0 .. Retries)]
BY PayoutAssumption DEF Owes, TypeOK

LEMMA AskRetryTyped ==
    ASSUME TypeOK, NEW h \in Handlers, handler[h] # Free, AskRetry(h)
    PROVE  HandlersTyped' /\ owed' \in [Disbursements -> SUBSET (0 .. Retries)]
<1>1. handler[h].d \in Disbursements /\ handler[h].left \in 0 .. Retries
  BY Shapes
<1>2. HandlersTyped'
  BY HandlerTypes DEF AskRetry, Release, HandlersTyped
<1>3. handler[h].left # 0 => handler[h].left - 1 \in 0 .. Retries
  BY <1>1, PayoutAssumption
<1>. QED
  BY <1>1, <1>2, <1>3 DEF AskRetry, TypeOK

LEMMA NextTyped == TypeOK /\ [Next]_vars => TypeOK'
<1>. SUFFICES ASSUME TypeOK, [Next]_vars PROVE TypeOK'
  OBVIOUS
<1>. USE DEF callbackVars, eventVars
<1>1. ASSUME NEW d \in Disbursements, ReserveTransactionAndBalance(d) PROVE TypeOK'
  BY <1>1 DEF ReserveTransactionAndBalance, Goto, TypeOK
<1>2. ASSUME NEW d \in Disbursements, AccountInquiry(d) PROVE TypeOK'
  BY <1>2 DEF AccountInquiry, Goto, TypeOK
<1>3. ASSUME NEW d \in Disbursements, PaymentAccepted(d) PROVE TypeOK'
  BY <1>3 DEF PaymentAccepted, Goto, TypeOK
<1>4. ASSUME NEW d \in Disbursements, PaidAtOnce(d) PROVE TypeOK'
  BY <1>4, OwesTyped, HappensTyped DEF PaidAtOnce, Goto, TypeOK
<1>5. ASSUME NEW d \in Disbursements, PaymentRefused(d) PROVE TypeOK'
  BY <1>5 DEF PaymentRefused, PaymentFails, Goto, TypeOK
<1>6. ASSUME NEW d \in Disbursements, PaymentLost(d) PROVE TypeOK'
  <2>1. happened' \subseteq Events
    <3>1. CASE UNCHANGED happened
      BY <3>1 DEF TypeOK
    <3>2. CASE Happens("gateway")
      BY <3>2, HappensTyped
    <3>. QED
      BY <1>6, <3>1, <3>2 DEF PaymentLost
  <2>2. transfer' \in [Disbursements -> {"none", "processing", "paid", "rejected"}]
    BY <1>6 DEF PaymentLost, TypeOK
  <2>3. PICK stage \in {"mark", "done"} : request' = [request EXCEPT ![d] = [at |-> stage]]
    BY <1>6 DEF PaymentLost, PaymentFails, Goto
  <2>4. UNCHANGED <<status, posted, told, owed, sent, handler, failures>>
    BY <1>6 DEF PaymentLost, PaymentFails
  <2>. QED
    BY <2>1, <2>2, <2>3, <2>4 DEF TypeOK
<1>7. ASSUME NEW d \in Disbursements, RecordUpstreamResult(d) PROVE TypeOK'
  <2>1. request[d].status \in {"PENDING", "SUCCESS"}
    BY <1>7 DEF RecordUpstreamResult, TypeOK
  <2>. QED
    BY <1>7, <2>1 DEF RecordUpstreamResult, Goto, TypeOK, TerminalStatuses
<1>8. ASSUME NEW d \in Disbursements, MarkFailed(d) PROVE TypeOK'
  BY <1>8 DEF MarkFailed, Goto, TypeOK, TerminalStatuses
<1>9. ASSUME NEW d \in Disbursements, RequestDies(d) PROVE TypeOK'
  BY <1>9, FailsTyped DEF RequestDies, Goto, TypeOK
<1>10. ASSUME NEW d \in Disbursements, Decide(d) PROVE TypeOK'
  BY <1>10, OwesTyped DEF Decide, TypeOK
<1>11. ASSUME NEW d \in Disbursements, CallAgain(d) PROVE TypeOK'
  <2>1. sent' \in [Disbursements -> 0 .. MaxSent]
    BY <1>11, PayoutAssumption DEF CallAgain, TypeOK
  <2>. QED
    BY <1>11, <2>1, OwesTyped DEF CallAgain, TypeOK
<1>12. ASSUME NEW d \in Disbursements, Receive(d) PROVE TypeOK'
  <2>1. PICK h \in Handlers, left \in 0 .. Retries, claimed \in Verdict :
           Handle(h, d, left, claimed)
    BY <1>12 DEF Receive
  <2>2. [at |-> "confirm", d |-> d, left |-> left, claimed |-> claimed] \in Confirming
    BY DEF Confirming
  <2>3. HandlersTyped'
    BY <2>1, <2>2, HandlerTypes DEF Handle, HandlersTyped
  <2>. QED
    BY <2>1, <2>3 DEF Handle, Delivered, TypeOK, HandlersTyped, Confirming, Settling
<1>13. ASSUME NEW d \in Disbursements, NEW h \in Handlers, NEW left \in 0 .. Retries,
              LookupFails(h, d, left)
       PROVE  TypeOK'
  BY <1>13, FailsTyped DEF LookupFails, Delivered, TypeOK
<1>14. ASSUME NEW h \in Handlers, ConfirmWithProvider(h) PROVE TypeOK'
  <2>1. handler[h] \in Confirming
    BY <1>14, Shapes DEF ConfirmWithProvider
  <2>2. Confirmed(h) # "PENDING" => Confirmed(h) \in Verdict
    BY DEF Confirmed, Verdict
  <2>. DEFINE next == [at |-> "settle", d |-> handler[h].d, left |-> handler[h].left,
                       status |-> Confirmed(h)]
  <2>3. Confirmed(h) # "PENDING" => next \in Settling
    BY <2>1, <2>2 DEF Confirming, Settling
  <2>4. handler' = [handler EXCEPT ![h] = IF Confirmed(h) = "PENDING" THEN Free ELSE next]
    BY <1>14 DEF ConfirmWithProvider, TypeOK
  <2>. HIDE DEF next
  <2>5. HandlersTyped'
    BY <2>3, <2>4, HandlerTypes DEF HandlersTyped
  <2>. QED
    BY <1>14, <2>5 DEF ConfirmWithProvider, TypeOK, HandlersTyped, Confirming, Settling
<1>15. ASSUME NEW h \in Handlers, CannotConfirm(h) PROVE TypeOK'
  <2>1. HandlersTyped' /\ owed' \in [Disbursements -> SUBSET (0 .. Retries)]
    BY <1>15, AskRetryTyped DEF CannotConfirm, Free
  <2>. QED
    BY <1>15, <2>1 DEF CannotConfirm, TypeOK, HandlersTyped, Confirming, Settling
<1>16. ASSUME NEW h \in Handlers, Settle(h) PROVE TypeOK'
  <2>1. PICK d \in Disbursements, verdict \in Verdict :
           d = handler[h].d /\ verdict = handler[h].status
    BY <1>16, Shapes DEF Settle, Free
  <2>2. handler[h] \in Settling /\ handler[h] # Free
    BY <1>16, Shapes DEF Settle, Free
  <2>3. CASE AskRetry(h) /\ UNCHANGED <<status, posted>>
    <3>1. HandlersTyped' /\ owed' \in [Disbursements -> SUBSET (0 .. Retries)]
      BY <2>2, <2>3, AskRetryTyped
    <3>. QED
      BY <1>16, <2>3, <3>1 DEF Settle, TypeOK, HandlersTyped, Confirming, Settling
  <2>4. CASE /\ status' = [status EXCEPT ![d] = verdict]
             /\ posted' = [posted EXCEPT ![d] = @ \cup {OutcomeReason(verdict)}]
             /\ handler' = [handler EXCEPT ![h] = [@ EXCEPT !.at = "notify"]]
             /\ UNCHANGED owed
    <3>1. [handler[h] EXCEPT !.at = "notify"] \in Settling
      BY <2>2 DEF Settling
    <3>2. HandlersTyped'
      BY <2>4, <3>1, HandlerTypes DEF HandlersTyped
    <3>3. OutcomeReason(verdict) \in {"PAYOUT_COMPLETED", "PAYOUT_FAILED"}
      BY DEF OutcomeReason
    <3>4. posted' \in [Disbursements ->
                          SUBSET {"PAYOUT_RESERVED", "PAYOUT_COMPLETED", "PAYOUT_FAILED"}]
      BY <2>4, <3>3 DEF TypeOK
    <3>5. status' \in [Disbursements -> {"NONE", "PENDING"} \cup TerminalStatuses]
      BY <2>4 DEF TypeOK, Verdict, TerminalStatuses
    <3>. QED
      BY <1>16, <2>4, <3>2, <3>4, <3>5
         DEF Settle, TypeOK, HandlersTyped, Confirming, Settling
  <2>. QED
    BY <1>16, <2>1, <2>3, <2>4 DEF Settle
<1>17. ASSUME NEW h \in Handlers, NotifyMerchant(h) PROVE TypeOK'
  <2>1. handler[h].d \in Disbursements
    BY <1>17, Shapes DEF NotifyMerchant, Free
  <2>2. HandlersTyped'
    BY <1>17, HandlerTypes DEF NotifyMerchant, Release, HandlersTyped
  <2>3. told' \in [Disbursements -> Nat]
    BY <1>17, <2>1 DEF NotifyMerchant, TypeOK
  <2>. QED
    BY <1>17, <2>2, <2>3 DEF NotifyMerchant, TypeOK, HandlersTyped, Confirming, Settling
<1>18. ASSUME NEW h \in Handlers, HandlerFails(h) PROVE TypeOK'
  <2>1. HandlersTyped' /\ owed' \in [Disbursements -> SUBSET (0 .. Retries)]
    BY <1>18, AskRetryTyped DEF HandlerFails
  <2>2. failures' \in 0 .. MaxFailures /\ happened' \subseteq Events
    BY <1>18, FailsTyped DEF HandlerFails
  <2>. QED
    BY <1>18, <2>1, <2>2 DEF HandlerFails, TypeOK, HandlersTyped, Confirming, Settling
<1>19. CASE UNCHANGED vars
  BY <1>19 DEF vars, TypeOK
<1>. QED
  BY <1>1, <1>2, <1>3, <1>4, <1>5, <1>6, <1>7, <1>8, <1>9, <1>10, <1>11, <1>12, <1>13,
     <1>14, <1>15, <1>16, <1>17, <1>18, <1>19
     DEF Next, RequestStep, HandlerStep

(***************************************************************************)
(* The variables of Disbursement keep their types, whatever is requested,  *)
(* called back, confirmed and lost.                                        *)
(***************************************************************************)
THEOREM TypeCorrect == Spec => []TypeOK
BY InitTyped, NextTyped, PTL DEF Spec

-----------------------------------------------------------------------------
(* The row, the ledger, the provider and the handlers.                     *)

\* The status the provider's word stands for.
Agrees(verdict, fate) ==
    \/ verdict = "SUCCESS" /\ fate = "paid"
    \/ verdict = "FAILED" /\ fate = "rejected"

\* Only what has failed for certain is marked FAILED, but for what the gateway
\* has hidden.
FailsForCertain(d) == transfer[d] \in {"none", "rejected"} \/ "gateway" \in happened

\* The reservation comes first; nothing is at the provider before the payment.
RequestOK(d) ==
    /\ request[d].at = "none" => posted[d] = {}
    /\ request[d].at # "none" => "PAYOUT_RESERVED" \in posted[d]
    /\ request[d].at \in {"none", "inquiry", "payment"} =>
          transfer[d] = "none" /\ status[d] \in {"NONE", "PENDING"}
    /\ request[d].at = "mark" => FailsForCertain(d)
    /\ status[d] = "FAILED" => FailsForCertain(d)

IsSettled(d) == posted[d] \cap {"PAYOUT_COMPLETED", "PAYOUT_FAILED"} # {}

LedgerOK(d) ==
    /\ "PAYOUT_COMPLETED" \in posted[d] => transfer[d] = "paid"
    /\ "PAYOUT_FAILED" \in posted[d] => transfer[d] = "rejected"
    /\ told[d] <= 1
    /\ told[d] = 1 => IsSettled(d)

PayoutOK(d) == RequestOK(d) /\ LedgerOK(d)

\* What a handler has heard is still so, and who has settled a payout is alone
\* in telling the merchant.
HandlerOK(h) ==
    /\ handler[h].at \in {"settle", "notify"} =>
          Agrees(handler[h].status, transfer[handler[h].d])
    /\ handler[h].at = "notify" =>
          /\ IsSettled(handler[h].d)
          /\ told[handler[h].d] = 0
          /\ \A g \in Handlers :
                handler[g].at = "notify" /\ handler[g].d = handler[h].d => g = h

PayoutsOK ==
    /\ TypeOK
    /\ \A d \in Disbursements : PayoutOK(d)
    /\ \A h \in Handlers : HandlerOK(h)

LEMMA InitPayouts == Init => PayoutsOK
BY InitTyped DEF Init, PayoutsOK, PayoutOK, RequestOK, LedgerOK, HandlerOK, Free

\* A step that leaves the handlers, the settled payouts and what was told
\* alone and changes no fate.
LEMMA HandlersStand ==
    ASSUME PayoutsOK, UNCHANGED <<handler, told>>,
           \A d \in Disbursements :
               /\ IsSettled(d) => IsSettled(d)'
               /\ transfer[d] \in {"paid", "rejected"} => transfer'[d] = transfer[d]
    PROVE  \A h \in Handlers : HandlerOK(h)'
<1>. SUFFICES ASSUME NEW h \in Handlers PROVE HandlerOK(h)'
  OBVIOUS
<1>1. HandlerOK(h) /\ (handler[h] # Free => handler[h].d \in Disbursements)
  BY Shapes DEF PayoutsOK
<1>2. handler[h].at \in {"settle", "notify"} => handler[h].d \in Disbursements
  BY <1>1 DEF Free
<1>. QED
  BY <1>1, <1>2 DEF HandlerOK, Agrees, IsSettled

\* The steps of the request and of the provider.
LEMMA RequestSteps ==
    ASSUME PayoutsOK, NEW d \in Disbursements,
           \/ ReserveTransactionAndBalance(d)
           \/ AccountInquiry(d)
           \/ PaymentAccepted(d)
           \/ PaidAtOnce(d)
           \/ PaymentRefused(d)
           \/ PaymentLost(d)
           \/ RecordUpstreamResult(d)
           \/ MarkFailed(d)
           \/ RequestDies(d)
           \/ Decide(d)
           \/ CallAgain(d)
    PROVE  /\ \A e \in Disbursements : PayoutOK(e)'
           /\ \A h \in Handlers : HandlerOK(h)'
<1>. USE DEF callbackVars, eventVars
<1>0. TypeOK /\ PayoutOK(d)
  BY DEF PayoutsOK
<1>1. UNCHANGED <<handler, told>> /\ happened \subseteq happened'
  BY DEF ReserveTransactionAndBalance, AccountInquiry, PaymentAccepted, PaidAtOnce,
         PaymentRefused, PaymentLost, PaymentFails, RecordUpstreamResult, MarkFailed,
         RequestDies, Decide, CallAgain, Happens, Fails
<1>2. ASSUME NEW e \in Disbursements, e # d
      PROVE  /\ status'[e] = status[e] /\ posted'[e] = posted[e]
             /\ request'[e] = request[e] /\ transfer'[e] = transfer[e]
  BY <1>0, <1>2
     DEF ReserveTransactionAndBalance, AccountInquiry, PaymentAccepted, PaidAtOnce,
         PaymentRefused, PaymentLost, PaymentFails, RecordUpstreamResult, MarkFailed,
         RequestDies, Decide, CallAgain, Goto, TypeOK
<1>3. ASSUME NEW e \in Disbursements, e # d PROVE PayoutOK(e)'
  <2>1. PayoutOK(e)
    BY DEF PayoutsOK
  <2>. QED
    BY <1>1, <1>2, <1>3, <2>1 DEF PayoutOK, RequestOK, LedgerOK, IsSettled, FailsForCertain
<1>4. PayoutOK(d)'
  <2>. USE <1>0, <1>1 DEF PayoutOK, RequestOK, LedgerOK, IsSettled, FailsForCertain, Goto, TypeOK
  <2>1. CASE ReserveTransactionAndBalance(d)
    BY <2>1 DEF ReserveTransactionAndBalance
  <2>2. CASE AccountInquiry(d)
    BY <2>2 DEF AccountInquiry
  <2>3. CASE PaymentAccepted(d)
    BY <2>3 DEF PaymentAccepted
  <2>4. CASE PaidAtOnce(d)
    BY <2>4 DEF PaidAtOnce
  <2>5. CASE PaymentRefused(d)
    BY <2>5 DEF PaymentRefused, PaymentFails
  <2>6. CASE PaymentLost(d)
    BY <2>6 DEF PaymentLost, PaymentFails, OutcomeUnknown, Happens
  <2>7. CASE RecordUpstreamResult(d)
    <3>1. request[d].status \in {"PENDING", "SUCCESS"}
      BY <2>7 DEF RecordUpstreamResult
    <3>. QED
      BY <2>7, <3>1 DEF RecordUpstreamResult
  <2>8. CASE MarkFailed(d)
    BY <2>8 DEF MarkFailed
  <2>9. CASE RequestDies(d)
    BY <2>9 DEF RequestDies
  <2>10. CASE Decide(d)
    BY <2>10 DEF Decide
  <2>11. CASE CallAgain(d)
    BY <2>11 DEF CallAgain
  <2>. QED
    BY <2>1, <2>2, <2>3, <2>4, <2>5, <2>6, <2>7, <2>8, <2>9, <2>10, <2>11
<1>5. IsSettled(d) => IsSettled(d)'
  BY <1>0 DEF ReserveTransactionAndBalance, AccountInquiry, PaymentAccepted, PaidAtOnce,
              PaymentRefused, PaymentLost, PaymentFails, RecordUpstreamResult, MarkFailed,
              RequestDies, Decide, CallAgain, IsSettled, PayoutOK, RequestOK
<1>6. transfer[d] \in {"paid", "rejected"} => transfer'[d] = transfer[d]
  BY <1>0 DEF ReserveTransactionAndBalance, AccountInquiry, PaymentAccepted, PaidAtOnce,
              PaymentRefused, PaymentLost, PaymentFails, RecordUpstreamResult, MarkFailed,
              RequestDies, Decide, CallAgain, PayoutOK, RequestOK, TypeOK
<1>7. ASSUME NEW e \in Disbursements
      PROVE  /\ IsSettled(e) => IsSettled(e)'
             /\ transfer[e] \in {"paid", "rejected"} => transfer'[e] = transfer[e]
  BY <1>2, <1>5, <1>6 DEF IsSettled
<1>8. \A h \in Handlers : HandlerOK(h)'
  BY <1>1, <1>7, HandlersStand
<1>. QED
  BY <1>3, <1>4, <1>8

\* A handler that moves on and settles nothing.
LEMMA HandlerMoves ==
    ASSUME PayoutsOK, NEW h \in Handlers, NEW next, handler' = [handler EXCEPT ![h] = next],
           UNCHANGED <<posted, transfer, told>>,
           next.at # "notify",
           next.at = "settle" => Agrees(next.status, transfer[next.d])
    PROVE  \A g \in Handlers : HandlerOK(g)'
<1>1. \A g \in Handlers : handler'[g] = IF g = h THEN next ELSE handler[g]
  BY DEF PayoutsOK, TypeOK
<1>2. HandlerOK(h)'
  BY <1>1 DEF HandlerOK, Agrees
<1>3. ASSUME NEW g \in Handlers, g # h PROVE HandlerOK(g)'
  <2>1. HandlerOK(g) /\ handler'[g] = handler[g]
    BY <1>1, <1>3 DEF PayoutsOK
  <2>2. \A f \in Handlers : handler'[f].at = "notify" => handler'[f] = handler[f]
    BY <1>1
  <2>. QED
    BY <2>1, <2>2 DEF HandlerOK, Agrees, IsSettled
<1>. QED
  BY <1>2, <1>3

LEMMA PayoutsStand ==
    ASSUME PayoutsOK, UNCHANGED <<status, posted, request, transfer, told>>,
           happened \subseteq happened'
    PROVE  \A d \in Disbursements : PayoutOK(d)'
<1>. SUFFICES ASSUME NEW d \in Disbursements PROVE PayoutOK(d)'
  OBVIOUS
<1>1. PayoutOK(d)
  BY DEF PayoutsOK
<1>. QED
  BY <1>1 DEF PayoutOK, RequestOK, LedgerOK, IsSettled, FailsForCertain

LEMMA FreeIsIdle == Free.at = "idle"
BY DEF Free

LEMMA CallbackSteps ==
    ASSUME PayoutsOK, NEW h \in Handlers,
           \/ \E d \in Disbursements, left \in 0 .. Retries :
                 \/ \E claimed \in Verdict : Handle(h, d, left, claimed)
                 \/ LookupFails(h, d, left)
           \/ ConfirmWithProvider(h)
           \/ CannotConfirm(h)
           \/ HandlerFails(h)
    PROVE  /\ \A d \in Disbursements : PayoutOK(d)'
           /\ \A g \in Handlers : HandlerOK(g)'
<1>1. UNCHANGED <<status, posted, request, transfer, told>> /\ happened \subseteq happened'
  BY DEF Handle, LookupFails, ConfirmWithProvider, CannotConfirm, HandlerFails, Fails, Happens,
         eventVars
<1>2. \A d \in Disbursements : PayoutOK(d)'
  BY <1>1, PayoutsStand
<1>3. Release(h) => \A g \in Handlers : HandlerOK(g)'
  BY <1>1, HandlerMoves, FreeIsIdle DEF Release
<1>4. ASSUME NEW d \in Disbursements, NEW left \in 0 .. Retries, NEW claimed \in Verdict,
             Handle(h, d, left, claimed)
      PROVE  \A g \in Handlers : HandlerOK(g)'
  <2>. DEFINE next == [at |-> "confirm", d |-> d, left |-> left, claimed |-> claimed]
  <2>1. next.at = "confirm"
    OBVIOUS
  <2>2. Release(h) \/ handler' = [handler EXCEPT ![h] = next]
    BY <1>4 DEF Handle, Release
  <2>. HIDE DEF next
  <2>. QED
    BY <1>1, <1>3, <2>1, <2>2, HandlerMoves
<1>5. ASSUME NEW d \in Disbursements, NEW left \in 0 .. Retries, LookupFails(h, d, left)
      PROVE  \A g \in Handlers : HandlerOK(g)'
  BY <1>1, <1>5, HandlersStand DEF LookupFails, IsSettled
<1>6. ASSUME ConfirmWithProvider(h) PROVE \A g \in Handlers : HandlerOK(g)'
  <2>. DEFINE next == [at |-> "settle", d |-> handler[h].d, left |-> handler[h].left,
                       status |-> Confirmed(h)]
  <2>1. Release(h) \/ (Confirmed(h) # "PENDING" /\ handler' = [handler EXCEPT ![h] = next])
    BY <1>6 DEF ConfirmWithProvider, Release, PayoutsOK, TypeOK
  <2>2. next.at = "settle" /\ next.d = handler[h].d /\ next.status = Confirmed(h)
    OBVIOUS
  <2>3. Confirmed(h) # "PENDING" => Agrees(Confirmed(h), transfer[handler[h].d])
    BY DEF Confirmed, Agrees
  <2>. HIDE DEF next
  <2>. QED
    BY <1>1, <1>3, <2>1, <2>2, <2>3, HandlerMoves
<1>7. ASSUME CannotConfirm(h) \/ HandlerFails(h) PROVE \A g \in Handlers : HandlerOK(g)'
  BY <1>3, <1>7 DEF CannotConfirm, HandlerFails, AskRetry
<1>. QED
  BY <1>2, <1>4, <1>5, <1>6, <1>7

\* The transaction that settles: whoever comes second finds the movement there.
LEMMA SettleStep ==
    ASSUME PayoutsOK, NEW h \in Handlers, Settle(h)
    PROVE  /\ \A d \in Disbursements : PayoutOK(d)'
           /\ \A g \in Handlers : HandlerOK(g)'
<1>0. PICK d \in Disbursements, verdict \in Verdict :
         d = handler[h].d /\ verdict = handler[h].status
  BY Shapes DEF Settle, Free, PayoutsOK
<1>1. handler[h] \in Settling /\ handler[h] # Free /\ TypeOK /\ PayoutOK(d)
  BY Shapes DEF Settle, Free, PayoutsOK
<1>2. Agrees(verdict, transfer[d])
  BY <1>0 DEF Settle, PayoutsOK, HandlerOK
<1>3. UNCHANGED <<request, transfer, told, happened>>
  BY DEF Settle, eventVars
<1>4. CASE OutcomeReason(verdict) \in posted[d]
  <2>1. Release(h) /\ UNCHANGED <<status, posted>>
    BY <1>0, <1>4 DEF Settle, AskRetry
  <2>2. \A g \in Handlers : HandlerOK(g)'
    BY <1>3, <2>1, HandlerMoves, FreeIsIdle DEF Release
  <2>. QED
    BY <1>3, <2>1, <2>2, PayoutsStand
<1>5. CASE OutcomeReason(verdict) \notin posted[d]
  <2>1. /\ status' = [status EXCEPT ![d] = verdict]
        /\ posted' = [posted EXCEPT ![d] = @ \cup {OutcomeReason(verdict)}]
        /\ handler' = [handler EXCEPT ![h] = [handler[h] EXCEPT !.at = "notify"]]
    BY <1>0, <1>1, <1>5 DEF Settle, TypeOK
  <2>2. ~IsSettled(d)
    BY <1>1, <1>2, <1>5 DEF PayoutOK, LedgerOK, IsSettled, Agrees, OutcomeReason
  <2>3. ASSUME NEW e \in Disbursements, e # d
        PROVE  PayoutOK(e)' /\ (IsSettled(e) => IsSettled(e)')
    <3>1. status'[e] = status[e] /\ posted'[e] = posted[e]
      BY <1>1, <2>1, <2>3 DEF TypeOK
    <3>2. PayoutOK(e)
      BY DEF PayoutsOK
    <3>. QED
      BY <1>3, <3>1, <3>2 DEF PayoutOK, RequestOK, LedgerOK, IsSettled, FailsForCertain
  <2>4. /\ status'[d] = verdict
        /\ posted'[d] = posted[d] \cup {OutcomeReason(verdict)}
    BY <1>1, <2>1 DEF TypeOK
  <2>5. request[d].at \notin {"none", "inquiry", "payment"}
    BY <1>1, <1>2 DEF PayoutOK, RequestOK, Agrees
  <2>6. told[d] \in Nat /\ told[d] <= 1 /\ told[d] # 1
    BY <1>1, <2>2 DEF PayoutOK, LedgerOK, TypeOK
  <2>7. PayoutOK(d)'
    <3>1. RequestOK(d)'
      BY <1>1, <1>2, <1>3, <2>4, <2>5 DEF PayoutOK, RequestOK, FailsForCertain, Agrees, Verdict
    <3>2. LedgerOK(d)'
      BY <1>1, <1>2, <1>3, <2>4, <2>6 DEF PayoutOK, LedgerOK, Agrees, OutcomeReason
    <3>. QED
      BY <3>1, <3>2 DEF PayoutOK
  <2>8. ASSUME NEW f \in Handlers, handler[f].at = "notify" PROVE handler[f].d # d
    BY <2>2, <2>8 DEF PayoutsOK, HandlerOK
  <2>9. ASSUME NEW f \in Handlers, f # h PROVE handler'[f] = handler[f]
    BY <1>1, <2>1, <2>9 DEF TypeOK
  <2>10. handler'[h] = [handler[h] EXCEPT !.at = "notify"]
    BY <1>1, <2>1 DEF TypeOK
  <2>11. handler'[h].at = "notify" /\ handler'[h].d = d /\ handler'[h].status = verdict
    BY <1>0, <1>1, <2>10 DEF Settling
  <2>12. HandlerOK(h)'
    <3>1. IsSettled(d)'
      BY <2>4 DEF IsSettled, OutcomeReason
    <3>2. told'[d] = 0
      BY <1>3, <2>6
    <3>3. \A f \in Handlers : handler'[f].at = "notify" /\ handler'[f].d = d => f = h
      BY <2>8, <2>9
    <3>. QED
      BY <1>2, <1>3, <2>11, <3>1, <3>2, <3>3 DEF HandlerOK, IsSettled
  <2>13. ASSUME NEW g \in Handlers, g # h PROVE HandlerOK(g)'
    <3>1. HandlerOK(g) /\ handler'[g] = handler[g]
      BY <2>9, <2>13 DEF PayoutsOK
    <3>2. ASSUME handler[g].at = "notify"
          PROVE  /\ posted'[handler[g].d] = posted[handler[g].d]
                 /\ \A f \in Handlers :
                       handler'[f].at = "notify" /\ handler'[f].d = handler[g].d => f = g
      <4>1. handler[g].d # d /\ handler[g].d \in Disbursements
        BY <2>8, <3>2, Shapes DEF PayoutsOK, Free
      <4>2. posted'[handler[g].d] = posted[handler[g].d]
        BY <1>1, <2>1, <4>1 DEF TypeOK
      <4>. QED
        BY <2>9, <2>11, <3>1, <3>2, <4>1, <4>2 DEF HandlerOK
    <3>. QED
      BY <1>3, <3>1, <3>2 DEF HandlerOK, Agrees, IsSettled
  <2>. QED
    BY <2>3, <2>7, <2>12, <2>13
<1>. QED
  BY <1>4, <1>5

LEMMA NotifyStep ==
    ASSUME PayoutsOK, NEW h \in Handlers, NotifyMerchant(h)
    PROVE  /\ \A d \in Disbursements : PayoutOK(d)'
           /\ \A g \in Handlers : HandlerOK(g)'
<1>0. PICK d \in Disbursements : d = handler[h].d
  BY Shapes DEF NotifyMerchant, Free, PayoutsOK
<1>1. handler[h] # Free /\ TypeOK /\ HandlerOK(h) /\ IsSettled(d) /\ told[d] = 0
  BY <1>0, Shapes DEF NotifyMerchant, Free, PayoutsOK, HandlerOK
<1>2. /\ UNCHANGED <<status, posted, request, transfer, happened>>
      /\ Release(h)
      /\ told' = [told EXCEPT ![d] = @ + 1] \/ told' = told
  BY <1>0 DEF NotifyMerchant, eventVars
<1>3. ASSUME NEW e \in Disbursements PROVE PayoutOK(e)'
  <2>1. told'[e] = told[e] \/ (e = d /\ told'[e] = 1)
    BY <1>1, <1>2 DEF TypeOK
  <2>2. PayoutOK(e)
    BY DEF PayoutsOK
  <2>. QED
    BY <1>1, <1>2, <2>1, <2>2 DEF PayoutOK, RequestOK, LedgerOK, IsSettled, FailsForCertain
<1>4. handler'[h] = Free /\ \A f \in Handlers : f # h => handler'[f] = handler[f]
  BY <1>1, <1>2 DEF Release, TypeOK
<1>5. HandlerOK(h)'
  BY <1>4 DEF HandlerOK, Free
<1>6. ASSUME NEW g \in Handlers, g # h PROVE HandlerOK(g)'
  <2>1. HandlerOK(g) /\ handler'[g] = handler[g]
    BY <1>4, <1>6 DEF PayoutsOK
  <2>2. ASSUME handler[g].at = "notify" PROVE told'[handler[g].d] = 0
    <3>1. handler[g].d # d
      BY <1>0, <1>1, <1>6, <2>1, <2>2 DEF HandlerOK, NotifyMerchant
    <3>2. handler[g].d \in Disbursements
      BY <2>2, Shapes DEF PayoutsOK, Free
    <3>. QED
      BY <1>1, <1>2, <2>1, <2>2, <3>1, <3>2 DEF HandlerOK, TypeOK
  <2>3. \A f \in Handlers : handler'[f].at = "notify" => handler'[f] = handler[f]
    BY <1>4, FreeIsIdle
  <2>. QED
    BY <1>2, <2>1, <2>2, <2>3 DEF HandlerOK, Agrees, IsSettled
<1>. QED
  BY <1>3, <1>5, <1>6

LEMMA NextPayouts == PayoutsOK /\ [Next]_vars => PayoutsOK'
<1>. SUFFICES ASSUME PayoutsOK, [Next]_vars PROVE PayoutsOK'
  OBVIOUS
<1>1. TypeOK'
  BY NextTyped DEF PayoutsOK
<1>. DEFINE Rest == /\ \A d \in Disbursements : PayoutOK(d)'
                    /\ \A h \in Handlers : HandlerOK(h)'
<1>2. Rest
  <2>1. CASE UNCHANGED vars
    BY <2>1, PayoutsStand, HandlersStand DEF vars, callbackVars, eventVars, IsSettled
  <2>2. ASSUME NEW d \in Disbursements, Receive(d) PROVE Rest
    BY <2>2, CallbackSteps DEF Receive
  <2>3. ASSUME NEW d \in Disbursements, NEW h \in Handlers, NEW left \in 0 .. Retries,
               LookupFails(h, d, left)
        PROVE  Rest
    BY <2>3, CallbackSteps
  <2>4. ASSUME NEW h \in Handlers, HandlerStep(h) \/ HandlerFails(h) PROVE Rest
    BY <2>4, CallbackSteps, SettleStep, NotifyStep DEF HandlerStep
  <2>. QED
    BY <2>1, <2>2, <2>3, <2>4, RequestSteps DEF Next, RequestStep
<1>. QED
  BY <1>1, <1>2 DEF PayoutsOK

LEMMA AlwaysPayouts == Spec => []PayoutsOK
BY InitPayouts, NextPayouts, PTL DEF Spec

-----------------------------------------------------------------------------
(* The money.                                                              *)

Reserved == {d \in Disbursements : "PAYOUT_RESERVED" \in posted[d]}

Returned == {d \in Disbursements : "PAYOUT_FAILED" \in posted[d]}

\* What is reserved and was not given back was there.
FundsOK ==
    /\ IsFiniteSet(Reserved)
    /\ Returned \subseteq Reserved
    /\ Cardinality(Reserved) - Cardinality(Returned) <= Deposit

LEMMA Counted ==
    ASSUME FundsOK
    PROVE  /\ IsFiniteSet(Returned)
           /\ Cardinality(Reserved) \in Nat
           /\ Cardinality(Returned) \in Nat
BY FS_Subset, FS_CardinalityType DEF FundsOK

LEMMA InitFunds == Init => FundsOK
<1>. SUFFICES ASSUME Init PROVE FundsOK
  OBVIOUS
<1>1. Reserved = {} /\ Returned = {}
  BY DEF Init, Reserved, Returned
<1>. QED
  BY <1>1, FS_EmptySet, PayoutAssumption DEF FundsOK

LEMMA ReserveFunds ==
    ASSUME PayoutsOK, FundsOK, NEW d \in Disbursements, ReserveTransactionAndBalance(d)
    PROVE  FundsOK'
<1>1. posted[d] = {} /\ TypeOK
  BY DEF PayoutsOK, PayoutOK, RequestOK, ReserveTransactionAndBalance
<1>2. posted' = [posted EXCEPT ![d] = {"PAYOUT_RESERVED"}]
  BY DEF ReserveTransactionAndBalance
<1>3. Reserved' = Reserved \cup {d} /\ d \notin Reserved
  BY <1>1, <1>2 DEF Reserved, TypeOK
<1>4. Returned' = Returned
  BY <1>1, <1>2 DEF Returned, TypeOK
<1>5. IsFiniteSet(Reserved') /\ Cardinality(Reserved') = Cardinality(Reserved) + 1
  BY <1>3, FS_AddElement DEF FundsOK
<1>6. Deposit - Cardinality(Reserved) + Cardinality(Returned) >= 1
  BY DEF ReserveTransactionAndBalance, ReserveOk, Available, Reserved, Returned
<1>7. Returned' \subseteq Reserved'
  BY <1>3, <1>4 DEF FundsOK
<1>8. Cardinality(Reserved') - Cardinality(Returned') <= Deposit
  BY <1>4, <1>5, <1>6, Counted, PayoutAssumption
<1>. QED
  BY <1>5, <1>7, <1>8 DEF FundsOK

LEMMA SettleFunds ==
    ASSUME PayoutsOK, FundsOK, NEW h \in Handlers, Settle(h), posted' # posted
    PROVE  FundsOK'
<1>0. PICK d \in Disbursements, verdict \in Verdict :
         d = handler[h].d /\ verdict = handler[h].status
  BY Shapes DEF Settle, Free, PayoutsOK
<1>1. TypeOK /\ "PAYOUT_RESERVED" \in posted[d]
  <2>1. TypeOK /\ HandlerOK(h) /\ PayoutOK(d)
    BY DEF PayoutsOK
  <2>2. transfer[d] \in {"paid", "rejected"}
    BY <1>0, <2>1 DEF Settle, HandlerOK, Agrees, Verdict
  <2>. QED
    BY <2>1, <2>2 DEF PayoutOK, RequestOK
<1>2. posted' = [posted EXCEPT ![d] = @ \cup {OutcomeReason(verdict)}]
  BY <1>0 DEF Settle
<1>3. Reserved' = Reserved /\ d \in Reserved
  BY <1>1, <1>2 DEF Reserved, TypeOK, OutcomeReason
<1>4. Returned' \in {Returned, Returned \cup {d}}
  BY <1>1, <1>2 DEF Returned, TypeOK, OutcomeReason
<1>5. Cardinality(Returned') >= Cardinality(Returned) /\ Cardinality(Returned') \in Nat
  <2>1. /\ IsFiniteSet(Returned \cup {d})
        /\ \/ Cardinality(Returned \cup {d}) = Cardinality(Returned)
           \/ Cardinality(Returned \cup {d}) = Cardinality(Returned) + 1
    BY Counted, FS_AddElement
  <2>2. CASE Returned' = Returned
    BY <2>2, Counted
  <2>3. CASE Returned' = Returned \cup {d}
    BY <2>1, <2>3, Counted
  <2>. QED
    BY <1>4, <2>2, <2>3
<1>6. Returned' \subseteq Reserved'
  BY <1>3, <1>4 DEF FundsOK
<1>7. Cardinality(Reserved') - Cardinality(Returned') <= Deposit
  BY <1>3, <1>5, Counted, PayoutAssumption DEF FundsOK
<1>. QED
  BY <1>3, <1>6, <1>7 DEF FundsOK

LEMMA NextFunds == PayoutsOK /\ FundsOK /\ [Next]_vars => FundsOK'
<1>. SUFFICES ASSUME PayoutsOK, FundsOK, [Next]_vars PROVE FundsOK'
  OBVIOUS
<1>1. CASE posted' = posted
  <2>1. Reserved' = Reserved /\ Returned' = Returned
    BY <1>1 DEF Reserved, Returned
  <2>. QED
    BY <2>1 DEF FundsOK
<1>2. CASE posted' # posted
  <2>1. \/ \E d \in Disbursements : ReserveTransactionAndBalance(d)
        \/ \E h \in Handlers : Settle(h)
    BY <1>2 DEF Next, RequestStep, HandlerStep, vars, callbackVars, eventVars, AccountInquiry,
                PaymentAccepted, PaidAtOnce, PaymentRefused, PaymentLost, PaymentFails,
                RecordUpstreamResult, MarkFailed, RequestDies, Decide, CallAgain, Receive,
                Handle, LookupFails, ConfirmWithProvider, CannotConfirm, NotifyMerchant,
                HandlerFails
  <2>. QED
    BY <1>2, <2>1, ReserveFunds, SettleFunds
<1>. QED
  BY <1>1, <1>2

LEMMA AlwaysFunds == Spec => []FundsOK
BY InitFunds, NextFunds, AlwaysPayouts, PTL DEF Spec

-----------------------------------------------------------------------------
(* Theorems.                                                               *)

(***************************************************************************)
(* The callback is a trigger, never a source of truth: the reservation is  *)
(* consumed only if the provider paid and given back only if it did not,   *)
(* so never both, whatever the callbacks say and however they interleave;  *)
(* and the merchant hears of it at most once, and only after that.         *)
(***************************************************************************)
OutcomeIsTrue ==
    \A d \in Disbursements :
        /\ "PAYOUT_COMPLETED" \in posted[d] => transfer[d] = "paid"
        /\ "PAYOUT_FAILED" \in posted[d] => transfer[d] = "rejected"
        /\ told[d] <= Cardinality(posted[d] \ {"PAYOUT_RESERVED"})

(***************************************************************************)
(* The reservation is consumed only if the provider paid and given back    *)
(* only if it did not, and the merchant is told at most once and only      *)
(* afterwards (handle and settle of the payout webhook), for any number of *)
(* callbacks handled at the same time and whatever they claim.             *)
(***************************************************************************)
THEOREM OutcomeAlwaysTrue == Spec => []OutcomeIsTrue
<1>1. PayoutsOK => OutcomeIsTrue
  <2>. SUFFICES ASSUME PayoutsOK, NEW d \in Disbursements
                PROVE  /\ "PAYOUT_COMPLETED" \in posted[d] => transfer[d] = "paid"
                       /\ "PAYOUT_FAILED" \in posted[d] => transfer[d] = "rejected"
                       /\ told[d] <= Cardinality(posted[d] \ {"PAYOUT_RESERVED"})
    BY DEF OutcomeIsTrue
  <2>. DEFINE outcomes == posted[d] \ {"PAYOUT_RESERVED"}
  <2>1. TypeOK /\ LedgerOK(d)
    BY DEF PayoutsOK, PayoutOK
  <2>2. outcomes \subseteq {"PAYOUT_COMPLETED"} \cup {"PAYOUT_FAILED"}
    BY <2>1 DEF TypeOK
  <2>3. IsFiniteSet({"PAYOUT_COMPLETED"} \cup {"PAYOUT_FAILED"})
    BY FS_Singleton, FS_AddElement
  <2>4. IsFiniteSet(outcomes)
    BY <2>2, <2>3, FS_Subset
  <2>5. Cardinality(outcomes) \in Nat /\ (Cardinality(outcomes) = 0 <=> outcomes = {})
    BY <2>4, FS_CardinalityType, FS_EmptySet
  <2>6. told[d] \in Nat /\ told[d] <= 1 /\ (told[d] = 1 => outcomes # {})
    BY <2>1 DEF TypeOK, LedgerOK, IsSettled
  <2>. QED
    BY <2>1, <2>5, <2>6 DEF LedgerOK
<1>. QED
  BY <1>1, AlwaysPayouts, PTL

(***************************************************************************)
(* A payout marked FAILED was not paid and will not be, unless an answer   *)
(* that hides a payment came in between (recordFailure, markFailedFrom and *)
(* the callback, in any order).                                            *)
(***************************************************************************)
THEOREM FailureAlwaysVerified == Spec => []FailureIsVerifiedBarGateway
<1>1. PayoutsOK => FailureIsVerifiedBarGateway
  BY DEF PayoutsOK, PayoutOK, RequestOK, FailsForCertain, FailureIsVerifiedBarGateway,
         FailureIsVerified
<1>. QED
  BY <1>1, AlwaysPayouts, PTL

(***************************************************************************)
(* The provider holds or has paid no more than the merchant had, whatever  *)
(* was reserved and given back in between (reserve in                      *)
(* reserveTransactionAndBalance): what it has taken is reserved, and is    *)
(* apart from what was returned.                                           *)
(***************************************************************************)
THEOREM AlwaysCovered == Spec => []NeverOverspent
<1>1. PayoutsOK /\ FundsOK => NeverOverspent
  <2>. SUFFICES ASSUME PayoutsOK, FundsOK PROVE NeverOverspent
    OBVIOUS
  <2>. DEFINE taken == {d \in Disbursements : transfer[d] \in {"processing", "paid"}}
  <2>1. ASSUME NEW d \in taken PROVE d \in Reserved /\ d \notin Returned
    BY DEF PayoutsOK, PayoutOK, RequestOK, LedgerOK, Reserved, Returned
  <2>2. taken \cup Returned \subseteq Reserved /\ taken \cap Returned = {}
    BY <2>1 DEF FundsOK
  <2>3. IsFiniteSet(taken) /\ IsFiniteSet(taken \cup Returned)
    BY <2>2, FS_Subset DEF FundsOK
  <2>4. Cardinality(taken \cup Returned) <= Cardinality(Reserved)
    BY <2>2, FS_Subset DEF FundsOK
  <2>5. Cardinality(taken \cup Returned) = Cardinality(taken) + Cardinality(Returned)
    <3>1. Cardinality(taken \cup Returned)
            = Cardinality(taken) + Cardinality(Returned) - Cardinality(taken \cap Returned)
      BY <2>3, Counted, FS_Union
    <3>2. Cardinality(taken \cap Returned) = 0
      BY <2>2, FS_EmptySet
    <3>3. Cardinality(taken) \in Nat
      BY <2>3, FS_CardinalityType
    <3>. HIDE DEF taken
    <3>. QED
      BY <3>1, <3>2, <3>3, Counted
  <2>6. Cardinality(taken) \in Nat
    BY <2>3, FS_CardinalityType
  <2>7. Cardinality(taken) <= Deposit
    BY <2>4, <2>5, <2>6, Counted, PayoutAssumption DEF FundsOK
  <2>. QED
    BY <2>7 DEF NeverOverspent
<1>. QED
  BY <1>1, AlwaysPayouts, AlwaysFunds, PTL

-----------------------------------------------------------------------------
(* The promise.                                                            *)

\* What the postings say of the money.
LEMMA MoneyShapes ==
    ASSUME PayoutsOK, NEW d \in Disbursements
    PROVE  /\ MoneyOf(d) = "own" <=> "PAYOUT_RESERVED" \notin posted[d]
           /\ MoneyOf(d) = "reserved" <=> "PAYOUT_RESERVED" \in posted[d] /\ ~IsSettled(d)
           /\ MoneyOf(d) \in {"spent", "returned"} <=> IsSettled(d)
           /\ MoneyOf(d) = "returned" <=> "PAYOUT_FAILED" \in posted[d]
           /\ MoneyOf(d) \in {"own", "reserved", "spent", "returned"}
<1>1. RequestOK(d) /\ LedgerOK(d)
  BY DEF PayoutsOK, PayoutOK
<1>2. ~("PAYOUT_COMPLETED" \in posted[d] /\ "PAYOUT_FAILED" \in posted[d])
  BY <1>1 DEF LedgerOK
<1>3. IsSettled(d) => "PAYOUT_RESERVED" \in posted[d]
  BY <1>1 DEF RequestOK, IsSettled
<1>4. IsSettled(d) <=> "PAYOUT_COMPLETED" \in posted[d] \/ "PAYOUT_FAILED" \in posted[d]
  BY DEF IsSettled
<1>. QED
  BY <1>2, <1>3, <1>4 DEF MoneyOf

\* A posting moves the money of one payout.
LEMMA OneMoves ==
    ASSUME TypeOK, NEW d \in Disbursements, NEW entries, NEW place,
           posted' = [posted EXCEPT ![d] = entries],
           MoneyOf(d)' = place
    PROVE  [e \in Disbursements |-> MoneyOf(e)']
             = [[e \in Disbursements |-> MoneyOf(e)] EXCEPT ![d] = place]
<1>1. ASSUME NEW e \in Disbursements, e # d PROVE MoneyOf(e)' = MoneyOf(e)
  <2>1. posted'[e] = posted[e]
    BY <1>1 DEF TypeOK
  <2>. QED
    BY <2>1 DEF MoneyOf
<1>. QED
  BY <1>1

LEMMA NothingMoves ==
    ASSUME UNCHANGED posted
    PROVE  [e \in Disbursements |-> MoneyOf(e)'] = [e \in Disbursements |-> MoneyOf(e)]
BY DEF MoneyOf

LEMMA SameCardinality == \A S : Promise!Cardinality(S) = Cardinality(S)
BY DEF Promise!Cardinality, Cardinality

\* What is held is what was reserved and not returned, and a reservation that
\* is granted finds room for it.
LEMMA RoomForOne ==
    ASSUME PayoutsOK, FundsOK, NEW d \in Disbursements, ReserveTransactionAndBalance(d)
    PROVE  Promise!Cardinality(Promise!Held) < Deposit
<1>1. Promise!Held = Reserved \ Returned
  <2>1. ASSUME NEW e \in Disbursements
        PROVE  MoneyOf(e) \in {"reserved", "spent"} <=> e \in Reserved \ Returned
    BY MoneyShapes DEF Reserved, Returned
  <2>. QED
    BY <2>1 DEF Promise!Held, Reserved
<1>2. IsFiniteSet(Reserved \ Returned)
  BY FS_Subset DEF FundsOK
<1>3. Cardinality(Reserved) = Cardinality(Reserved \ Returned) + Cardinality(Returned)
  <2>1. Cardinality((Reserved \ Returned) \cup Returned)
          = Cardinality(Reserved \ Returned) + Cardinality(Returned)
              - Cardinality((Reserved \ Returned) \cap Returned)
    BY <1>2, Counted, FS_Union
  <2>2. /\ (Reserved \ Returned) \cup Returned = Reserved
        /\ (Reserved \ Returned) \cap Returned = {}
    BY DEF FundsOK
  <2>3. Cardinality({}) = 0 /\ Cardinality(Reserved \ Returned) \in Nat
    BY <1>2, FS_EmptySet, FS_CardinalityType
  <2>4. Cardinality(Returned) \in Nat
    BY Counted
  <2>. DEFINE rest == Cardinality(Reserved \ Returned)
              back == Cardinality(Returned)
  <2>5. Cardinality(Reserved) = rest + back - 0
    BY <2>1, <2>2, <2>3
  <2>6. rest \in Nat /\ back \in Nat
    BY <2>3, <2>4
  <2>. HIDE DEF rest, back
  <2>7. Cardinality(Reserved) = rest + back
    BY <2>5, <2>6
  <2>. QED
    BY <2>7 DEF rest, back
<1>4. Cardinality(Reserved \ Returned) \in Nat
  BY <1>2, FS_CardinalityType
<1>5. Deposit - Cardinality(Reserved) + Cardinality(Returned) >= 1
  BY DEF ReserveTransactionAndBalance, ReserveOk, Available, Reserved, Returned
<1>6. Cardinality(Reserved \ Returned) < Deposit
  BY <1>3, <1>4, <1>5, Counted, PayoutAssumption
<1>. QED
  BY <1>1, <1>6, SameCardinality

LEMMA ReserveKeepsPromise ==
    ASSUME PayoutsOK, FundsOK, NEW d \in Disbursements, ReserveTransactionAndBalance(d)
    PROVE  Promise!Reserve(d)
<1>1. TypeOK /\ posted[d] = {}
  BY DEF PayoutsOK, PayoutOK, RequestOK, ReserveTransactionAndBalance
<1>2. /\ posted' = [posted EXCEPT ![d] = {"PAYOUT_RESERVED"}]
      /\ UNCHANGED <<transfer, told>>
  BY DEF ReserveTransactionAndBalance
<1>3. MoneyOf(d) = "own" /\ MoneyOf(d)' = "reserved"
  BY <1>1, <1>2 DEF MoneyOf, TypeOK
<1>4. [e \in Disbursements |-> MoneyOf(e)']
        = [[e \in Disbursements |-> MoneyOf(e)] EXCEPT ![d] = "reserved"]
  BY <1>1, <1>2, <1>3, OneMoves
<1>. QED
  BY <1>2, <1>3, <1>4, RoomForOne DEF Promise!Reserve, Promise!MoneyMoves

LEMMA SettleKeepsPromise ==
    ASSUME PayoutsOK, NEW h \in Handlers, Settle(h), posted' # posted
    PROVE  \E d \in Disbursements : Promise!Spend(d) \/ Promise!Return(d)
<1>0. PICK d \in Disbursements, verdict \in Verdict :
         d = handler[h].d /\ verdict = handler[h].status
  BY Shapes DEF Settle, Free, PayoutsOK
<1>1. TypeOK /\ PayoutOK(d) /\ Agrees(verdict, transfer[d])
  BY <1>0 DEF Settle, PayoutsOK, HandlerOK
<1>2. /\ posted' = [posted EXCEPT ![d] = posted[d] \cup {OutcomeReason(verdict)}]
      /\ OutcomeReason(verdict) \notin posted[d]
      /\ UNCHANGED <<transfer, told>>
  BY <1>0, <1>1 DEF Settle, TypeOK
<1>3. ~IsSettled(d) /\ "PAYOUT_RESERVED" \in posted[d]
  BY <1>1, <1>2 DEF PayoutOK, RequestOK, LedgerOK, IsSettled, Agrees, OutcomeReason
<1>4. MoneyOf(d) = "reserved"
  BY <1>3, MoneyShapes
<1>5. posted'[d] = posted[d] \cup {OutcomeReason(verdict)}
  BY <1>1, <1>2 DEF TypeOK
<1>6. CASE verdict = "SUCCESS"
  <2>1. MoneyOf(d)' = "spent"
    BY <1>3, <1>5, <1>6 DEF MoneyOf, OutcomeReason
  <2>2. [e \in Disbursements |-> MoneyOf(e)']
          = [[e \in Disbursements |-> MoneyOf(e)] EXCEPT ![d] = "spent"]
    BY <1>1, <1>2, <2>1, OneMoves
  <2>3. transfer[d] = "paid"
    BY <1>1, <1>6 DEF Agrees
  <2>4. Promise!Spend(d)
    BY <1>2, <1>4, <2>2, <2>3 DEF Promise!Spend, Promise!MoneyMoves
  <2>. QED
    BY <2>4
<1>7. CASE verdict = "FAILED"
  <2>1. MoneyOf(d)' = "returned"
    BY <1>3, <1>5, <1>7 DEF MoneyOf, OutcomeReason, IsSettled
  <2>2. [e \in Disbursements |-> MoneyOf(e)']
          = [[e \in Disbursements |-> MoneyOf(e)] EXCEPT ![d] = "returned"]
    BY <1>1, <1>2, <2>1, OneMoves
  <2>3. transfer[d] = "rejected"
    BY <1>1, <1>7 DEF Agrees
  <2>4. Promise!Return(d)
    BY <1>2, <1>4, <2>2, <2>3 DEF Promise!Return, Promise!MoneyMoves
  <2>. QED
    BY <2>4
<1>. QED
  BY <1>6, <1>7 DEF Verdict

LEMMA NotifyKeepsPromise ==
    ASSUME PayoutsOK, NEW h \in Handlers, NotifyMerchant(h), told' # told
    PROVE  \E d \in Disbursements : Promise!Tell(d)
<1>0. PICK d \in Disbursements : d = handler[h].d
  BY Shapes DEF NotifyMerchant, Free, PayoutsOK
<1>1. TypeOK /\ IsSettled(d) /\ told[d] = 0
  BY <1>0 DEF NotifyMerchant, PayoutsOK, HandlerOK
<1>2. told' = [told EXCEPT ![d] = 1] /\ UNCHANGED <<posted, transfer>>
  BY <1>0, <1>1 DEF NotifyMerchant, TypeOK
<1>3. MoneyOf(d) \in {"spent", "returned"}
  BY <1>1, MoneyShapes
<1>4. Promise!Tell(d)
  BY <1>1, <1>2, <1>3, NothingMoves DEF Promise!Tell
<1>. QED
  BY <1>4

\* The payment leg, and what the provider makes of it.
LEMMA FatesKeepPromise ==
    ASSUME PayoutsOK, NEW d \in Disbursements, UNCHANGED <<posted, told>>,
           transfer' # transfer,
           \/ PaymentAccepted(d)
           \/ PaidAtOnce(d)
           \/ PaymentRefused(d)
           \/ PaymentLost(d)
           \/ Decide(d)
    PROVE  Promise!Take(d) \/ Promise!Decide(d)
<1>1. TypeOK /\ RequestOK(d) /\ LedgerOK(d)
  BY DEF PayoutsOK, PayoutOK
<1>2. CASE Decide(d)
  BY <1>2, NothingMoves DEF Decide, Promise!Decide
<1>3. CASE ~Decide(d)
  <2>1. request[d].at = "payment"
    BY <1>3 DEF PaymentAccepted, PaidAtOnce, PaymentRefused, PaymentLost, PaymentFails
  <2>2. PICK news \in {"processing", "paid", "rejected"} :
           transfer' = [transfer EXCEPT ![d] = news]
    BY <1>3 DEF PaymentAccepted, PaidAtOnce, PaymentRefused, PaymentLost
  <2>3. transfer[d] = "none" /\ "PAYOUT_RESERVED" \in posted[d] /\ ~IsSettled(d)
    BY <1>1, <2>1 DEF RequestOK, LedgerOK, IsSettled
  <2>4. MoneyOf(d) = "reserved"
    BY <2>3, MoneyShapes
  <2>. QED
    BY <2>2, <2>3, <2>4, NothingMoves DEF Promise!Take
<1>. QED
  BY <1>2, <1>3

LEMMA StepsKeepPromise ==
    PayoutsOK /\ FundsOK /\ [Next]_vars => [Promise!Next]_(Promise!vars)
<1>. SUFFICES ASSUME PayoutsOK, FundsOK, [Next]_vars
              PROVE  Promise!Next \/ UNCHANGED Promise!vars
  OBVIOUS
<1>1. CASE UNCHANGED <<posted, transfer, told>>
  BY <1>1, NothingMoves DEF Promise!vars
<1>2. ASSUME NEW d \in Disbursements, ReserveTransactionAndBalance(d)
      PROVE  Promise!Next
  BY <1>2, ReserveKeepsPromise DEF Promise!Next
<1>3. ASSUME NEW h \in Handlers, Settle(h), ~UNCHANGED <<posted, transfer, told>>
      PROVE  Promise!Next
  <2>1. posted' # posted
    BY <1>3 DEF Settle
  <2>. QED
    BY <1>3, <2>1, SettleKeepsPromise DEF Promise!Next
<1>4. ASSUME NEW h \in Handlers, NotifyMerchant(h), ~UNCHANGED <<posted, transfer, told>>
      PROVE  Promise!Next
  <2>1. told' # told
    BY <1>4 DEF NotifyMerchant
  <2>. QED
    BY <1>4, <2>1, NotifyKeepsPromise DEF Promise!Next
<1>5. ASSUME NEW d \in Disbursements, ~UNCHANGED <<posted, transfer, told>>,
             \/ PaymentAccepted(d)
             \/ PaidAtOnce(d)
             \/ PaymentRefused(d)
             \/ PaymentLost(d)
             \/ Decide(d)
      PROVE  Promise!Next
  <2>1. UNCHANGED <<posted, told>>
    BY <1>5 DEF PaymentAccepted, PaidAtOnce, PaymentRefused, PaymentLost, PaymentFails, Decide
  <2>2. transfer' # transfer
    BY <1>5, <2>1
  <2>. QED
    BY <1>5, <2>1, <2>2, FatesKeepPromise DEF Promise!Next
<1>6. UNCHANGED vars => UNCHANGED <<posted, transfer, told>>
  BY DEF vars
<1>7. ASSUME NEW d \in Disbursements,
             \/ AccountInquiry(d)
             \/ RecordUpstreamResult(d)
             \/ MarkFailed(d)
             \/ RequestDies(d)
             \/ CallAgain(d)
             \/ Receive(d)
             \/ \E h \in Handlers, left \in 0 .. Retries : LookupFails(h, d, left)
      PROVE  UNCHANGED <<posted, transfer, told>>
  BY <1>7 DEF AccountInquiry, RecordUpstreamResult, MarkFailed, RequestDies, CallAgain,
              Receive, Handle, LookupFails
<1>8. ASSUME NEW h \in Handlers,
             ConfirmWithProvider(h) \/ CannotConfirm(h) \/ HandlerFails(h)
      PROVE  UNCHANGED <<posted, transfer, told>>
  BY <1>8 DEF ConfirmWithProvider, CannotConfirm, HandlerFails
<1>. QED
  BY <1>1, <1>2, <1>3, <1>4, <1>5, <1>6, <1>7, <1>8 DEF Next, RequestStep, HandlerStep

(***************************************************************************)
(* Disbursement implements Payout: for any number of payouts, handlers,    *)
(* callbacks and failures, the reservation comes before the provider is    *)
(* called and is covered by the deposit (reserveTransactionAndBalance),    *)
(* the money of a payout leaves or comes back once, as the provider        *)
(* decided (settle and postPayoutOutcome), and the merchant is told once   *)
(* and afterwards (notifyMerchant).                                        *)
(***************************************************************************)
THEOREM PromiseAlwaysKept == Spec => PayoutKeepsPromise
<1>1. Init => Promise!Init
  BY DEF Init, Promise!Init, MoneyOf
<1>. QED
  BY <1>1, AlwaysPayouts, AlwaysFunds, StepsKeepPromise, PTL
     DEF Spec, PayoutKeepsPromise, Promise!Spec

-----------------------------------------------------------------------------
(* The callback a paid payout waits for.                                   *)

\* A row says SUCCESS because a callback settled it or the payment was answered so.
StatusOK(d) ==
    /\ status[d] \notin {"EXPIRED", "CANCELLED"}
    /\ status[d] = "SUCCESS" => "PAYOUT_COMPLETED" \in posted[d] \/ "at once" \in happened
    /\ request[d].at = "record" /\ request[d].status = "SUCCESS" => "at once" \in happened

StatusesOK == \A d \in Disbursements : StatusOK(d)

LEMMA InitStatuses == Init => StatusesOK
BY DEF Init, StatusesOK, StatusOK

\* Neither events nor movements are ever undone.
LEMMA Grows ==
    ASSUME PayoutsOK, [Next]_vars
    PROVE  /\ happened \subseteq happened'
           /\ failures \in Nat /\ failures' \in Nat /\ failures <= failures'
           /\ \A d \in Disbursements : posted[d] \subseteq posted'[d]
<1>. USE DEF callbackVars, eventVars
<1>1. TypeOK /\ failures \in Nat
  BY PayoutAssumption DEF PayoutsOK, TypeOK
<1>2. happened \subseteq happened'
  BY DEF Next, vars, ReserveTransactionAndBalance, RequestStep, AccountInquiry,
         PaymentAccepted, PaidAtOnce, PaymentRefused, PaymentLost, PaymentFails,
         RecordUpstreamResult, MarkFailed, RequestDies, Decide, CallAgain, Receive, Handle,
         LookupFails, HandlerStep, ConfirmWithProvider, CannotConfirm, Settle, NotifyMerchant,
         HandlerFails, Happens, Fails
<1>3. failures' = failures \/ failures' = failures + 1
  BY DEF Next, vars, ReserveTransactionAndBalance, RequestStep, AccountInquiry,
         PaymentAccepted, PaidAtOnce, PaymentRefused, PaymentLost, PaymentFails,
         RecordUpstreamResult, MarkFailed, RequestDies, Decide, CallAgain, Receive, Handle,
         LookupFails, HandlerStep, ConfirmWithProvider, CannotConfirm, Settle, NotifyMerchant,
         HandlerFails, Happens, Fails
<1>4. ASSUME NEW d \in Disbursements PROVE posted[d] \subseteq posted'[d]
  <2>1. CASE posted' = posted
    BY <2>1
  <2>2. ASSUME NEW e \in Disbursements, ReserveTransactionAndBalance(e)
        PROVE  posted[d] \subseteq posted'[d]
    BY <1>1, <2>2 DEF ReserveTransactionAndBalance, PayoutsOK, PayoutOK, RequestOK, TypeOK
  <2>3. ASSUME NEW h \in Handlers, Settle(h) PROVE posted[d] \subseteq posted'[d]
    <3>1. PICK e \in Disbursements : e = handler[h].d
      BY <1>1, <2>3, Shapes DEF Settle, Free
    <3>. QED
      BY <1>1, <2>3, <3>1 DEF Settle, TypeOK
  <2>. QED
    BY <2>1, <2>2, <2>3
       DEF Next, RequestStep, HandlerStep, vars, AccountInquiry,
           PaymentAccepted, PaidAtOnce, PaymentRefused, PaymentLost, PaymentFails,
           RecordUpstreamResult, MarkFailed, RequestDies, Decide, CallAgain, Receive,
           Handle, LookupFails, ConfirmWithProvider, CannotConfirm, NotifyMerchant,
           HandlerFails
<1>. QED
  BY <1>1, <1>2, <1>3, <1>4

LEMMA NextStatuses == PayoutsOK /\ StatusesOK /\ [Next]_vars => StatusesOK'
<1>. SUFFICES ASSUME PayoutsOK, StatusesOK, [Next]_vars, NEW d \in Disbursements
              PROVE  StatusOK(d)'
  BY DEF StatusesOK
<1>. USE DEF callbackVars, eventVars
<1>1. /\ TypeOK /\ StatusOK(d)
      /\ happened \subseteq happened' /\ posted[d] \subseteq posted'[d]
  BY Grows DEF PayoutsOK, StatusesOK
<1>2. CASE UNCHANGED <<status, request>>
  BY <1>1, <1>2 DEF StatusOK
<1>3. ASSUME NEW e \in Disbursements, ReserveTransactionAndBalance(e) PROVE StatusOK(d)'
  BY <1>1, <1>3 DEF ReserveTransactionAndBalance, Goto, StatusOK, TypeOK
<1>4. ASSUME NEW e \in Disbursements, AccountInquiry(e) PROVE StatusOK(d)'
  <2>1. PICK stage \in {"payment", "mark"} : request' = [request EXCEPT ![e] = [at |-> stage]]
    BY <1>4 DEF AccountInquiry, Goto
  <2>2. request'[d] = request[d] \/ request'[d].at \in {"payment", "mark"}
    BY <1>1, <2>1 DEF TypeOK
  <2>3. status' = status
    BY <1>4 DEF AccountInquiry
  <2>. QED
    BY <1>1, <2>2, <2>3 DEF StatusOK
<1>5. ASSUME NEW e \in Disbursements, PaymentAccepted(e) PROVE StatusOK(d)'
  BY <1>1, <1>5 DEF PaymentAccepted, Goto, StatusOK, TypeOK
<1>6. ASSUME NEW e \in Disbursements, PaidAtOnce(e) PROVE StatusOK(d)'
  BY <1>1, <1>6 DEF PaidAtOnce, Goto, StatusOK, TypeOK, Happens
<1>7. ASSUME NEW e \in Disbursements, PaymentRefused(e) \/ PaymentLost(e) PROVE StatusOK(d)'
  <2>1. PICK stage \in {"mark", "done"} : request' = [request EXCEPT ![e] = [at |-> stage]]
    BY <1>7 DEF PaymentRefused, PaymentLost, PaymentFails, Goto
  <2>2. status' = status
    BY <1>7 DEF PaymentRefused, PaymentLost, PaymentFails
  <2>. QED
    BY <1>1, <2>1, <2>2 DEF StatusOK, TypeOK
<1>8. ASSUME NEW e \in Disbursements, RecordUpstreamResult(e) PROVE StatusOK(d)'
  <2>1. /\ request[e].at = "record" /\ request[e].status \in {"PENDING", "SUCCESS"}
        /\ StatusOK(e)
    BY <1>1, <1>8 DEF RecordUpstreamResult, TypeOK, StatusesOK
  <2>2. status'[d] = (IF d = e THEN request[e].status ELSE status[d])
    BY <1>1, <1>8 DEF RecordUpstreamResult, TypeOK
  <2>3. request'[d] = (IF d = e THEN [at |-> "done"] ELSE request[d])
    BY <1>1, <1>8 DEF RecordUpstreamResult, Goto, TypeOK
  <2>4. CASE d = e
    <3>1. status'[d] \in {"PENDING", "SUCCESS"} /\ request'[d].at = "done"
      BY <2>1, <2>2, <2>3, <2>4
    <3>2. status'[d] = "SUCCESS" => "at once" \in happened'
      BY <1>1, <2>1, <2>2, <2>4 DEF StatusOK
    <3>. QED
      BY <3>1, <3>2 DEF StatusOK
  <2>5. CASE d # e
    BY <1>1, <2>2, <2>3, <2>5 DEF StatusOK
  <2>. QED
    BY <2>4, <2>5
<1>9. ASSUME NEW e \in Disbursements, MarkFailed(e) PROVE StatusOK(d)'
  BY <1>1, <1>9 DEF MarkFailed, Goto, StatusOK, TypeOK
<1>10. ASSUME NEW e \in Disbursements, RequestDies(e) PROVE StatusOK(d)'
  BY <1>1, <1>10 DEF RequestDies, Goto, StatusOK, TypeOK
<1>11. ASSUME NEW h \in Handlers, Settle(h), status' # status PROVE StatusOK(d)'
  <2>1. PICK e \in Disbursements, verdict \in Verdict :
           e = handler[h].d /\ verdict = handler[h].status
    BY <1>1, <1>11, Shapes DEF Settle, Free
  <2>2. /\ status' = [status EXCEPT ![e] = verdict]
        /\ posted' = [posted EXCEPT ![e] = @ \cup {OutcomeReason(verdict)}]
        /\ UNCHANGED request
    BY <1>11, <2>1 DEF Settle
  <2>3. d = e => status'[d] = verdict /\ OutcomeReason(verdict) \in posted'[d]
    BY <1>1, <2>2 DEF TypeOK
  <2>4. d # e => status'[d] = status[d]
    BY <1>1, <2>2 DEF TypeOK
  <2>. QED
    BY <1>1, <2>2, <2>3, <2>4 DEF StatusOK, Verdict, OutcomeReason
<1>. QED
  BY <1>2, <1>3, <1>4, <1>5, <1>6, <1>7, <1>8, <1>9, <1>10, <1>11
     DEF Next, RequestStep, HandlerStep, vars, Decide, CallAgain, Receive, Handle, LookupFails,
         ConfirmWithProvider, CannotConfirm, NotifyMerchant, HandlerFails, Settle

\* What can still lose the callback has not happened.
Lucky == happened \cap {"at once", "gateway", "lookup"} = {} /\ failures <= Retries

ComingOK(d) ==
    transfer[d] = "paid" /\ Lucky =>
        "PAYOUT_COMPLETED" \in posted[d] \/ CallbackIsComing(d)

ComingsOK == \A d \in Confirmable : ComingOK(d)

\* A paid payout that is not completed has an open row.
LEMMA StillOpen ==
    ASSUME PayoutsOK, StatusesOK, NEW d \in Disbursements, transfer[d] = "paid", Lucky,
           "PAYOUT_COMPLETED" \notin posted[d]
    PROVE  status[d] \notin TerminalStatuses
<1>1. PayoutOK(d) /\ StatusOK(d)
  BY DEF PayoutsOK, StatusesOK
<1>. QED
  BY <1>1 DEF PayoutOK, RequestOK, FailsForCertain, StatusOK, TerminalStatuses, Lucky

\* Failures only add to what is left.
LEMMA EnoughLeft ==
    ASSUME NEW left \in Nat, NEW few \in Nat, NEW more \in Nat, NEW r \in Nat, few <= more
    PROVE  /\ left + few >= r => left + more >= r
           /\ r + more >= r
OBVIOUS

\* Callbacks are added, handlers go on, failures add up.
LEMMA ComingStands ==
    ASSUME TypeOK, NEW d \in Disbursements, CallbackIsComing(d),
           owed[d] \subseteq owed'[d], failures' \in Nat, failures <= failures',
           \A h \in Handlers :
               handler[h].at \in {"confirm", "settle"} /\ handler[h].d = d =>
                   handler'[h] = handler[h]
    PROVE  CallbackIsComing(d)'
<1>1. failures \in Nat /\ Retries \in Nat
  BY PayoutAssumption DEF TypeOK
<1>2. ASSUME NEW left \in owed[d], left + failures >= Retries PROVE CallbackIsComing(d)'
  <2>1. left \in Nat
    BY <1>1 DEF TypeOK
  <2>2. left \in owed'[d]
    BY <1>2
  <2>3. left + failures' >= Retries
    BY <1>1, <1>2, <2>1, EnoughLeft
  <2>. QED
    BY <2>2, <2>3 DEF CallbackIsComing
<1>3. ASSUME NEW h \in Handlers, handler[h].at \in {"confirm", "settle"}, handler[h].d = d,
             handler[h].left + failures >= Retries
      PROVE  CallbackIsComing(d)'
  <2>1. handler[h].left \in Nat
    BY <1>1, <1>3, Shapes DEF Free
  <2>2. handler'[h] = handler[h] /\ handler'[h].left + failures' >= Retries
    BY <1>1, <1>3, <2>1
  <2>. QED
    BY <1>3, <2>2 DEF CallbackIsComing
<1>. QED
  BY <1>2, <1>3 DEF CallbackIsComing

\* What is asked for again comes again.
LEMMA AskRetryGrows ==
    ASSUME TypeOK, NEW h \in Handlers, handler[h] # Free, AskRetry(h)
    PROVE  /\ \A d \in Disbursements : owed[d] \subseteq owed'[d]
           /\ \A g \in Handlers : g # h => handler'[g] = handler[g]
           /\ handler[h].left # 0 => handler[h].left - 1 \in owed'[handler[h].d]
<1>1. PICK e \in Disbursements, left \in 0 .. Retries :
         e = handler[h].d /\ left = handler[h].left
  BY Shapes
<1>2. owed' = [owed EXCEPT ![e] = IF left = 0 THEN @ ELSE @ \cup {left - 1}]
  BY <1>1 DEF AskRetry
<1>3. \A g \in Handlers : g # h => handler'[g] = handler[g]
  BY DEF AskRetry, Release, TypeOK
<1>. QED
  BY <1>1, <1>2, <1>3 DEF TypeOK

LEMMA NextComings ==
    PayoutsOK /\ StatusesOK /\ ComingsOK /\ [Next]_vars => ComingsOK'
<1>. SUFFICES ASSUME PayoutsOK, StatusesOK, ComingsOK, [Next]_vars,
                     NEW d \in Confirmable, transfer'[d] = "paid", Lucky',
                     "PAYOUT_COMPLETED" \notin posted'[d]
              PROVE  CallbackIsComing(d)'
  BY DEF ComingsOK, ComingOK
<1>. USE DEF callbackVars, eventVars
<1>1. /\ TypeOK /\ d \in Disbursements /\ PayoutOK(d) /\ Retries \in Nat
      /\ failures \in Nat /\ failures' \in Nat /\ failures <= failures' /\ failures' <= Retries
      /\ happened \subseteq happened'
      /\ "PAYOUT_COMPLETED" \notin posted[d]
  BY Grows, PayoutAssumption DEF PayoutsOK, Lucky
<1>2. Lucky
  <2>1. failures <= Retries
    BY <1>1
  <2>2. happened \cap {"at once", "gateway", "lookup"} = {}
    BY <1>1 DEF Lucky
  <2>. QED
    BY <2>1, <2>2 DEF Lucky
<1>3. transfer[d] = "paid" =>
        CallbackIsComing(d) /\ status[d] \notin TerminalStatuses
  BY <1>1, <1>2, StillOpen DEF ComingsOK, ComingOK
<1>4. CASE UNCHANGED <<transfer, owed, handler>>
  BY <1>1, <1>3, <1>4, ComingStands
<1>5. ASSUME NEW e \in Disbursements,
             \/ PaymentAccepted(e) \/ PaidAtOnce(e) \/ PaymentRefused(e) \/ PaymentLost(e)
      PROVE  CallbackIsComing(d)'
  <2>1. e = d => transfer[e] = "none"
    BY <1>1, <1>5 DEF PayoutOK, RequestOK, PaymentAccepted, PaidAtOnce, PaymentRefused,
                      PaymentLost, PaymentFails
  <2>2. ~PaidAtOnce(e)
    BY DEF PaidAtOnce, Happens, Lucky
  <2>3. e # d
    BY <1>1, <1>5, <2>1, <2>2 DEF PaymentAccepted, PaymentRefused, PaymentLost, TypeOK
  <2>4. transfer[d] = "paid"
    BY <1>1, <1>5, <2>2, <2>3 DEF PaymentAccepted, PaymentRefused, PaymentLost, TypeOK
  <2>5. UNCHANGED <<owed, handler>>
    BY <1>5, <2>2 DEF PaymentAccepted, PaymentRefused, PaymentLost, PaymentFails
  <2>. QED
    BY <1>1, <1>3, <2>4, <2>5, ComingStands
<1>6. ASSUME NEW e \in Disbursements, Decide(e) PROVE CallbackIsComing(d)'
  <2>1. CASE e = d
    <3>1. Retries \in owed'[d]
      BY <1>1, <1>6, <2>1 DEF Decide, Owes, TypeOK
    <3>2. Retries + failures' >= Retries
      BY <1>1, EnoughLeft
    <3>. QED
      BY <3>1, <3>2 DEF CallbackIsComing
  <2>2. CASE e # d
    <3>1. transfer[d] = "paid" /\ owed'[d] = owed[d] /\ UNCHANGED handler
      BY <1>1, <1>6, <2>2 DEF Decide, Owes, TypeOK
    <3>. QED
      BY <1>1, <1>3, <3>1, ComingStands
  <2>. QED
    BY <2>1, <2>2
<1>7. ASSUME NEW e \in Disbursements, CallAgain(e) PROVE CallbackIsComing(d)'
  <2>1. transfer[d] = "paid" /\ owed[d] \subseteq owed'[d] /\ UNCHANGED handler
    BY <1>1, <1>7 DEF CallAgain, Owes, TypeOK
  <2>. QED
    BY <1>1, <1>3, <2>1, ComingStands
<1>8. ASSUME NEW e \in Disbursements, NEW h \in Handlers, NEW left \in 0 .. Retries,
             NEW claimed \in Verdict, Handle(h, e, left, claimed)
      PROVE  CallbackIsComing(d)'
  <2>1. transfer[d] = "paid" /\ failures' = failures
    BY <1>8 DEF Handle
  <2>2. \A g \in Handlers : g # h => handler'[g] = handler[g]
    BY <1>1, <1>8 DEF Handle, TypeOK
  <2>3. owed' = [owed EXCEPT ![e] = @ \ {left}]
    BY <1>8 DEF Handle, Delivered
  <2>4. ASSUME NEW some \in owed[d], some + failures >= Retries PROVE CallbackIsComing(d)'
    <3>1. CASE e = d /\ some = left
      <4>. DEFINE next == [at |-> "confirm", d |-> e, left |-> left, claimed |-> claimed]
      <4>1. handler'[h] = next
        BY <1>1, <1>3, <1>8, <2>1, <3>1 DEF Handle, TypeOK
      <4>2. next.at = "confirm" /\ next.d = d /\ next.left = left
        BY <3>1
      <4>. HIDE DEF next
      <4>. QED
        BY <2>1, <2>4, <3>1, <4>1, <4>2 DEF CallbackIsComing
    <3>2. CASE ~(e = d /\ some = left)
      <4>1. some \in owed'[d]
        BY <1>1, <2>3, <3>2 DEF TypeOK
      <4>. QED
        BY <2>1, <2>4, <4>1 DEF CallbackIsComing
    <3>. QED
      BY <3>1, <3>2
  <2>5. ASSUME NEW g \in Handlers, handler[g].at \in {"confirm", "settle"}, handler[g].d = d,
               handler[g].left + failures >= Retries
        PROVE  CallbackIsComing(d)'
    <3>1. g # h
      BY <1>8, <2>5 DEF Handle, Free
    <3>. QED
      BY <2>1, <2>2, <2>5, <3>1 DEF CallbackIsComing
  <2>. QED
    BY <1>3, <2>1, <2>4, <2>5 DEF CallbackIsComing
<1>9. ASSUME NEW e \in Disbursements, NEW h \in Handlers, NEW left \in 0 .. Retries,
             LookupFails(h, e, left)
      PROVE  CallbackIsComing(d)'
  BY <1>9 DEF LookupFails, Fails, Happens, Lucky
<1>10. ASSUME NEW h \in Handlers, ConfirmWithProvider(h) PROVE CallbackIsComing(d)'
  <2>1. transfer[d] = "paid" /\ UNCHANGED <<owed, failures>> /\ CallbackIsComing(d)
    BY <1>3, <1>10 DEF ConfirmWithProvider
  <2>2. \A g \in Handlers : g # h => handler'[g] = handler[g]
    BY <1>1, <1>10 DEF ConfirmWithProvider, TypeOK
  <2>3. CASE handler[h].d # d
    BY <1>1, <1>10, <2>1, <2>2, <2>3, ComingStands DEF ConfirmWithProvider
  <2>4. CASE handler[h].d = d
    <3>. DEFINE next == [at |-> "settle", d |-> handler[h].d, left |-> handler[h].left,
                         status |-> Confirmed(h)]
    <3>1. Confirmed(h) = "SUCCESS"
      BY <2>1, <2>4 DEF Confirmed
    <3>2. handler'[h] = next
      BY <1>1, <1>10, <3>1 DEF ConfirmWithProvider, TypeOK
    <3>3. next.at = "settle" /\ next.d = d /\ next.left = handler[h].left
      BY <2>4
    <3>. HIDE DEF next
    <3>4. ASSUME NEW g \in Handlers, handler[g].at \in {"confirm", "settle"},
                 handler[g].d = d, handler[g].left + failures >= Retries
          PROVE  CallbackIsComing(d)'
      <4>1. CASE g = h
        BY <2>1, <3>2, <3>3, <3>4, <4>1 DEF CallbackIsComing
      <4>2. CASE g # h
        BY <2>1, <2>2, <3>4, <4>2 DEF CallbackIsComing
      <4>. QED
        BY <4>1, <4>2
    <3>. QED
      BY <2>1, <3>4 DEF CallbackIsComing
  <2>. QED
    BY <2>3, <2>4
<1>11. ASSUME NEW h \in Handlers, CannotConfirm(h) PROVE CallbackIsComing(d)'
  <2>1. handler[h] # Free /\ AskRetry(h) /\ handler[h].d # d /\ transfer[d] = "paid"
    BY <1>11 DEF CannotConfirm, Free
  <2>. QED
    BY <1>1, <1>3, <2>1, AskRetryGrows, ComingStands
<1>12. ASSUME NEW h \in Handlers, Settle(h) PROVE CallbackIsComing(d)'
  <2>1. PICK e \in Disbursements, verdict \in Verdict :
           e = handler[h].d /\ verdict = handler[h].status
    BY <1>1, <1>12, Shapes DEF Settle, Free
  <2>2. handler[h] # Free /\ transfer[d] = "paid" /\ Agrees(verdict, transfer[e])
    BY <1>12, <2>1 DEF Settle, Free, PayoutsOK, HandlerOK
  <2>3. e # d
    <3>. SUFFICES ASSUME e = d PROVE FALSE
      OBVIOUS
    <3>1. verdict = "SUCCESS"
      BY <2>2 DEF Agrees
    <3>2. OutcomeReason(verdict) = "PAYOUT_COMPLETED"
      BY <3>1 DEF OutcomeReason
    <3>3. posted' = [posted EXCEPT ![d] = @ \cup {"PAYOUT_COMPLETED"}]
      BY <1>1, <1>12, <2>1, <3>2 DEF Settle
    <3>. QED
      BY <1>1, <3>3 DEF TypeOK
  <2>4. /\ \A g \in Handlers : g # h => handler'[g] = handler[g]
        /\ owed[d] \subseteq owed'[d]
    <3>1. CASE AskRetry(h)
      BY <1>1, <2>2, <3>1, AskRetryGrows
    <3>2. CASE handler' = [handler EXCEPT ![h] = [@ EXCEPT !.at = "notify"]] /\ UNCHANGED owed
      BY <1>1, <3>2 DEF TypeOK
    <3>. QED
      BY <1>12, <3>1, <3>2 DEF Settle
  <2>. QED
    BY <1>1, <1>3, <2>1, <2>2, <2>3, <2>4, ComingStands
<1>13. ASSUME NEW h \in Handlers, NotifyMerchant(h) PROVE CallbackIsComing(d)'
  <2>1. /\ handler[h].at = "notify" /\ transfer[d] = "paid" /\ owed' = owed
        /\ \A g \in Handlers : g # h => handler'[g] = handler[g]
    BY <1>1, <1>13 DEF NotifyMerchant, Release, TypeOK
  <2>. QED
    BY <1>1, <1>3, <2>1, ComingStands
<1>14. ASSUME NEW h \in Handlers, HandlerFails(h) PROVE CallbackIsComing(d)'
  <2>1. /\ handler[h] # Free /\ AskRetry(h) /\ transfer[d] = "paid"
        /\ failures' = failures + 1
    BY <1>14 DEF HandlerFails, Fails
  <2>2. handler[h].left \in Nat
    BY <1>1, <2>1, Shapes
  <2>3. CASE handler[h].d = d /\ handler[h].left + failures >= Retries
    <3>1. handler[h].left # 0 /\ (handler[h].left - 1) + failures' >= Retries
      BY <1>1, <2>1, <2>2, <2>3
    <3>2. handler[h].left - 1 \in owed'[d]
      BY <1>1, <2>1, <2>3, <3>1, AskRetryGrows
    <3>. QED
      BY <3>1, <3>2 DEF CallbackIsComing
  <2>4. CASE ~(handler[h].d = d /\ handler[h].left + failures >= Retries)
    <3>1. /\ owed[d] \subseteq owed'[d]
          /\ \A g \in Handlers : g # h => handler'[g] = handler[g]
      BY <1>1, <2>1, AskRetryGrows
    <3>2. ASSUME NEW left \in owed[d], left + failures >= Retries PROVE CallbackIsComing(d)'
      <4>1. left \in owed'[d] /\ left \in Nat
        BY <1>1, <3>1 DEF TypeOK
      <4>2. left + failures' >= Retries
        BY <1>1, <2>1, <3>2, <4>1
      <4>. QED
        BY <4>1, <4>2 DEF CallbackIsComing
    <3>3. ASSUME NEW g \in Handlers, handler[g].at \in {"confirm", "settle"},
                 handler[g].d = d, handler[g].left + failures >= Retries
          PROVE  CallbackIsComing(d)'
      <4>1. handler'[g] = handler[g] /\ handler[g].left \in Nat
        BY <1>1, <2>4, <3>1, <3>3, Shapes DEF Free
      <4>2. handler'[g].left + failures' >= Retries
        BY <1>1, <2>1, <3>3, <4>1
      <4>. QED
        BY <3>3, <4>1, <4>2 DEF CallbackIsComing
    <3>. QED
      BY <1>3, <2>1, <3>2, <3>3 DEF CallbackIsComing
  <2>. QED
    BY <2>3, <2>4
<1>. QED
  BY <1>4, <1>5, <1>6, <1>7, <1>8, <1>9, <1>10, <1>11, <1>12, <1>13, <1>14
     DEF Next, RequestStep, HandlerStep, vars, ReserveTransactionAndBalance, AccountInquiry,
         RecordUpstreamResult, MarkFailed, RequestDies, Receive

LEMMA InitComings == Init => ComingsOK
BY PayoutAssumption DEF Init, ComingsOK, ComingOK

(***************************************************************************)
(* The safety half of CompletedUnlessLost, for any numbers of retries and  *)
(* failures: what the webhook handler answers (200, or 500 for a retry)    *)
(* never drops the last callback that a paid payout has to be completed    *)
(* by, unless the lookup failed or failures outnumber the retries; and     *)
(* that callback will not find the row in a terminal status.               *)
(***************************************************************************)
THEOREM CompletionAlwaysComing == Spec => []CompletionIsComing
<1>1. PayoutsOK /\ StatusesOK /\ ComingsOK => CompletionIsComing
  <2>. SUFFICES ASSUME PayoutsOK, StatusesOK, ComingsOK, NEW d \in Confirmable,
                       transfer[d] = "paid", Lucky, "PAYOUT_COMPLETED" \notin posted[d]
                PROVE  status[d] \notin TerminalStatuses /\ CallbackIsComing(d)
    BY DEF CompletionIsComing, Lucky
  <2>1. d \in Disbursements
    BY PayoutAssumption
  <2>. QED
    BY <2>1, StillOpen DEF ComingsOK, ComingOK
<1>2. Spec => []StatusesOK
  BY InitStatuses, NextStatuses, AlwaysPayouts, PTL DEF Spec
<1>3. Spec => []ComingsOK
  BY <1>2, InitComings, NextComings, AlwaysPayouts, PTL DEF Spec
<1>. QED
  BY <1>1, <1>2, <1>3, AlwaysPayouts, PTL

\* A payout that says SUCCESS has consumed its reservation, unless the payment
\* leg was answered so.
SuccessIsConsumed ==
    \A d \in Disbursements :
        status[d] = "SUCCESS" => "PAYOUT_COMPLETED" \in posted[d] \/ "at once" \in happened

(***************************************************************************)
(* What ReservationIsReleased still gets right: of the ways to SUCCESS the *)
(* callback's always consumes the reservation, whatever overtakes it; only *)
(* recordUpstreamResult, with a payment answered SUCCESS, leaves it.       *)
(***************************************************************************)
THEOREM SuccessConsumesReservation == Spec => []SuccessIsConsumed
<1>1. StatusesOK => SuccessIsConsumed
  BY DEF StatusesOK, StatusOK, SuccessIsConsumed
<1>2. Spec => []StatusesOK
  BY InitStatuses, NextStatuses, AlwaysPayouts, PTL DEF Spec
<1>. QED
  BY <1>1, <1>2, PTL

-----------------------------------------------------------------------------
(* Terminal statuses.                                                      *)

\* A row says SUCCESS only of what is paid, and is terminal before the first
\* answer is recorded only if a callback has settled the payout.
OvertakenOK(d) ==
    /\ status[d] = "SUCCESS" => transfer[d] = "paid"
    /\ request[d].at = "record" /\ request[d].status = "SUCCESS" => transfer[d] = "paid"
    /\ request[d].at = "record" /\ status[d] \in TerminalStatuses => IsSettled(d)

AllOvertakenOK == \A d \in Disbursements : OvertakenOK(d)

LEMMA InitOvertaken == Init => AllOvertakenOK
BY DEF Init, AllOvertakenOK, OvertakenOK

LEMMA NextOvertaken == PayoutsOK /\ AllOvertakenOK /\ [Next]_vars => AllOvertakenOK'
<1>. SUFFICES ASSUME PayoutsOK, AllOvertakenOK, [Next]_vars, NEW d \in Disbursements
              PROVE  OvertakenOK(d)'
  BY DEF AllOvertakenOK
<1>. USE DEF callbackVars, eventVars
<1>1. TypeOK /\ OvertakenOK(d) /\ PayoutOK(d)
  BY DEF PayoutsOK, AllOvertakenOK
<1>2. CASE UNCHANGED <<status, posted, request, transfer>>
  BY <1>1, <1>2 DEF OvertakenOK, IsSettled
<1>3. ASSUME NEW e \in Disbursements, ReserveTransactionAndBalance(e) PROVE OvertakenOK(d)'
  BY <1>1, <1>3
     DEF ReserveTransactionAndBalance, Goto, OvertakenOK, IsSettled, TypeOK
<1>4. ASSUME NEW e \in Disbursements, AccountInquiry(e) PROVE OvertakenOK(d)'
  <2>1. PICK stage \in {"payment", "mark"} : request' = [request EXCEPT ![e] = [at |-> stage]]
    BY <1>4 DEF AccountInquiry, Goto
  <2>2. request'[d] = request[d] \/ request'[d].at \in {"payment", "mark"}
    BY <1>1, <2>1 DEF TypeOK
  <2>3. UNCHANGED <<status, posted, transfer>>
    BY <1>4 DEF AccountInquiry
  <2>. QED
    BY <1>1, <2>2, <2>3 DEF OvertakenOK, IsSettled
<1>5. ASSUME NEW e \in Disbursements, PaymentAccepted(e) \/ PaidAtOnce(e)
      PROVE  OvertakenOK(d)'
  <2>1. /\ request[e].at = "payment"
        /\ transfer[e] = "none" /\ status[e] \in {"NONE", "PENDING"}
        /\ UNCHANGED <<status, posted>>
    BY <1>5 DEF PaymentAccepted, PaidAtOnce, PayoutsOK, PayoutOK, RequestOK
  <2>2. PICK answer \in {"PENDING", "SUCCESS"}, fate \in {"processing", "paid"} :
           /\ request' = [request EXCEPT ![e] = [at |-> "record", status |-> answer]]
           /\ transfer' = [transfer EXCEPT ![e] = fate]
           /\ answer = "SUCCESS" => fate = "paid"
    BY <1>5 DEF PaymentAccepted, PaidAtOnce, Goto
  <2>3. CASE d = e
    BY <1>1, <2>1, <2>2, <2>3 DEF OvertakenOK, TypeOK, TerminalStatuses
  <2>4. CASE d # e
    BY <1>1, <2>1, <2>2, <2>4 DEF OvertakenOK, IsSettled, TypeOK
  <2>. QED
    BY <2>3, <2>4
<1>6. ASSUME NEW e \in Disbursements, PaymentRefused(e) \/ PaymentLost(e) PROVE OvertakenOK(d)'
  <2>1. /\ status[e] \in {"NONE", "PENDING"} /\ UNCHANGED <<status, posted>>
    BY <1>6 DEF PaymentRefused, PaymentLost, PaymentFails, PayoutsOK, PayoutOK, RequestOK
  <2>2. PICK stage \in {"mark", "done"} : request' = [request EXCEPT ![e] = [at |-> stage]]
    BY <1>6 DEF PaymentRefused, PaymentLost, PaymentFails, Goto
  <2>3. d # e => transfer'[d] = transfer[d] /\ request'[d] = request[d]
    BY <1>1, <1>6, <2>2 DEF PaymentRefused, PaymentLost, TypeOK
  <2>4. d = e => request'[d].at # "record" /\ status'[d] # "SUCCESS"
    BY <1>1, <2>1, <2>2 DEF TypeOK
  <2>. QED
    BY <1>1, <2>1, <2>3, <2>4 DEF OvertakenOK, IsSettled
<1>7. ASSUME NEW e \in Disbursements, RecordUpstreamResult(e) PROVE OvertakenOK(d)'
  <2>1. /\ request[e].at = "record"
        /\ status' = [status EXCEPT ![e] = request[e].status]
        /\ request' = [request EXCEPT ![e] = [at |-> "done"]]
        /\ UNCHANGED <<posted, transfer>>
    BY <1>7 DEF RecordUpstreamResult, Goto
  <2>2. CASE d = e
    BY <1>1, <2>1, <2>2 DEF OvertakenOK, TypeOK
  <2>3. CASE d # e
    BY <1>1, <2>1, <2>3 DEF OvertakenOK, IsSettled, TypeOK
  <2>. QED
    BY <2>2, <2>3
<1>8. ASSUME NEW e \in Disbursements, MarkFailed(e) PROVE OvertakenOK(d)'
  BY <1>1, <1>8 DEF MarkFailed, Goto, OvertakenOK, IsSettled, TypeOK
<1>9. ASSUME NEW e \in Disbursements, RequestDies(e) PROVE OvertakenOK(d)'
  BY <1>1, <1>9 DEF RequestDies, Goto, OvertakenOK, IsSettled, TypeOK
<1>10. ASSUME NEW e \in Disbursements, Decide(e) PROVE OvertakenOK(d)'
  BY <1>1, <1>10 DEF Decide, OvertakenOK, IsSettled, TypeOK
<1>11. ASSUME NEW h \in Handlers, Settle(h), status' # status PROVE OvertakenOK(d)'
  <2>1. PICK e \in Disbursements, verdict \in Verdict :
           e = handler[h].d /\ verdict = handler[h].status
    BY <1>1, <1>11, Shapes DEF Settle, Free
  <2>2. /\ status' = [status EXCEPT ![e] = verdict]
        /\ posted' = [posted EXCEPT ![e] = @ \cup {OutcomeReason(verdict)}]
        /\ UNCHANGED <<request, transfer>>
    BY <1>11, <2>1 DEF Settle
  <2>3. Agrees(verdict, transfer[e])
    BY <1>11, <2>1 DEF Settle, PayoutsOK, HandlerOK
  <2>4. CASE d = e
    <3>1. status'[d] = verdict /\ OutcomeReason(verdict) \in posted'[d]
      BY <1>1, <2>2, <2>4 DEF TypeOK
    <3>2. IsSettled(d)'
      BY <3>1 DEF IsSettled, OutcomeReason
    <3>. QED
      BY <1>1, <2>2, <2>3, <2>4, <3>1, <3>2 DEF OvertakenOK, Agrees
  <2>5. CASE d # e
    BY <1>1, <2>2, <2>5 DEF OvertakenOK, IsSettled, TypeOK
  <2>. QED
    BY <2>4, <2>5
<1>12. ASSUME NEW h \in Handlers, Settle(h), status' = status PROVE OvertakenOK(d)'
  <2>1. UNCHANGED <<request, transfer>> /\ posted[d] \subseteq posted'[d]
    BY <1>12, Grows DEF Settle
  <2>. QED
    BY <1>1, <1>12, <2>1 DEF OvertakenOK, IsSettled
<1>. QED
  BY <1>2, <1>3, <1>4, <1>5, <1>6, <1>7, <1>8, <1>9, <1>10, <1>11, <1>12
     DEF Next, RequestStep, HandlerStep, vars, CallAgain, Receive, Handle, LookupFails,
         ConfirmWithProvider, CannotConfirm, NotifyMerchant, HandlerFails

\* Who writes to a terminal row.
LEMMA TerminalStays ==
    ASSUME PayoutsOK, StatusesOK, AllOvertakenOK, [Next]_vars, NEW d \in Disbursements,
           status[d] \in TerminalStatuses, status'[d] # status[d]
    PROVE  \/ "gateway" \in happened
           \/ request[d].at = "record" /\ status'[d] = "PENDING" /\ IsSettled(d)
<1>. USE DEF callbackVars, eventVars
<1>1. TypeOK /\ OvertakenOK(d) /\ StatusOK(d) /\ PayoutOK(d)
  BY DEF PayoutsOK, StatusesOK, AllOvertakenOK
<1>2. \/ status[d] = "SUCCESS" /\ transfer[d] = "paid"
      \/ status[d] = "FAILED" /\ FailsForCertain(d)
  BY <1>1 DEF StatusOK, OvertakenOK, TerminalStatuses, PayoutOK, RequestOK
<1>3. ASSUME NEW e \in Disbursements, ReserveTransactionAndBalance(e) PROVE FALSE
  <2>1. status[e] \in {"NONE", "PENDING"} /\ status' = [status EXCEPT ![e] = "PENDING"]
    BY <1>3 DEF ReserveTransactionAndBalance, PayoutsOK, PayoutOK, RequestOK
  <2>. QED
    BY <1>1, <1>2, <2>1 DEF TypeOK
<1>4. ASSUME NEW e \in Disbursements, RecordUpstreamResult(e)
      PROVE  \/ "gateway" \in happened
             \/ request[d].at = "record" /\ status'[d] = "PENDING" /\ IsSettled(d)
  <2>1. request[e].at = "record" /\ status' = [status EXCEPT ![e] = request[e].status]
    BY <1>4 DEF RecordUpstreamResult
  <2>2. d = e /\ status'[d] = request[d].status
    BY <1>1, <2>1 DEF TypeOK
  <2>3. request[d].status \in {"PENDING", "SUCCESS"} /\ IsSettled(d)
    BY <1>1, <2>1, <2>2 DEF TypeOK, OvertakenOK
  <2>4. request[d].status = "SUCCESS" => "gateway" \in happened
    BY <1>1, <1>2, <2>1, <2>2 DEF OvertakenOK, FailsForCertain
  <2>. QED
    BY <2>1, <2>2, <2>3, <2>4
<1>5. ASSUME NEW e \in Disbursements, MarkFailed(e) PROVE "gateway" \in happened
  <2>1. request[e].at = "mark" /\ status' = [status EXCEPT ![e] = "FAILED"]
    BY <1>5 DEF MarkFailed
  <2>2. d = e /\ status'[d] = "FAILED"
    BY <1>1, <2>1 DEF TypeOK
  <2>. QED
    BY <1>1, <1>2, <2>1, <2>2 DEF PayoutOK, RequestOK, FailsForCertain
<1>6. ASSUME NEW h \in Handlers, Settle(h) PROVE "gateway" \in happened
  <2>1. PICK e \in Disbursements, verdict \in Verdict :
           e = handler[h].d /\ verdict = handler[h].status
    BY <1>1, <1>6, Shapes DEF Settle, Free
  <2>2. status' = status \/ status' = [status EXCEPT ![e] = verdict]
    BY <1>6, <2>1 DEF Settle
  <2>3. d = e /\ status'[d] = verdict
    BY <1>1, <2>2 DEF TypeOK
  <2>4. Agrees(verdict, transfer[d])
    BY <1>6, <2>1, <2>3 DEF Settle, PayoutsOK, HandlerOK
  <2>. QED
    BY <1>2, <2>3, <2>4 DEF Agrees, FailsForCertain
<1>. QED
  BY <1>3, <1>4, <1>5, <1>6
     DEF Next, RequestStep, HandlerStep, vars, AccountInquiry, PaymentAccepted, PaidAtOnce,
         PaymentRefused, PaymentLost, PaymentFails, RequestDies, Decide, CallAgain, Receive,
         Handle, LookupFails, ConfirmWithProvider, CannotConfirm, NotifyMerchant, HandlerFails

(***************************************************************************)
(* The comment on TERMINAL_STATUSES has them as statuses a transaction can *)
(* never move out of.  With two handlers at work on one payout that is so, *)
(* and it is so with its request, but for two cases: the request records   *)
(* its first answer after a callback has settled the payout, so that the   *)
(* row is PENDING again though the reservation is consumed or given back;  *)
(* or a gateway's error is taken for a refusal.                            *)
(***************************************************************************)
TerminalUnlessOvertaken == [][
    \A d \in Disbursements :
        status[d] \in TerminalStatuses /\ status'[d] # status[d] =>
          \/ "gateway" \in happened
          \/ /\ request[d].at = "record" /\ status'[d] = "PENDING"
             /\ posted[d] \cap {"PAYOUT_COMPLETED", "PAYOUT_FAILED"} # {}]_vars

(***************************************************************************)
(* A terminal status stands: two callbacks agree with the provider and so  *)
(* with each other, and the one write of the request that does not look at *)
(* the row finds it terminal only when a callback has settled the payout,  *)
(* unless a gateway's error was taken for an answer.                       *)
(***************************************************************************)
THEOREM TerminalFinalUnlessOvertaken == Spec => TerminalUnlessOvertaken
<1>1. PayoutsOK /\ StatusesOK /\ AllOvertakenOK /\ [Next]_vars =>
        [\A d \in Disbursements :
            status[d] \in TerminalStatuses /\ status'[d] # status[d] =>
              \/ "gateway" \in happened
              \/ /\ request[d].at = "record" /\ status'[d] = "PENDING"
                 /\ posted[d] \cap {"PAYOUT_COMPLETED", "PAYOUT_FAILED"} # {}]_vars
  BY TerminalStays DEF IsSettled
<1>2. Spec => []StatusesOK
  BY InitStatuses, NextStatuses, AlwaysPayouts, PTL DEF Spec
<1>3. Spec => []AllOvertakenOK
  BY InitOvertaken, NextOvertaken, AlwaysPayouts, PTL DEF Spec
<1>. QED
  BY <1>1, <1>2, <1>3, AlwaysPayouts, PTL DEF Spec, TerminalUnlessOvertaken

=============================================================================
