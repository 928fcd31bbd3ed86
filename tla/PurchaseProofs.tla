--------------------------- MODULE PurchaseProofs ---------------------------
(***************************************************************************)
(* Theorems about Purchase, for any purchases, handlers, faults, numbers   *)
(* of notifications, retries and failures.                                 *)
(***************************************************************************)
EXTENDS Purchase, TLAPS

-----------------------------------------------------------------------------
(* Types.                                                                  *)

Amount == {"none", "net", "gross"}

Asking == [at : {"confirm", "fee"}, p : Purchases, news : Message]

Settling == [at : {"settle", "notify"}, p : Purchases, news : Message,
             status : TerminalStatuses, amount : Amount]

LEMMA HandlerTypes ==
    TypeOK => handler \in [Handlers -> {Free} \cup Asking \cup Settling]
BY DEF TypeOK, Asking, Settling, Amount

\* What the record of a handler holds depends on where it is.
LEMMA Shapes ==
    ASSUME TypeOK, NEW h \in Handlers
    PROVE  /\ handler[h].at = "idle" <=> handler[h] = Free
           /\ handler[h] # Free => /\ handler[h].p \in Purchases
                                   /\ handler[h].news \in Message
           /\ handler[h].at \in {"confirm", "fee"} => handler[h] \in Asking
           /\ handler[h].at \in {"settle", "notify"} => handler[h] \in Settling
           /\ handler[h].at \in {"settle", "notify"} =>
                 /\ handler[h].status \in TerminalStatuses
                 /\ handler[h].amount \in Amount
BY HandlerTypes DEF Free, Asking, Settling

LEMMA InitTyped == Init => TypeOK
BY PurchaseAssumption DEF Init, TypeOK, Free

LEMMA FailsTyped ==
    ASSUME TypeOK, NEW fault, Fails(fault)
    PROVE  failures' \in 0 .. MaxFailures /\ happened' \subseteq Faults
BY PurchaseAssumption DEF Fails, TypeOK

\* The handlers' part of the types.
HandlersTyped == handler \in [Handlers -> {Free} \cup Asking \cup Settling]

LEMMA MoveTyped ==
    ASSUME TypeOK, NEW h \in Handlers, NEW next \in {Free} \cup Asking \cup Settling,
           Move(h, next)
    PROVE  HandlersTyped'
BY HandlerTypes DEF Move, HandlersTyped

LEMMA AskRetryTyped ==
    ASSUME TypeOK, NEW h \in Handlers, handler[h] # Free, AskRetry(h)
    PROVE  HandlersTyped' /\ owed' \in [Purchases -> SUBSET Message]
<1>1. handler[h].p \in Purchases /\ handler[h].news \in Message
  BY Shapes
<1>2. HandlersTyped'
  BY MoveTyped DEF AskRetry
<1>3. ASSUME handler[h].news.left # 0
      PROVE  [handler[h].news EXCEPT !.left = @ - 1] \in Message
  BY <1>1, <1>3, PurchaseAssumption DEF Message
<1>4. (IF handler[h].news.left = 0 THEN {}
       ELSE {[handler[h].news EXCEPT !.left = @ - 1]}) \in SUBSET Message
  BY <1>3
<1>5. owed' \in [Purchases -> SUBSET Message]
  BY <1>1, <1>4 DEF AskRetry, TypeOK
<1>. QED
  BY <1>2, <1>5

LEMMA NotificationTyped ==
    ASSUME NEW p, NEW said \in {"open", "paid", "failed", "expired"}
    PROVE  Notification(p, said) \in Message
BY PurchaseAssumption DEF Notification, Message

\* The fee is asked for once the provider has said that the customer paid.
FeesArePaid ==
    \A h \in Handlers : handler[h].at = "fee" => Confirmed(h) = "SUCCESS"

LEMMA NextTyped == TypeOK /\ FeesArePaid /\ [Next]_vars => TypeOK'
<1>. SUFFICES ASSUME TypeOK, FeesArePaid, [Next]_vars PROVE TypeOK'
  OBVIOUS
<1>. USE DEF rowVars, faultVars
<1>1. ASSUME NEW p \in Purchases, ReserveTransaction(p) PROVE TypeOK'
  BY <1>1 DEF ReserveTransaction, Goto, TypeOK
<1>2. ASSUME NEW p \in Purchases, CallUpstream(p) PROVE TypeOK'
  BY <1>2 DEF CallUpstream, Goto, TypeOK
<1>3. ASSUME NEW p \in Purchases, UpstreamRefuses(p) PROVE TypeOK'
  BY <1>3 DEF UpstreamRefuses, Goto, TypeOK
<1>4. ASSUME NEW p \in Purchases, UpstreamTimesOut(p) PROVE TypeOK'
  BY <1>4 DEF UpstreamTimesOut, Goto, TypeOK
<1>5. ASSUME NEW p \in Purchases, RecordUpstreamResult(p) PROVE TypeOK'
  BY <1>5 DEF RecordUpstreamResult, Goto, TypeOK
<1>6. ASSUME NEW p \in Purchases, MarkFailed(p) PROVE TypeOK'
  BY <1>6 DEF MarkFailed, Goto, TypeOK, TerminalStatuses
<1>7. ASSUME NEW p \in Purchases, UpstreamErrors(p) PROVE TypeOK'
  BY <1>7, FailsTyped DEF UpstreamErrors, Goto, TypeOK
<1>8. ASSUME NEW p \in Purchases, RecordFails(p) PROVE TypeOK'
  BY <1>8, FailsTyped DEF RecordFails, Goto, TypeOK
<1>9. ASSUME NEW p \in Purchases, RequestDies(p) PROVE TypeOK'
  BY <1>9, FailsTyped DEF RequestDies, Goto, TypeOK
<1>10. ASSUME NEW p \in Purchases, Decide(p) PROVE TypeOK'
  <2>1. PICK outcome \in Outcome(p) :
           /\ qr' = [qr EXCEPT ![p] = outcome]
           /\ owed' = [owed EXCEPT ![p] = @ \cup {Notification(p, outcome)}]
    BY <1>10 DEF Decide
  <2>2. outcome \in {"paid", "failed", "expired"}
    BY DEF Outcome
  <2>3. Notification(p, outcome) \in Message
    BY <2>2, NotificationTyped
  <2>. QED
    BY <1>10, <2>1, <2>2, <2>3 DEF Decide, TypeOK
<1>11. ASSUME NEW p \in Purchases, NotifyAgain(p) PROVE TypeOK'
  <2>1. qr[p] \in {"open", "paid", "failed", "expired"}
    BY <1>11 DEF NotifyAgain, TypeOK
  <2>2. Notification(p, qr[p]) \in Message
    BY <2>1, NotificationTyped
  <2>3. sent' \in [Purchases -> 0 .. MaxSent]
    BY <1>11, PurchaseAssumption DEF NotifyAgain, TypeOK
  <2>. QED
    BY <1>11, <2>2, <2>3 DEF NotifyAgain, TypeOK
<1>12. ASSUME NEW p \in Purchases, Receive(p) PROVE TypeOK'
  <2>1. PICK h \in Handlers, n \in owed[p] : Handle(h, p, n)
    BY <1>12 DEF Receive
  <2>2. n \in Message
    BY DEF TypeOK
  <2>3. [at |-> "confirm", p |-> p, news |-> n] \in Asking
    BY <2>2 DEF Asking
  <2>4. HandlersTyped'
    <3>1. CASE ~Found(p) \/ status[p] \in TerminalStatuses
      <4>1. Move(h, Free)
        BY <2>1, <3>1 DEF Handle
      <4>. QED
        BY <4>1, MoveTyped
    <3>2. CASE ~(~Found(p) \/ status[p] \in TerminalStatuses)
      <4>1. Move(h, [at |-> "confirm", p |-> p, news |-> n])
        BY <2>1, <3>2 DEF Handle
      <4>. QED
        BY <2>3, <4>1, MoveTyped
    <3>. QED
      BY <3>1, <3>2
  <2>. QED
    BY <2>1, <2>4 DEF Handle, Delivered, TypeOK, HandlersTyped, Asking, Settling, Amount
<1>13. ASSUME NEW p \in Purchases, NEW h \in Handlers, NEW n \in owed[p],
              LookupFails(h, p, n)
       PROVE  TypeOK'
  BY <1>13, FailsTyped DEF LookupFails, Delivered, TypeOK
<1>14. ASSUME NEW h \in Handlers, ConfirmWithProvider(h) PROVE TypeOK'
  <2>1. handler[h] \in Asking
    BY <1>14, Shapes DEF ConfirmWithProvider
  <2>2. CASE Confirmed(h) = "PENDING"
    <3>1. Move(h, Free)
      BY <1>14, <2>2 DEF ConfirmWithProvider, EarnsFees
    <3>2. HandlersTyped'
      BY <3>1, MoveTyped
    <3>. QED
      BY <1>14, <3>2 DEF ConfirmWithProvider, TypeOK, HandlersTyped, Asking, Settling, Amount
  <2>3. CASE Confirmed(h) = "SUCCESS"
    <3>1. [handler[h] EXCEPT !.at = "fee"] \in Asking
      BY <2>1 DEF Asking
    <3>2. Move(h, [handler[h] EXCEPT !.at = "fee"])
      BY <1>14, <2>3 DEF ConfirmWithProvider, EarnsFees
    <3>3. HandlersTyped'
      BY <3>1, <3>2, MoveTyped
    <3>. QED
      BY <1>14, <3>3 DEF ConfirmWithProvider, TypeOK, HandlersTyped, Asking, Settling, Amount
  <2>4. CASE Confirmed(h) \in {"FAILED", "EXPIRED"}
    <3>. DEFINE next == [at |-> "settle", p |-> handler[h].p, news |-> handler[h].news,
                         status |-> Confirmed(h), amount |-> "none"]
    <3>1. next \in Settling
      BY <2>1, <2>4 DEF Asking, Settling, Amount, TerminalStatuses
    <3>2. Move(h, next)
      BY <1>14, <2>4 DEF ConfirmWithProvider, EarnsFees
    <3>3. HandlersTyped'
      BY <3>1, <3>2, MoveTyped
    <3>. QED
      BY <1>14, <3>3 DEF ConfirmWithProvider, TypeOK, HandlersTyped, Asking, Settling, Amount
  <2>5. Confirmed(h) \in {"PENDING", "SUCCESS", "FAILED", "EXPIRED"}
    BY DEF Confirmed
  <2>. QED
    BY <2>2, <2>3, <2>4, <2>5
<1>15. ASSUME NEW h \in Handlers, CalculateFee(h) PROVE TypeOK'
  <2>1. handler[h] \in Asking
    BY <1>15, Shapes DEF CalculateFee
  <2>2. PICK amount \in {"net", "gross"} :
           /\ IF amount = "net" THEN UNCHANGED faultVars ELSE Fails("fee")
           /\ Move(h, [at     |-> "settle", p |-> handler[h].p, news |-> handler[h].news,
                       status |-> Confirmed(h), amount |-> amount])
    BY <1>15 DEF CalculateFee
  <2>3. [at |-> "settle", p |-> handler[h].p, news |-> handler[h].news,
         status |-> Confirmed(h), amount |-> amount] \in Settling
    BY <1>15, <2>1 DEF CalculateFee, FeesArePaid, Asking, Settling, Amount, TerminalStatuses
  <2>4. HandlersTyped'
    BY <2>2, <2>3, MoveTyped
  <2>5. failures' \in 0 .. MaxFailures /\ happened' \subseteq Faults
    BY <2>2, FailsTyped DEF TypeOK
  <2>. QED
    BY <1>15, <2>4, <2>5 DEF CalculateFee, TypeOK, HandlersTyped, Asking, Settling, Amount
<1>16. ASSUME NEW h \in Handlers, Settle(h) PROVE TypeOK'
  <2>1. /\ handler[h] \in Settling
        /\ handler[h] # Free
        /\ handler[h].p \in Purchases
        /\ handler[h].status \in TerminalStatuses
        /\ handler[h].amount \in Amount
    BY <1>16, Shapes DEF Settle, Free
  <2>2. CASE AskRetry(h) /\ UNCHANGED rowVars
    <3>1. HandlersTyped' /\ owed' \in [Purchases -> SUBSET Message]
      BY <2>1, <2>2, AskRetryTyped
    <3>. QED
      BY <1>16, <2>2, <3>1 DEF Settle, TypeOK, HandlersTyped, Asking, Settling, Amount
  <2>3. CASE ~(handler[h].amount # "none" /\ Duplicate(handler[h].p))
    <3>. DEFINE p == handler[h].p
    <3>1. /\ status' = [status EXCEPT ![p] = handler[h].status]
          /\ dated' = [dated EXCEPT ![p] = handler[h].news.said = "paid"]
          /\ fees' = [fees EXCEPT ![p] = @ + FeesOf(h)]
          /\ captured' = [captured EXCEPT ![p] = @ \cup ({handler[h].amount} \ {"none"})]
          /\ Move(h, IF Tells(h) THEN [handler[h] EXCEPT !.at = "notify"] ELSE Free)
          /\ UNCHANGED <<reference, owed>>
      BY <1>16, <2>3 DEF Settle
    <3>2. [handler[h] EXCEPT !.at = "notify"] \in Settling
      BY <2>1 DEF Settling
    <3>3. HandlersTyped'
      BY <3>1, <3>2, MoveTyped
    <3>4. status' \in [Purchases -> {"NONE", "PENDING"} \cup TerminalStatuses]
      BY <2>1, <3>1 DEF TypeOK
    <3>5. dated' \in [Purchases -> BOOLEAN]
      BY <2>1, <3>1 DEF TypeOK
    <3>6. fees' \in [Purchases -> Nat]
      BY <2>1, <3>1 DEF TypeOK, FeesOf
    <3>7. captured' \in [Purchases -> SUBSET {"net", "gross"}]
      BY <2>1, <3>1 DEF TypeOK, Amount
    <3>. QED
      BY <1>16, <3>1, <3>3, <3>4, <3>5, <3>6, <3>7
         DEF Settle, TypeOK, HandlersTyped, Asking, Settling, Amount
  <2>. QED
    BY <1>16, <2>2, <2>3 DEF Settle
<1>17. ASSUME NEW h \in Handlers, NotifyMerchant(h) PROVE TypeOK'
  <2>1. handler[h].p \in Purchases
    BY <1>17, Shapes DEF NotifyMerchant, Free
  <2>2. HandlersTyped'
    BY <1>17, MoveTyped DEF NotifyMerchant
  <2>3. told' \in [Purchases -> Nat]
    BY <1>17, <2>1 DEF NotifyMerchant, TypeOK
  <2>4. failures' \in 0 .. MaxFailures /\ happened' \subseteq Faults
    BY <1>17, FailsTyped DEF NotifyMerchant, TypeOK
  <2>. QED
    BY <1>17, <2>2, <2>3, <2>4 DEF NotifyMerchant, TypeOK, HandlersTyped, Asking, Settling, Amount
<1>18. ASSUME NEW h \in Handlers, HandlerFails(h) PROVE TypeOK'
  <2>1. HandlersTyped' /\ owed' \in [Purchases -> SUBSET Message]
    BY <1>18, AskRetryTyped DEF HandlerFails
  <2>2. failures' \in 0 .. MaxFailures /\ happened' \subseteq Faults
    BY <1>18, FailsTyped DEF HandlerFails
  <2>. QED
    BY <1>18, <2>1, <2>2 DEF HandlerFails, TypeOK, HandlersTyped, Asking, Settling, Amount
<1>19. CASE UNCHANGED vars
  BY <1>19 DEF vars, TypeOK
<1>. QED
  BY <1>1, <1>2, <1>3, <1>4, <1>5, <1>6, <1>7, <1>8, <1>9, <1>10, <1>11, <1>12, <1>13,
     <1>14, <1>15, <1>16, <1>17, <1>18, <1>19
     DEF Next, RequestStep, HandlerStep

-----------------------------------------------------------------------------
(* The row, the ledger, the provider and the handlers.                     *)

\* The status the provider's word stands for.
Agrees(verdict, fate) ==
    \/ verdict = "SUCCESS" /\ fate = "paid"
    \/ verdict = "FAILED" /\ fate = "failed"
    \/ verdict = "EXPIRED" /\ fate = "expired"

\* While its request is under way nothing else writes the row, and nobody pays
\* a QR code the merchant was not given.
RequestOK(p) ==
    /\ request[p] = "none" => status[p] = "NONE" /\ qr[p] = "none"
    /\ request[p] = "call" => qr[p] = "none"
    /\ request[p] \in {"call", "record", "mark"} => status[p] = "PENDING"
    /\ request[p] # "shown" => qr[p] \notin {"paid", "failed"}

\* Without the reference no callback finds the row, and with it the request is
\* over: what is terminal then was confirmed.
RowOK(p) ==
    /\ reference[p] => request[p] = "shown" /\ status[p] # "NONE"
    /\ ~reference[p] => /\ captured[p] = {}
                        /\ status[p] \in {"NONE", "PENDING", "FAILED"}
                        /\ status[p] = "FAILED" => request[p] = "done"
    /\ reference[p] /\ status[p] \in TerminalStatuses => Agrees(status[p], qr[p])

\* One transaction writes the status, the fee rows and the movement, once.
LedgerOK(p) ==
    /\ status[p] = "SUCCESS" <=> captured[p] # {}
    /\ captured[p] # {"net", "gross"}
    /\ fees[p] = IF captured[p] = {"net"} THEN 1 ELSE 0
    /\ told[p] <= 1
    /\ told[p] = 1 => captured[p] # {}

PurchaseOK(p) == RequestOK(p) /\ RowOK(p) /\ LedgerOK(p)

\* What a handler has heard is still so, and who has captured a payment is
\* alone in telling the merchant.
HandlerOK(h) ==
    /\ handler[h] # Free => reference[handler[h].p]
    /\ handler[h].at = "fee" => qr[handler[h].p] = "paid"
    /\ handler[h].at = "settle" =>
          /\ Agrees(handler[h].status, qr[handler[h].p])
          /\ handler[h].status = "SUCCESS" <=> handler[h].amount # "none"
    /\ handler[h].at = "notify" =>
          /\ captured[handler[h].p] # {}
          /\ told[handler[h].p] = 0
          /\ \A g \in Handlers :
                handler[g].at = "notify" /\ handler[g].p = handler[h].p => g = h

Inv ==
    /\ TypeOK
    /\ \A p \in Purchases : PurchaseOK(p)
    /\ \A h \in Handlers : HandlerOK(h)

LEMMA InvPaid == Inv => FeesArePaid
<1>. SUFFICES ASSUME Inv, NEW h \in Handlers, handler[h].at = "fee"
              PROVE  Confirmed(h) = "SUCCESS"
  BY DEF FeesArePaid
<1>. QED
  BY DEF Inv, HandlerOK, Confirmed

LEMMA InitInv == Init => Inv
BY InitTyped DEF Init, Inv, PurchaseOK, RequestOK, RowOK, LedgerOK, HandlerOK, Free,
                 TerminalStatuses

\* A step that leaves the handlers, what they have captured and whom they have
\* told alone, takes no reference away and changes no fate.
LEMMA HandlersStand ==
    ASSUME Inv, UNCHANGED <<handler, captured, told>>,
           \A p \in Purchases :
               /\ reference[p] => reference'[p]
               /\ qr[p] \in {"paid", "failed", "expired"} => qr'[p] = qr[p]
    PROVE  \A h \in Handlers : HandlerOK(h)'
<1>. SUFFICES ASSUME NEW h \in Handlers PROVE HandlerOK(h)'
  OBVIOUS
<1>1. HandlerOK(h) /\ (handler[h] # Free => handler[h].p \in Purchases)
  BY Shapes DEF Inv
<1>. QED
  BY <1>1 DEF HandlerOK, Agrees, Free

\* The steps of the request, of the customer and of the provider.
LEMMA RequestSteps ==
    ASSUME Inv, NEW p \in Purchases,
           \/ ReserveTransaction(p)
           \/ CallUpstream(p)
           \/ UpstreamRefuses(p)
           \/ UpstreamTimesOut(p)
           \/ UpstreamErrors(p)
           \/ RecordUpstreamResult(p)
           \/ RecordFails(p)
           \/ MarkFailed(p)
           \/ RequestDies(p)
           \/ Decide(p)
           \/ NotifyAgain(p)
    PROVE  /\ \A q \in Purchases : PurchaseOK(q)'
           /\ \A h \in Handlers : HandlerOK(h)'
<1>. USE DEF rowVars, faultVars
<1>0. TypeOK /\ PurchaseOK(p)
  BY DEF Inv
<1>1. UNCHANGED <<handler, captured, told, fees>>
  BY DEF ReserveTransaction, CallUpstream, UpstreamRefuses, UpstreamTimesOut, UpstreamErrors,
         RecordUpstreamResult, RecordFails, MarkFailed, RequestDies, Decide, NotifyAgain
<1>2. ASSUME NEW q \in Purchases
      PROVE  /\ reference[q] => reference'[q]
             /\ qr[q] \in {"paid", "failed", "expired"} => qr'[q] = qr[q]
  <2>1. CASE q # p
    BY <1>0, <2>1
       DEF ReserveTransaction, CallUpstream, UpstreamRefuses, UpstreamTimesOut, UpstreamErrors,
           RecordUpstreamResult, RecordFails, MarkFailed, RequestDies, Decide, NotifyAgain, TypeOK
  <2>2. CASE q = p
    BY <1>0, <2>2
       DEF ReserveTransaction, CallUpstream, UpstreamRefuses, UpstreamTimesOut, UpstreamErrors,
           RecordUpstreamResult, RecordFails, MarkFailed, RequestDies, Decide, NotifyAgain,
           TypeOK, PurchaseOK, RequestOK
  <2>. QED
    BY <2>1, <2>2
<1>3. \A h \in Handlers : HandlerOK(h)'
  BY <1>1, <1>2, HandlersStand
<1>4. ASSUME NEW q \in Purchases, q # p PROVE PurchaseOK(q)'
  <2>1. /\ status'[q] = status[q] /\ request'[q] = request[q] /\ qr'[q] = qr[q]
        /\ reference'[q] = reference[q]
    BY <1>4
       DEF ReserveTransaction, CallUpstream, UpstreamRefuses, UpstreamTimesOut, UpstreamErrors,
           RecordUpstreamResult, RecordFails, MarkFailed, RequestDies, Decide, NotifyAgain,
           Goto, Inv, TypeOK
  <2>2. PurchaseOK(q)
    BY DEF Inv
  <2>. QED
    BY <1>1, <2>1, <2>2 DEF PurchaseOK, RequestOK, RowOK, LedgerOK
<1>5. PurchaseOK(p)'
  <2>. USE <1>0, <1>1 DEF PurchaseOK, RequestOK, RowOK, LedgerOK, Goto, TypeOK, TerminalStatuses
  <2>1. CASE ReserveTransaction(p)
    BY <2>1 DEF ReserveTransaction
  <2>2. CASE CallUpstream(p)
    BY <2>2 DEF CallUpstream
  <2>3. CASE UpstreamRefuses(p)
    BY <2>3 DEF UpstreamRefuses
  <2>4. CASE UpstreamTimesOut(p)
    BY <2>4 DEF UpstreamTimesOut
  <2>5. CASE UpstreamErrors(p)
    BY <2>5 DEF UpstreamErrors
  <2>6. CASE RecordUpstreamResult(p)
    BY <2>6 DEF RecordUpstreamResult
  <2>7. CASE RecordFails(p)
    BY <2>7 DEF RecordFails
  <2>8. CASE MarkFailed(p)
    BY <2>8 DEF MarkFailed
  <2>9. CASE RequestDies(p)
    BY <2>9 DEF RequestDies
  <2>10. CASE Decide(p)
    BY <2>10 DEF Decide, Outcome, Agrees
  <2>11. CASE NotifyAgain(p)
    BY <2>11 DEF NotifyAgain
  <2>. QED
    BY <2>1, <2>2, <2>3, <2>4, <2>5, <2>6, <2>7, <2>8, <2>9, <2>10, <2>11
<1>. QED
  BY <1>3, <1>4, <1>5

\* A handler that moves on and writes nothing but callbacks.
LEMMA HandlerMoves ==
    ASSUME Inv, NEW h \in Handlers, NEW next, Move(h, next),
           UNCHANGED <<reference, qr, captured, told>>,
           next.at # "notify",
           next # Free => reference[next.p],
           next.at = "fee" => qr[next.p] = "paid",
           next.at = "settle" =>
              /\ Agrees(next.status, qr[next.p])
              /\ next.status = "SUCCESS" <=> next.amount # "none"
    PROVE  \A g \in Handlers : HandlerOK(g)'
<1>1. \A g \in Handlers : handler'[g] = IF g = h THEN next ELSE handler[g]
  BY DEF Move, Inv, TypeOK
<1>2. HandlerOK(h)'
  BY <1>1 DEF HandlerOK, Agrees
<1>3. ASSUME NEW g \in Handlers, g # h PROVE HandlerOK(g)'
  <2>1. HandlerOK(g) /\ handler'[g] = handler[g]
    BY <1>1, <1>3 DEF Inv
  <2>2. \A f \in Handlers : handler'[f].at = "notify" => handler'[f] = handler[f]
    BY <1>1
  <2>. QED
    BY <2>1, <2>2 DEF HandlerOK, Agrees
<1>. QED
  BY <1>2, <1>3

LEMMA RowsStand ==
    ASSUME Inv, UNCHANGED <<status, reference, fees, captured, told, request, qr>>
    PROVE  \A p \in Purchases : PurchaseOK(p)'
<1>. SUFFICES ASSUME NEW p \in Purchases PROVE PurchaseOK(p)'
  OBVIOUS
<1>1. PurchaseOK(p)
  BY DEF Inv
<1>. QED
  BY <1>1 DEF PurchaseOK, RequestOK, RowOK, LedgerOK

LEMMA FreeIsIdle == Free.at = "idle"
BY DEF Free

LEMMA CallbackSteps ==
    ASSUME Inv, NEW h \in Handlers,
           \/ \E p \in Purchases : \E n \in owed[p] : Handle(h, p, n) \/ LookupFails(h, p, n)
           \/ ConfirmWithProvider(h)
           \/ CalculateFee(h)
           \/ HandlerFails(h)
    PROVE  /\ \A p \in Purchases : PurchaseOK(p)'
           /\ \A g \in Handlers : HandlerOK(g)'
<1>1. UNCHANGED <<status, reference, fees, captured, told, request, qr>>
  BY DEF Handle, LookupFails, ConfirmWithProvider, CalculateFee, HandlerFails, rowVars
<1>2. \A p \in Purchases : PurchaseOK(p)'
  BY <1>1, RowsStand
<1>3. TypeOK /\ HandlerOK(h) /\ (handler[h] # Free => handler[h].p \in Purchases)
  BY Shapes DEF Inv
<1>4. Move(h, Free) => \A g \in Handlers : HandlerOK(g)'
  BY <1>1, HandlerMoves, FreeIsIdle
<1>5. ASSUME NEW p \in Purchases, NEW n \in owed[p], Handle(h, p, n)
      PROVE  \A g \in Handlers : HandlerOK(g)'
  <2>. DEFINE next == [at |-> "confirm", p |-> p, news |-> n]
  <2>1. CASE Found(p) /\ Move(h, next)
    <3>1. /\ next.at = "confirm" /\ next.p = p /\ reference[p]
      BY <2>1 DEF Found
    <3>. HIDE DEF next
    <3>. QED
      BY <1>1, <2>1, <3>1, HandlerMoves
  <2>2. Move(h, Free) \/ (Found(p) /\ Move(h, next))
    BY <1>5 DEF Handle
  <2>. QED
    BY <1>4, <2>1, <2>2
<1>6. ASSUME NEW p \in Purchases, NEW n \in owed[p], LookupFails(h, p, n)
      PROVE  \A g \in Handlers : HandlerOK(g)'
  BY <1>1, <1>6, HandlersStand DEF LookupFails
<1>7. ASSUME ConfirmWithProvider(h) PROVE \A g \in Handlers : HandlerOK(g)'
  <2>1. handler[h].at = "confirm" /\ handler[h] \in Asking /\ reference[handler[h].p]
    BY <1>3, <1>7, Shapes DEF ConfirmWithProvider, HandlerOK, Free
  <2>2. CASE Confirmed(h) = "PENDING"
    BY <1>4, <1>7, <2>2 DEF ConfirmWithProvider, EarnsFees
  <2>3. CASE Confirmed(h) = "SUCCESS"
    <3>. DEFINE next == [handler[h] EXCEPT !.at = "fee"]
    <3>1. Move(h, next)
      BY <1>7, <2>3 DEF ConfirmWithProvider, EarnsFees
    <3>2. next.at = "fee" /\ next.p = handler[h].p /\ qr[handler[h].p] = "paid"
      BY <2>1, <2>3 DEF Asking, Confirmed
    <3>. HIDE DEF next
    <3>. QED
      BY <1>1, <2>1, <3>1, <3>2, HandlerMoves
  <2>4. CASE Confirmed(h) \in {"FAILED", "EXPIRED"}
    <3>. DEFINE next == [at |-> "settle", p |-> handler[h].p, news |-> handler[h].news,
                         status |-> Confirmed(h), amount |-> "none"]
    <3>1. Move(h, next)
      BY <1>7, <2>4 DEF ConfirmWithProvider, EarnsFees
    <3>2. /\ next.at = "settle" /\ next.p = handler[h].p
          /\ next.status = Confirmed(h) /\ next.amount = "none"
      OBVIOUS
    <3>3. Agrees(Confirmed(h), qr[handler[h].p]) /\ Confirmed(h) # "SUCCESS"
      BY <2>4 DEF Agrees, Confirmed
    <3>. HIDE DEF next
    <3>. QED
      BY <1>1, <2>1, <3>1, <3>2, <3>3, HandlerMoves
  <2>5. Confirmed(h) \in {"PENDING", "SUCCESS", "FAILED", "EXPIRED"}
    BY DEF Confirmed
  <2>. QED
    BY <2>2, <2>3, <2>4, <2>5
<1>8. ASSUME CalculateFee(h) PROVE \A g \in Handlers : HandlerOK(g)'
  <2>1. PICK amount \in {"net", "gross"} :
           Move(h, [at     |-> "settle", p |-> handler[h].p, news |-> handler[h].news,
                    status |-> Confirmed(h), amount |-> amount])
    BY <1>8 DEF CalculateFee
  <2>. DEFINE next == [at     |-> "settle", p |-> handler[h].p, news |-> handler[h].news,
                       status |-> Confirmed(h), amount |-> amount]
  <2>2. qr[handler[h].p] = "paid" /\ reference[handler[h].p]
    BY <1>3, <1>8 DEF CalculateFee, HandlerOK, Free
  <2>3. /\ next.at = "settle" /\ next.p = handler[h].p
        /\ next.status = "SUCCESS" /\ next.amount # "none"
    BY <2>2 DEF Confirmed
  <2>4. Move(h, next)
    BY <2>1
  <2>. HIDE DEF next
  <2>. QED
    BY <1>1, <2>2, <2>3, <2>4, HandlerMoves DEF Agrees
<1>9. ASSUME HandlerFails(h) PROVE \A g \in Handlers : HandlerOK(g)'
  BY <1>4, <1>9 DEF HandlerFails, AskRetry
<1>. QED
  BY <1>2, <1>5, <1>6, <1>7, <1>8, <1>9

\* The transaction that settles: whoever comes second finds the movement there
\* or writes the status that is written already.
LEMMA SettleStep ==
    ASSUME Inv, NEW h \in Handlers, Settle(h)
    PROVE  /\ \A p \in Purchases : PurchaseOK(p)'
           /\ \A g \in Handlers : HandlerOK(g)'
           /\ \A p \in Purchases : status[p] \in TerminalStatuses => status'[p] = status[p]
<1>0. PICK p \in Purchases, amount \in Amount, verdict \in TerminalStatuses :
         p = handler[h].p /\ amount = handler[h].amount /\ verdict = handler[h].status
  BY Shapes DEF Settle, Free, Inv
<1>1. handler[h] \in Settling /\ handler[h] # Free /\ TypeOK /\ PurchaseOK(p)
  BY Shapes DEF Settle, Free, Inv
<1>2. /\ Agrees(verdict, qr[p])
      /\ verdict = "SUCCESS" <=> amount # "none"
      /\ reference[p]
  BY <1>0, <1>1 DEF Inv, HandlerOK, Settle
<1>3. UNCHANGED <<reference, told, request, qr>>
  BY DEF Settle, rowVars
<1>4. CASE amount # "none" /\ Duplicate(p)
  <2>1. Move(h, Free) /\ UNCHANGED <<status, reference, fees, captured>>
    BY <1>0, <1>4 DEF Settle, AskRetry, rowVars
  <2>2. \A g \in Handlers : HandlerOK(g)'
    BY <1>3, <2>1, HandlerMoves, FreeIsIdle
  <2>. QED
    BY <1>3, <2>1, <2>2, RowsStand
<1>5. CASE ~(amount # "none" /\ Duplicate(p))
  <2>1. /\ status' = [status EXCEPT ![p] = verdict]
        /\ fees' = [fees EXCEPT ![p] = @ + FeesOf(h)]
        /\ captured' = [captured EXCEPT ![p] = @ \cup ({amount} \ {"none"})]
        /\ Move(h, IF Tells(h) THEN [handler[h] EXCEPT !.at = "notify"] ELSE Free)
    BY <1>0, <1>5 DEF Settle
  <2>2. amount # "none" => captured[p] = {}
    BY <1>5 DEF Duplicate
  <2>3. ASSUME amount = "none" PROVE captured[p] = {}
    BY <1>0, <1>1, <1>2, <2>3 DEF PurchaseOK, RowOK, LedgerOK, Agrees, TerminalStatuses
  <2>4. status[p] \in TerminalStatuses => status[p] = verdict
    BY <1>0, <1>1, <1>2 DEF PurchaseOK, RowOK, Agrees
  <2>5. ASSUME NEW q \in Purchases, q # p
        PROVE  /\ PurchaseOK(q)' /\ status'[q] = status[q]
               /\ captured'[q] = captured[q]
    <3>1. status'[q] = status[q] /\ fees'[q] = fees[q] /\ captured'[q] = captured[q]
      BY <1>0, <1>1, <2>1, <2>5 DEF TypeOK
    <3>. QED
      BY <1>3, <3>1 DEF Inv, PurchaseOK, RequestOK, RowOK, LedgerOK
  <2>6. /\ status'[p] = verdict
        /\ fees'[p] = fees[p] + FeesOf(h)
        /\ captured'[p] = {amount} \ {"none"}
    BY <1>0, <1>1, <2>1, <2>2, <2>3 DEF TypeOK
  <2>7. PurchaseOK(p)'
    <3>1. RequestOK(p)'
      BY <1>0, <1>1, <1>2, <1>3 DEF PurchaseOK, RequestOK, RowOK
    <3>2. RowOK(p)'
      BY <1>0, <1>1, <1>2, <1>3, <2>6 DEF PurchaseOK, RowOK, TerminalStatuses
    <3>3. fees[p] = 0 /\ told[p] <= 1 /\ told[p] # 1
      BY <1>0, <1>1, <2>2, <2>3 DEF PurchaseOK, LedgerOK
    <3>4. fees'[p] = IF captured'[p] = {"net"} THEN 1 ELSE 0
      BY <1>0, <1>1, <2>6, <3>3 DEF FeesOf, Amount
    <3>5. LedgerOK(p)'
      BY <1>0, <1>1, <1>2, <1>3, <2>6, <3>3, <3>4 DEF LedgerOK, Amount
    <3>. QED
      BY <3>1, <3>2, <3>5 DEF PurchaseOK
  <2>8. ASSUME NEW g \in Handlers PROVE HandlerOK(g)'
    <3>1. HandlerOK(g) /\ (handler[g] # Free => handler[g].p \in Purchases)
      BY Shapes DEF Inv
    <3>2. ASSUME NEW f \in Handlers, handler[f].at = "notify" PROVE handler[f].p # p
      <4>1. HandlerOK(f)
        BY DEF Inv
      <4>. QED
        BY <2>2, <2>3, <3>2, <4>1 DEF HandlerOK
    <3>3. \A f \in Handlers : f # h => handler'[f] = handler[f]
      BY <2>1, <1>0, <1>1 DEF Move, TypeOK
    <3>4. CASE g # h
      <4>1. handler'[g] = handler[g]
        BY <3>3, <3>4
      <4>2. ASSUME handler[g].at = "notify"
            PROVE  /\ captured'[handler[g].p] # {} /\ told[handler[g].p] = 0
                   /\ \A f \in Handlers :
                         handler'[f].at = "notify" /\ handler'[f].p = handler[g].p => f = g
        <5>1. handler[g].p # p /\ handler[g].p \in Purchases
          BY <3>1, <3>2, <4>2 DEF Free
        <5>2. captured'[handler[g].p] = captured[handler[g].p]
          BY <2>5, <5>1
        <5>3. handler'[h].at = "notify" => handler'[h].p = p
          BY <1>0, <1>1, <2>1 DEF Move, TypeOK, Settling, Free
        <5>. QED
          BY <3>1, <3>3, <4>2, <5>1, <5>2, <5>3 DEF HandlerOK
      <4>. QED
        BY <1>3, <3>1, <4>1, <4>2 DEF HandlerOK, Agrees
    <3>5. CASE g = h
      <4>1. CASE Tells(h)
        <5>1. handler'[h] = [handler[h] EXCEPT !.at = "notify"]
          BY <1>0, <1>1, <2>1, <4>1 DEF Move, TypeOK
        <5>2. handler'[h].at = "notify" /\ handler'[h].p = p
          BY <1>0, <1>1, <5>1 DEF Settling
        <5>3. captured'[p] # {} /\ told[p] = 0
          <6>1. amount # "none"
            BY <1>0, <1>2, <4>1 DEF Tells
          <6>2. told[p] \in Nat /\ told[p] <= 1 /\ told[p] # 1
            BY <1>1, <2>2, <6>1 DEF PurchaseOK, LedgerOK, TypeOK
          <6>. QED
            BY <2>6, <6>1, <6>2
        <5>4. \A f \in Handlers : handler'[f].at = "notify" /\ handler'[f].p = p => f = h
          BY <3>2, <3>3
        <5>. QED
          BY <1>2, <1>3, <3>5, <5>2, <5>3, <5>4 DEF HandlerOK
      <4>2. CASE ~Tells(h)
        <5>1. handler'[h] = Free
          BY <1>0, <1>1, <2>1, <4>2 DEF Move, TypeOK
        <5>. QED
          BY <3>5, <5>1 DEF HandlerOK, Free
      <4>. QED
        BY <4>1, <4>2
    <3>. QED
      BY <3>4, <3>5
  <2>. QED
    BY <2>4, <2>5, <2>6, <2>7, <2>8
<1>. QED
  BY <1>4, <1>5

LEMMA NotifyStep ==
    ASSUME Inv, NEW h \in Handlers, NotifyMerchant(h)
    PROVE  /\ \A p \in Purchases : PurchaseOK(p)'
           /\ \A g \in Handlers : HandlerOK(g)'
<1>0. PICK p \in Purchases : p = handler[h].p
  BY Shapes DEF NotifyMerchant, Free, Inv
<1>1. /\ handler[h] # Free /\ TypeOK /\ HandlerOK(h)
      /\ captured[p] # {} /\ told[p] = 0
  BY <1>0, Shapes DEF NotifyMerchant, Free, Inv, HandlerOK
<1>2. /\ UNCHANGED <<status, reference, fees, captured, request, qr>>
      /\ Move(h, Free)
      /\ told' = [told EXCEPT ![p] = @ + 1] \/ told' = told
  BY <1>0 DEF NotifyMerchant, rowVars
<1>3. ASSUME NEW q \in Purchases PROVE PurchaseOK(q)'
  <2>1. told'[q] = told[q] \/ (q = p /\ told'[q] = 1)
    BY <1>0, <1>1, <1>2 DEF TypeOK
  <2>2. PurchaseOK(q)
    BY DEF Inv
  <2>. QED
    BY <1>0, <1>1, <1>2, <2>1, <2>2 DEF PurchaseOK, RequestOK, RowOK, LedgerOK
<1>4. handler'[h] = Free /\ \A f \in Handlers : f # h => handler'[f] = handler[f]
  BY <1>0, <1>1, <1>2 DEF Move, TypeOK
<1>5. HandlerOK(h)'
  BY <1>4 DEF HandlerOK, Free
<1>6. ASSUME NEW g \in Handlers, g # h PROVE HandlerOK(g)'
  <2>1. HandlerOK(g) /\ handler'[g] = handler[g]
    BY <1>4, <1>6 DEF Inv
  <2>2. ASSUME handler[g].at = "notify" PROVE told'[handler[g].p] = 0
    <3>1. handler[g].p # p
      BY <1>0, <1>1, <1>6, <2>1, <2>2 DEF HandlerOK, NotifyMerchant
    <3>2. handler[g].p \in Purchases
      BY <2>2, Shapes DEF Inv, Free
    <3>. QED
      BY <1>0, <1>1, <1>2, <2>1, <2>2, <3>1, <3>2 DEF HandlerOK, TypeOK
  <2>3. \A f \in Handlers : handler'[f].at = "notify" => handler'[f] = handler[f]
    BY <1>4, FreeIsIdle
  <2>. QED
    BY <1>2, <2>1, <2>2, <2>3 DEF HandlerOK, Agrees
<1>. QED
  BY <1>3, <1>5, <1>6

LEMMA NextInv == Inv /\ [Next]_vars => Inv'
<1>. SUFFICES ASSUME Inv, [Next]_vars PROVE Inv'
  OBVIOUS
<1>1. TypeOK'
  BY InvPaid, NextTyped DEF Inv
<1>. DEFINE Rest == /\ \A p \in Purchases : PurchaseOK(p)'
                    /\ \A h \in Handlers : HandlerOK(h)'
<1>2. Rest
  <2>1. CASE UNCHANGED vars
    BY <2>1, RowsStand, HandlersStand DEF vars, rowVars, faultVars
  <2>2. ASSUME NEW p \in Purchases, Receive(p)
        PROVE  Rest
    BY <2>2, CallbackSteps DEF Receive
  <2>3. ASSUME NEW p \in Purchases, NEW h \in Handlers, NEW n \in owed[p],
               LookupFails(h, p, n)
        PROVE  Rest
    BY <2>3, CallbackSteps
  <2>4. ASSUME NEW h \in Handlers, HandlerStep(h) \/ HandlerFails(h)
        PROVE  Rest
    BY <2>4, CallbackSteps, SettleStep, NotifyStep DEF HandlerStep
  <2>. QED
    BY <2>1, <2>2, <2>3, <2>4, RequestSteps DEF Next, RequestStep
<1>. QED
  BY <1>1, <1>2 DEF Inv

LEMMA AlwaysInv == Spec => []Inv
BY InitInv, NextInv, PTL DEF Spec

\* Of the writers of the status the request finds it NONE or PENDING, and a
\* callback finds a movement or has the same verdict.
LEMMA TerminalStays ==
    Inv /\ [Next]_vars =>
        \A p \in Purchases : status[p] \in TerminalStatuses => status'[p] = status[p]
<1>. SUFFICES ASSUME Inv, [Next]_vars, NEW p \in Purchases,
                     status[p] \in TerminalStatuses
              PROVE  status'[p] = status[p]
  OBVIOUS
<1>1. CASE \E q \in Purchases : \/ ReserveTransaction(q)
                                \/ RecordUpstreamResult(q)
                                \/ MarkFailed(q)
  <2>1. PICK q \in Purchases : \/ ReserveTransaction(q)
                               \/ RecordUpstreamResult(q)
                               \/ MarkFailed(q)
    BY <1>1
  <2>2. status[q] \notin TerminalStatuses
    BY <2>1 DEF Inv, PurchaseOK, RequestOK, ReserveTransaction, RecordUpstreamResult,
                MarkFailed, TerminalStatuses
  <2>. QED
    BY <2>1, <2>2 DEF ReserveTransaction, RecordUpstreamResult, MarkFailed, Inv, TypeOK
<1>2. CASE \E h \in Handlers : Settle(h)
  BY <1>2, SettleStep
<1>3. CASE /\ ~\E q \in Purchases : \/ ReserveTransaction(q)
                                    \/ RecordUpstreamResult(q)
                                    \/ MarkFailed(q)
           /\ ~\E h \in Handlers : Settle(h)
  <2>1. status' = status
    BY <1>3 DEF Next, RequestStep, HandlerStep, vars, rowVars, CallUpstream, UpstreamRefuses,
                UpstreamTimesOut, UpstreamErrors, RecordFails, RequestDies, Decide,
                NotifyAgain, Receive, Handle, LookupFails, ConfirmWithProvider,
                CalculateFee, NotifyMerchant, HandlerFails
  <2>. QED
    BY <2>1
<1>. QED
  BY <1>1, <1>2, <1>3

-----------------------------------------------------------------------------
(* Theorems.                                                               *)

(***************************************************************************)
(* The variables of Purchase keep their types, whatever is requested,      *)
(* notified, confirmed and lost; a handler asks for fees only once the     *)
(* provider has confirmed that the customer paid.                          *)
(***************************************************************************)
THEOREM TypeCorrect == Spec => []TypeOK
<1>1. Inv => TypeOK
  BY DEF Inv
<1>. QED
  BY <1>1, AlwaysInv, PTL

(***************************************************************************)
(* A purchase's status never disagrees with the provider or the ledger     *)
(* (the guard of handle, confirmWithProvider and the settling              *)
(* transaction), for any number of callbacks handled at the same time.     *)
(***************************************************************************)
THEOREM StatusAlwaysTrue == Spec => []StatusIsTrue
<1>1. Inv => StatusIsTrue
  <2>. SUFFICES ASSUME Inv, NEW p \in Purchases
                PROVE  /\ status[p] = "SUCCESS" <=> captured[p] # {}
                       /\ status[p] = "SUCCESS" => qr[p] = "paid"
                       /\ status[p] \in {"FAILED", "EXPIRED"} => qr[p] # "paid"
    BY DEF StatusIsTrue
  <2>1. PurchaseOK(p)
    BY DEF Inv
  <2>2. CASE reference[p]
    BY <2>1, <2>2 DEF PurchaseOK, RowOK, LedgerOK, Agrees, TerminalStatuses
  <2>3. CASE ~reference[p]
    BY <2>1, <2>3 DEF PurchaseOK, RequestOK, RowOK, LedgerOK
  <2>4. reference[p] \in BOOLEAN
    BY DEF Inv, TypeOK
  <2>. QED
    BY <2>2, <2>3, <2>4
<1>. QED
  BY <1>1, AlwaysInv, PTL

(***************************************************************************)
(* A captured purchase has one fee breakdown exactly if PENDING was        *)
(* credited net of it, however many callbacks asked for fees (settle).     *)
(***************************************************************************)
THEOREM LegsAlwaysMatchFees == Spec => []LegsMatchFees
<1>1. Inv => LegsMatchFees
  BY DEF Inv, PurchaseOK, LedgerOK, LegsMatchFees
<1>. QED
  BY <1>1, AlwaysInv, PTL

(***************************************************************************)
(* The merchant hears at most once of a purchase, and only of a captured   *)
(* one, however often and concurrently the provider notifies us.           *)
(***************************************************************************)
ToldOnce ==
    \A p \in Purchases : told[p] <= 1 /\ (told[p] = 1 => status[p] = "SUCCESS")

(***************************************************************************)
(* The merchant is told at most once and only of a captured purchase: the  *)
(* webhook follows the transaction that captured it, and there is one      *)
(* (notifyMerchant).                                                       *)
(***************************************************************************)
THEOREM AlwaysToldOnce == Spec => []ToldOnce
<1>1. Inv => ToldOnce
  BY DEF Inv, PurchaseOK, LedgerOK, ToldOnce
<1>. QED
  BY <1>1, AlwaysInv, PTL

(***************************************************************************)
(* A purchase never moves out of a terminal status.  Of the four writers   *)
(* of the status three find it NONE or PENDING; a callback that was        *)
(* confirmed before another one settled finds the movement there, or has   *)
(* the same verdict.                                                       *)
(***************************************************************************)
THEOREM TerminalAlwaysFinal == Spec => TerminalIsFinal
BY TerminalStays, AlwaysInv, PTL DEF Spec, TerminalIsFinal

-----------------------------------------------------------------------------
(* The promise.                                                            *)

\* A status written to one row.
LEMMA OneEnds ==
    ASSUME TypeOK, NEW p \in Purchases, NEW verdict,
           status' = [status EXCEPT ![p] = verdict]
    PROVE  [q \in Purchases |-> OutcomeOf(q)']
             = [[q \in Purchases |-> OutcomeOf(q)] EXCEPT
                   ![p] = IF verdict \in TerminalStatuses THEN verdict ELSE "OPEN"]
<1>1. ASSUME NEW q \in Purchases, q # p PROVE OutcomeOf(q)' = OutcomeOf(q)
  <2>1. status'[q] = status[q]
    BY <1>1 DEF TypeOK
  <2>. QED
    BY <2>1 DEF OutcomeOf
<1>2. OutcomeOf(p)' = IF verdict \in TerminalStatuses THEN verdict ELSE "OPEN"
  BY DEF OutcomeOf, TypeOK
<1>. QED
  BY <1>1, <1>2

LEMMA NothingEnds ==
    ASSUME UNCHANGED status
    PROVE  [q \in Purchases |-> OutcomeOf(q)'] = [q \in Purchases |-> OutcomeOf(q)]
BY DEF OutcomeOf

\* A row that is open, whatever is written to it that is not terminal.
LEMMA StaysOpen ==
    ASSUME TypeOK, NEW p \in Purchases, status[p] \notin TerminalStatuses,
           status' = [status EXCEPT ![p] = "PENDING"]
    PROVE  [q \in Purchases |-> OutcomeOf(q)'] = [q \in Purchases |-> OutcomeOf(q)]
<1>1. OutcomeOf(p) = "OPEN"
  BY DEF OutcomeOf
<1>2. "PENDING" \notin TerminalStatuses
  BY DEF TerminalStatuses
<1>. QED
  BY <1>1, <1>2, OneEnds

\* The request and the provider.
LEMMA RequestKeepsPromise ==
    ASSUME Inv, NEW p \in Purchases,
           \/ ReserveTransaction(p)
           \/ CallUpstream(p)
           \/ UpstreamTimesOut(p)
           \/ UpstreamErrors(p)
           \/ RecordUpstreamResult(p)
           \/ MarkFailed(p)
    PROVE  Promise!Next \/ UNCHANGED Promise!vars
<1>0. TypeOK /\ RequestOK(p)
  BY DEF Inv, PurchaseOK
<1>1. CASE ReserveTransaction(p) \/ RecordUpstreamResult(p)
  <2>1. status[p] \notin TerminalStatuses
    BY <1>0, <1>1 DEF ReserveTransaction, RecordUpstreamResult, RequestOK, TerminalStatuses
  <2>2. /\ status' = [status EXCEPT ![p] = "PENDING"]
        /\ UNCHANGED <<qr, captured, told>>
    BY <1>1 DEF ReserveTransaction, RecordUpstreamResult
  <2>. QED
    BY <1>0, <2>1, <2>2, StaysOpen DEF Promise!vars
<1>2. CASE CallUpstream(p) \/ UpstreamTimesOut(p) \/ UpstreamErrors(p)
  <2>1. status[p] = "PENDING" /\ qr[p] = "none"
    BY <1>0, <1>2 DEF CallUpstream, UpstreamTimesOut, UpstreamErrors, RequestOK
  <2>2. OutcomeOf(p) = "OPEN"
    BY <2>1 DEF OutcomeOf, TerminalStatuses
  <2>3. UNCHANGED <<status, captured, told>>
    BY <1>2 DEF CallUpstream, UpstreamTimesOut, UpstreamErrors, rowVars
  <2>4. CASE qr' = qr
    BY <2>3, <2>4, NothingEnds DEF Promise!vars
  <2>5. CASE qr' = [qr EXCEPT ![p] = "open"]
    <3>1. Promise!Show(p)
      BY <2>1, <2>2, <2>3, <2>5, NothingEnds DEF Promise!Show
    <3>. QED
      BY <3>1 DEF Promise!Next
  <2>. QED
    BY <1>2, <2>4, <2>5 DEF CallUpstream, UpstreamTimesOut, UpstreamErrors
<1>3. CASE MarkFailed(p)
  <2>1. status[p] = "PENDING" /\ qr[p] \notin {"paid", "failed"}
    BY <1>0, <1>3 DEF MarkFailed, RequestOK
  <2>2. OutcomeOf(p) = "OPEN"
    BY <2>1 DEF OutcomeOf, TerminalStatuses
  <2>3. status' = [status EXCEPT ![p] = "FAILED"] /\ UNCHANGED <<qr, captured, told>>
    BY <1>3 DEF MarkFailed
  <2>4. [q \in Purchases |-> OutcomeOf(q)']
          = [[q \in Purchases |-> OutcomeOf(q)] EXCEPT ![p] = "FAILED"]
    BY <1>0, <2>3, OneEnds DEF TerminalStatuses
  <2>5. Promise!GiveUp(p)
    BY <2>1, <2>2, <2>3, <2>4 DEF Promise!GiveUp, Promise!Ends
  <2>. QED
    BY <2>5 DEF Promise!Next
<1>. QED
  BY <1>1, <1>2, <1>3

LEMMA DecideKeepsPromise ==
    ASSUME Inv, NEW p \in Purchases, Decide(p)
    PROVE  Promise!Decide(p)
<1>0. TypeOK /\ RequestOK(p) /\ RowOK(p)
  BY DEF Inv, PurchaseOK
<1>1. PICK outcome \in Outcome(p) : qr' = [qr EXCEPT ![p] = outcome]
  BY DEF Decide
<1>2. qr[p] = "open" /\ UNCHANGED <<status, captured, told>>
  BY DEF Decide, rowVars
<1>3. outcome \in {"paid", "failed", "expired"}
  BY <1>1 DEF Outcome
<1>4. OutcomeOf(p) = "OPEN" \/ outcome = "expired"
  <2>1. CASE request[p] # "shown"
    BY <1>1, <2>1 DEF Outcome
  <2>2. CASE request[p] = "shown"
    <3>1. status[p] \notin TerminalStatuses
      BY <1>0, <1>2, <2>2 DEF RowOK, Agrees, TerminalStatuses, TypeOK
    <3>. QED
      BY <3>1 DEF OutcomeOf
  <2>. QED
    BY <2>1, <2>2
<1>. QED
  BY <1>1, <1>2, <1>3, <1>4, NothingEnds DEF Promise!Decide

\* The transaction that settles: it ends the purchase, or a callback with the
\* same verdict has done so before.
LEMMA SettleKeepsPromise ==
    ASSUME Inv, NEW h \in Handlers, Settle(h)
    PROVE  Promise!Next \/ UNCHANGED Promise!vars
<1>0. PICK p \in Purchases : p = handler[h].p
  BY Shapes DEF Settle, Free, Inv
<1>1. PICK verdict \in TerminalStatuses : verdict = handler[h].status
  BY Shapes DEF Settle, Free, Inv, Settling
<1>2. PICK amount \in Amount : amount = handler[h].amount
  BY Shapes DEF Settle, Free, Inv, Settling
<1>3. TypeOK /\ PurchaseOK(p) /\ HandlerOK(h) /\ handler[h] # Free
  BY DEF Inv, Settle, Free
<1>4. /\ reference[p]
      /\ Agrees(verdict, qr[p])
      /\ verdict = "SUCCESS" <=> amount # "none"
  BY <1>0, <1>1, <1>2, <1>3 DEF Settle, HandlerOK
<1>5. UNCHANGED <<qr, told>>
  BY DEF Settle
<1>6. CASE UNCHANGED rowVars
  BY <1>5, <1>6, NothingEnds DEF rowVars, Promise!vars
<1>7. CASE ~UNCHANGED rowVars
  <2>1. /\ amount # "none" => captured[p] = {}
        /\ status' = [status EXCEPT ![p] = verdict]
        /\ captured' = [captured EXCEPT ![p] = captured[p] \cup ({amount} \ {"none"})]
    BY <1>0, <1>1, <1>2, <1>3, <1>7 DEF Settle, Duplicate, TypeOK
  <2>2. [q \in Purchases |-> OutcomeOf(q)']
          = [[q \in Purchases |-> OutcomeOf(q)] EXCEPT ![p] = verdict]
    BY <1>3, <2>1, OneEnds
  <2>3. status[p] \in TerminalStatuses => Agrees(status[p], qr[p])
    BY <1>3, <1>4 DEF PurchaseOK, RowOK
  <2>4. status[p] \in TerminalStatuses => status[p] = verdict
    BY <1>4, <2>3 DEF Agrees
  <2>5. OutcomeOf(p) \in {"OPEN", verdict}
    BY <2>4 DEF OutcomeOf
  <2>6. CASE verdict = "SUCCESS"
    <3>1. amount \in {"net", "gross"}
      BY <1>2, <1>4, <2>6 DEF Amount
    <3>2. captured' = [captured EXCEPT ![p] = {amount}]
      BY <2>1, <3>1
    <3>3. status[p] # "SUCCESS"
      BY <1>3, <2>1, <3>1 DEF PurchaseOK, LedgerOK
    <3>4. OutcomeOf(p) = "OPEN"
      BY <2>4, <2>6, <3>3 DEF OutcomeOf
    <3>5. qr[p] = "paid"
      BY <1>4, <2>6 DEF Agrees
    <3>6. Promise!Credit(p)
      BY <1>5, <2>2, <2>6, <3>1, <3>2, <3>4, <3>5 DEF Promise!Credit, Promise!Ends
    <3>. QED
      BY <3>6 DEF Promise!Next
  <2>7. CASE verdict # "SUCCESS"
    <3>1. captured' = captured
      BY <1>3, <1>4, <2>1, <2>7 DEF TypeOK
    <3>2. CASE OutcomeOf(p) = verdict
      <4>1. [q \in Purchases |-> OutcomeOf(q)'] = [q \in Purchases |-> OutcomeOf(q)]
        BY <2>2, <3>2
      <4>. QED
        BY <1>5, <3>1, <4>1 DEF Promise!vars
    <3>3. CASE OutcomeOf(p) = "OPEN"
      <4>1. \/ verdict = "FAILED" /\ qr[p] = "failed"
            \/ verdict = "EXPIRED" /\ qr[p] = "expired"
        BY <1>4, <2>7 DEF Agrees
      <4>2. Promise!Refuse(p)
        BY <1>5, <2>2, <3>1, <3>3, <4>1 DEF Promise!Refuse, Promise!Ends
      <4>. QED
        BY <4>2 DEF Promise!Next
    <3>. QED
      BY <2>5, <3>2, <3>3
  <2>. QED
    BY <2>6, <2>7
<1>. QED
  BY <1>6, <1>7

LEMMA NotifyKeepsPromise ==
    ASSUME Inv, NEW h \in Handlers, NotifyMerchant(h)
    PROVE  Promise!Next \/ UNCHANGED Promise!vars
<1>0. PICK p \in Purchases : p = handler[h].p
  BY Shapes DEF NotifyMerchant, Free, Inv
<1>1. TypeOK /\ PurchaseOK(p) /\ captured[p] # {} /\ told[p] = 0
  BY <1>0 DEF NotifyMerchant, Inv, HandlerOK
<1>2. UNCHANGED <<status, captured, qr>>
  BY DEF NotifyMerchant, rowVars
<1>3. CASE told' = told
  BY <1>2, <1>3, NothingEnds DEF Promise!vars
<1>4. CASE told' # told
  <2>1. told' = [told EXCEPT ![p] = 1]
    BY <1>0, <1>1, <1>4 DEF NotifyMerchant, TypeOK
  <2>2. OutcomeOf(p) = "SUCCESS"
    BY <1>1 DEF PurchaseOK, LedgerOK, OutcomeOf, TerminalStatuses
  <2>3. Promise!Tell(p)
    BY <1>1, <1>2, <2>1, <2>2, NothingEnds DEF Promise!Tell
  <2>. QED
    BY <2>3 DEF Promise!Next
<1>. QED
  BY <1>3, <1>4

LEMMA StepsKeepPromise == Inv /\ [Next]_vars => [Promise!Next]_(Promise!vars)
<1>. SUFFICES ASSUME Inv, [Next]_vars
              PROVE  Promise!Next \/ UNCHANGED Promise!vars
  OBVIOUS
<1>1. CASE UNCHANGED <<status, captured, qr, told>>
  BY <1>1, NothingEnds DEF Promise!vars
<1>2. ASSUME NEW p \in Purchases, Decide(p)
      PROVE  Promise!Next
  BY <1>2, DecideKeepsPromise DEF Promise!Next
<1>3. ASSUME NEW p \in Purchases,
             \/ UpstreamRefuses(p)
             \/ RecordFails(p)
             \/ RequestDies(p)
             \/ NotifyAgain(p)
             \/ Receive(p)
             \/ \E h \in Handlers : \E n \in owed[p] : LookupFails(h, p, n)
      PROVE  UNCHANGED <<status, captured, qr, told>>
  BY <1>3 DEF UpstreamRefuses, RecordFails, RequestDies, NotifyAgain, Receive, Handle,
              LookupFails, rowVars
<1>4. ASSUME NEW h \in Handlers,
             ConfirmWithProvider(h) \/ CalculateFee(h) \/ HandlerFails(h)
      PROVE  UNCHANGED <<status, captured, qr, told>>
  BY <1>4 DEF ConfirmWithProvider, CalculateFee, HandlerFails, rowVars
<1>5. UNCHANGED vars => UNCHANGED <<status, captured, qr, told>>
  BY DEF vars, rowVars
<1>. QED
  BY <1>1, <1>2, <1>3, <1>4, <1>5, RequestKeepsPromise, SettleKeepsPromise, NotifyKeepsPromise
     DEF Next, RequestStep, HandlerStep

(***************************************************************************)
(* Purchase implements Payin: for any number of purchases, handlers,       *)
(* notifications and failures, a purchase ends once and as the provider    *)
(* decided unless its request gave it up unpaid (markFailed), its money is *)
(* credited once, in the step that ends it (settle), and the merchant is   *)
(* told once and afterwards (notifyMerchant).                              *)
(***************************************************************************)
THEOREM PromiseAlwaysKept == Spec => PayinKeepsPromise
<1>1. Init => Promise!Init
  BY DEF Init, Promise!Init, OutcomeOf, TerminalStatuses
<1>. QED
  BY <1>1, AlwaysInv, StepsKeepPromise, PTL DEF Spec, PayinKeepsPromise, Promise!Spec

-----------------------------------------------------------------------------
(* The notification an outcome waits for.                                  *)

\* Neither faults nor references are ever undone.
LEMMA Grows ==
    ASSUME Inv, [Next]_vars
    PROVE  /\ happened \subseteq happened'
           /\ failures \in Nat /\ failures' \in Nat /\ failures <= failures'
           /\ \A p \in Purchases : reference[p] => reference'[p]
<1>1. TypeOK /\ failures \in Nat
  BY PurchaseAssumption DEF Inv, TypeOK
<1>2. happened \subseteq happened'
  BY DEF Next, vars, faultVars, ReserveTransaction, RequestStep, CallUpstream, UpstreamRefuses,
         UpstreamTimesOut, UpstreamErrors, RecordUpstreamResult, RecordFails, MarkFailed,
         RequestDies, Decide, NotifyAgain, Receive, Handle, LookupFails, HandlerStep,
         ConfirmWithProvider, CalculateFee, Settle, NotifyMerchant, HandlerFails, Fails
<1>3. failures' = failures \/ failures' = failures + 1
  BY DEF Next, vars, faultVars, ReserveTransaction, RequestStep, CallUpstream, UpstreamRefuses,
         UpstreamTimesOut, UpstreamErrors, RecordUpstreamResult, RecordFails, MarkFailed,
         RequestDies, Decide, NotifyAgain, Receive, Handle, LookupFails, HandlerStep,
         ConfirmWithProvider, CalculateFee, Settle, NotifyMerchant, HandlerFails, Fails
<1>4. reference' = reference \/ \E q \in Purchases : RecordUpstreamResult(q)
  BY DEF Next, vars, rowVars, ReserveTransaction, RequestStep, CallUpstream, UpstreamRefuses,
         UpstreamTimesOut, UpstreamErrors, RecordFails, MarkFailed,
         RequestDies, Decide, NotifyAgain, Receive, Handle, LookupFails, HandlerStep,
         ConfirmWithProvider, CalculateFee, Settle, NotifyMerchant, HandlerFails
<1>5. \A p \in Purchases : reference[p] => reference'[p]
  BY <1>1, <1>4 DEF RecordUpstreamResult, TypeOK
<1>. QED
  BY <1>1, <1>2, <1>3, <1>5

\* A merchant that was given the QR code has a row that can be found by its reference.
ShownOK(p) == request[p] = "shown" => reference[p] \/ "record" \in happened

ShownsOK == \A p \in Purchases : ShownOK(p)

LEMMA InitShowns == Init => ShownsOK
BY DEF Init, ShownsOK, ShownOK

LEMMA NextShowns == Inv /\ ShownsOK /\ [Next]_vars => ShownsOK'
<1>. SUFFICES ASSUME Inv, ShownsOK, [Next]_vars, NEW p \in Purchases PROVE ShownOK(p)'
  BY DEF ShownsOK
<1>1. /\ TypeOK /\ ShownOK(p) /\ happened \subseteq happened'
      /\ reference[p] => reference'[p]
  BY Grows DEF Inv, ShownsOK
<1>2. CASE UNCHANGED request
  BY <1>1, <1>2 DEF ShownOK
<1>3. ASSUME NEW q \in Purchases, NEW next \in {"call", "record", "mark", "done"}, Goto(q, next)
      PROVE  ShownOK(p)'
  BY <1>1, <1>3 DEF Goto, ShownOK, TypeOK
<1>4. ASSUME NEW q \in Purchases, RecordUpstreamResult(q) PROVE ShownOK(p)'
  BY <1>1, <1>4 DEF RecordUpstreamResult, Goto, ShownOK, TypeOK
<1>5. ASSUME NEW q \in Purchases, RecordFails(q) PROVE ShownOK(p)'
  BY <1>1, <1>5 DEF RecordFails, Fails, ShownOK
<1>. QED
  BY <1>2, <1>3, <1>4, <1>5
     DEF Next, vars, RequestStep, HandlerStep, ReserveTransaction, CallUpstream,
         UpstreamRefuses, UpstreamTimesOut, UpstreamErrors, MarkFailed, RequestDies, Decide,
         NotifyAgain, Receive, Handle, LookupFails, ConfirmWithProvider, CalculateFee, Settle,
         NotifyMerchant, HandlerFails

\* What can still lose the notification has not happened.
Lucky == happened \cap {"record", "lookup"} = {} /\ failures <= Retries

ComingOK(p) ==
    qr[p] \in {"paid", "failed"} /\ Lucky =>
        status[p] \in TerminalStatuses \/ NotificationIsComing(p)

ComingsOK == \A p \in Purchases : ComingOK(p)

\* Nobody decides about a QR code the merchant was not given.
LEMMA StillFound ==
    ASSUME Inv, ShownsOK, NEW p \in Purchases, qr[p] \in {"paid", "failed"}, Lucky
    PROVE  reference[p]
<1>1. PurchaseOK(p) /\ ShownOK(p)
  BY DEF Inv, ShownsOK
<1>. QED
  BY <1>1 DEF PurchaseOK, RequestOK, ShownOK, Lucky

\* Failures only add to what is left.
LEMMA EnoughLeft ==
    ASSUME NEW left \in Nat, NEW few \in Nat, NEW more \in Nat, NEW r \in Nat, few <= more
    PROVE  /\ left + few >= r => left + more >= r
           /\ r + more >= r
OBVIOUS

LEMMA MessageLeft == ASSUME NEW n \in Message PROVE n.left \in Nat
BY PurchaseAssumption DEF Message

\* Notifications are added, handlers go on, failures add up.
LEMMA ComingStands ==
    ASSUME TypeOK, NEW p \in Purchases, NotificationIsComing(p),
           owed[p] \subseteq owed'[p], failures' \in Nat, failures <= failures',
           \A h \in Handlers :
               handler[h].at \in {"confirm", "fee", "settle"} /\ handler[h].p = p =>
                   /\ handler'[h].at \in {"confirm", "fee", "settle"}
                   /\ handler'[h].p = p
                   /\ handler'[h].news = handler[h].news
    PROVE  NotificationIsComing(p)'
<1>1. failures \in Nat /\ Retries \in Nat
  BY PurchaseAssumption DEF TypeOK
<1>2. ASSUME NEW n \in owed[p], n.left + failures >= Retries PROVE NotificationIsComing(p)'
  <2>1. n.left \in Nat
    BY MessageLeft DEF TypeOK
  <2>2. n \in owed'[p]
    BY <1>2
  <2>3. n.left + failures' >= Retries
    BY <1>1, <1>2, <2>1, EnoughLeft
  <2>. QED
    BY <2>2, <2>3 DEF NotificationIsComing
<1>3. ASSUME NEW h \in Handlers, handler[h].at \in {"confirm", "fee", "settle"},
             handler[h].p = p, handler[h].news.left + failures >= Retries
      PROVE  NotificationIsComing(p)'
  <2>1. handler[h].news.left \in Nat
    BY <1>1, <1>3, Shapes, MessageLeft DEF Free
  <2>2. handler[h].news.left + failures' >= Retries
    BY <1>1, <1>3, <2>1, EnoughLeft
  <2>. QED
    BY <1>3, <2>2 DEF NotificationIsComing
<1>. QED
  BY <1>2, <1>3 DEF NotificationIsComing

\* What is asked for again comes again.
LEMMA AskRetryGrows ==
    ASSUME TypeOK, NEW h \in Handlers, handler[h] # Free, AskRetry(h)
    PROVE  /\ \A p \in Purchases : owed[p] \subseteq owed'[p]
           /\ \A g \in Handlers : g # h => handler'[g] = handler[g]
           /\ handler[h].news.left # 0 =>
                 \E n \in owed'[handler[h].p] : n.left = handler[h].news.left - 1
<1>1. PICK q \in Purchases, m \in Message : q = handler[h].p /\ m = handler[h].news
  BY Shapes
<1>. DEFINE next == [m EXCEPT !.left = @ - 1]
<1>2. owed' = [owed EXCEPT ![q] = @ \cup (IF m.left = 0 THEN {} ELSE {next})]
  BY <1>1 DEF AskRetry
<1>3. \A g \in Handlers : g # h => handler'[g] = handler[g]
  BY DEF AskRetry, Move, TypeOK
<1>4. next.left = m.left - 1
  BY DEF Message
<1>. HIDE DEF next
<1>5. m.left # 0 => next \in owed'[q]
  BY <1>2 DEF TypeOK
<1>. QED
  BY <1>1, <1>2, <1>3, <1>4, <1>5 DEF TypeOK

LEMMA NextComings == Inv /\ ShownsOK /\ ComingsOK /\ [Next]_vars => ComingsOK'
<1>. SUFFICES ASSUME Inv, ShownsOK, ComingsOK, [Next]_vars,
                     NEW p \in Purchases, qr'[p] \in {"paid", "failed"}, Lucky',
                     status'[p] \notin TerminalStatuses
              PROVE  NotificationIsComing(p)'
  BY DEF ComingsOK, ComingOK
<1>1. /\ TypeOK /\ PurchaseOK(p) /\ Retries \in Nat
      /\ failures \in Nat /\ failures' \in Nat /\ failures <= failures' /\ failures' <= Retries
      /\ happened \subseteq happened'
      /\ status[p] \notin TerminalStatuses
  BY Grows, TerminalStays, PurchaseAssumption DEF Inv, Lucky
<1>2. Lucky
  <2>1. failures <= Retries
    BY <1>1
  <2>2. happened \cap {"record", "lookup"} = {}
    BY <1>1 DEF Lucky
  <2>. QED
    BY <2>1, <2>2 DEF Lucky
<1>3. qr[p] \in {"paid", "failed"} => NotificationIsComing(p) /\ reference[p]
  BY <1>1, <1>2, StillFound DEF ComingsOK, ComingOK
<1>4. CASE UNCHANGED <<qr, owed, handler>>
  BY <1>1, <1>3, <1>4, ComingStands
<1>5. ASSUME NEW q \in Purchases, CallUpstream(q) \/ UpstreamTimesOut(q) \/ UpstreamErrors(q)
      PROVE  NotificationIsComing(p)'
  BY <1>1, <1>3, <1>5, ComingStands
     DEF CallUpstream, UpstreamTimesOut, UpstreamErrors, TypeOK
<1>6. ASSUME NEW q \in Purchases, Decide(q) PROVE NotificationIsComing(p)'
  <2>1. CASE q = p
    <3>1. PICK outcome \in Outcome(q) :
             owed' = [owed EXCEPT ![q] = @ \cup {Notification(q, outcome)}]
      BY <1>6 DEF Decide
    <3>2. Notification(q, outcome) \in owed'[p]
      BY <1>1, <2>1, <3>1 DEF TypeOK
    <3>3. Notification(q, outcome).left + failures' >= Retries
      BY <1>1, EnoughLeft DEF Notification
    <3>. QED
      BY <3>2, <3>3 DEF NotificationIsComing
  <2>2. CASE q # p
    <3>1. qr'[p] = qr[p] /\ owed'[p] = owed[p] /\ UNCHANGED handler
      BY <1>1, <1>6, <2>2 DEF Decide, TypeOK
    <3>. QED
      BY <1>1, <1>3, <3>1, ComingStands
  <2>. QED
    BY <2>1, <2>2
<1>7. ASSUME NEW q \in Purchases, NotifyAgain(q) PROVE NotificationIsComing(p)'
  <2>1. UNCHANGED <<qr, handler>> /\ owed[p] \subseteq owed'[p]
    BY <1>1, <1>7 DEF NotifyAgain, TypeOK
  <2>. QED
    BY <1>1, <1>3, <2>1, ComingStands
<1>8. ASSUME NEW q \in Purchases, NEW h \in Handlers, NEW n \in owed[q], Handle(h, q, n)
      PROVE  NotificationIsComing(p)'
  <2>1. UNCHANGED <<qr, failures>> /\ NotificationIsComing(p) /\ reference[p]
    BY <1>3, <1>8 DEF Handle, faultVars
  <2>2. \A g \in Handlers : g # h => handler'[g] = handler[g]
    BY <1>1, <1>8 DEF Handle, Move, TypeOK
  <2>3. owed' = [owed EXCEPT ![q] = @ \ {n}]
    BY <1>8 DEF Handle, Delivered
  <2>4. ASSUME NEW m \in owed[p], m.left + failures >= Retries PROVE NotificationIsComing(p)'
    <3>1. CASE q = p /\ m = n
      <4>. DEFINE next == [at |-> "confirm", p |-> q, news |-> n]
      <4>1. handler'[h] = next
        BY <1>1, <1>8, <2>1, <3>1 DEF Handle, Move, Found, TypeOK
      <4>2. next.at = "confirm" /\ next.p = p /\ next.news.left = m.left
        BY <3>1
      <4>. HIDE DEF next
      <4>. QED
        BY <2>1, <2>4, <4>1, <4>2 DEF NotificationIsComing
    <3>2. CASE ~(q = p /\ m = n)
      <4>1. m \in owed'[p]
        BY <1>1, <2>3, <3>2 DEF TypeOK
      <4>. QED
        BY <2>1, <2>4, <4>1 DEF NotificationIsComing
    <3>. QED
      BY <3>1, <3>2
  <2>5. ASSUME NEW g \in Handlers, handler[g].at \in {"confirm", "fee", "settle"},
               handler[g].p = p, handler[g].news.left + failures >= Retries
        PROVE  NotificationIsComing(p)'
    <3>1. g # h
      BY <1>8, <2>5 DEF Handle, Free
    <3>. QED
      BY <2>1, <2>2, <2>5, <3>1 DEF NotificationIsComing
  <2>. QED
    BY <2>1, <2>4, <2>5 DEF NotificationIsComing
<1>9. ASSUME NEW q \in Purchases, NEW h \in Handlers, NEW n \in owed[q], LookupFails(h, q, n)
      PROVE  NotificationIsComing(p)'
  BY <1>9 DEF LookupFails, Fails, Lucky
<1>10. ASSUME NEW h \in Handlers, ConfirmWithProvider(h) PROVE NotificationIsComing(p)'
  <2>1. UNCHANGED <<qr, owed, failures>> /\ NotificationIsComing(p)
    BY <1>3, <1>10 DEF ConfirmWithProvider, faultVars
  <2>2. \A g \in Handlers : g # h => handler'[g] = handler[g]
    BY <1>1, <1>10 DEF ConfirmWithProvider, Move, TypeOK
  <2>3. handler[h].p = p =>
          /\ handler'[h].at \in {"confirm", "fee", "settle"}
          /\ handler'[h].p = p
          /\ handler'[h].news = handler[h].news
    <3>. SUFFICES ASSUME handler[h].p = p
                  PROVE  /\ handler'[h].at \in {"confirm", "fee", "settle"}
                         /\ handler'[h].p = p
                         /\ handler'[h].news = handler[h].news
      OBVIOUS
    <3>1. Confirmed(h) \in {"SUCCESS", "FAILED"} /\ handler[h] \in Asking
      BY <1>1, <1>10, <2>1, Shapes DEF Confirmed, ConfirmWithProvider
    <3>2. CASE Confirmed(h) = "SUCCESS"
      <4>1. handler'[h] = [handler[h] EXCEPT !.at = "fee"]
        BY <1>1, <1>10, <3>2 DEF ConfirmWithProvider, Move, EarnsFees, TypeOK
      <4>. QED
        BY <3>1, <4>1 DEF Asking
    <3>3. CASE Confirmed(h) = "FAILED"
      <4>1. handler'[h] = [at |-> "settle", p |-> handler[h].p, news |-> handler[h].news,
                           status |-> Confirmed(h), amount |-> "none"]
        BY <1>1, <1>10, <3>3 DEF ConfirmWithProvider, Move, EarnsFees, TypeOK
      <4>. QED
        BY <4>1
    <3>. QED
      BY <3>1, <3>2, <3>3
  <2>. QED
    BY <1>1, <2>1, <2>2, <2>3, ComingStands
<1>11. ASSUME NEW h \in Handlers, CalculateFee(h) PROVE NotificationIsComing(p)'
  <2>1. UNCHANGED <<qr, owed>> /\ NotificationIsComing(p)
    BY <1>3, <1>11 DEF CalculateFee
  <2>2. PICK amount \in {"net", "gross"} :
           handler' = [handler EXCEPT ![h] =
              [at |-> "settle", p |-> handler[h].p, news |-> handler[h].news,
               status |-> Confirmed(h), amount |-> amount]]
    BY <1>11 DEF CalculateFee, Move
  <2>3. \A g \in Handlers : g # h => handler'[g] = handler[g]
    BY <1>1, <2>2 DEF TypeOK
  <2>4. /\ handler'[h].at = "settle"
        /\ handler'[h].p = handler[h].p
        /\ handler'[h].news = handler[h].news
    BY <1>1, <2>2 DEF TypeOK
  <2>. QED
    BY <1>1, <2>1, <2>3, <2>4, ComingStands
<1>12. ASSUME NEW h \in Handlers, Settle(h) PROVE NotificationIsComing(p)'
  <2>1. PICK q \in Purchases, verdict \in TerminalStatuses, amount \in Amount :
           /\ q = handler[h].p
           /\ verdict = handler[h].status
           /\ amount = handler[h].amount
    BY <1>1, <1>12, Shapes DEF Settle, Free
  <2>2. handler[h] # Free /\ UNCHANGED <<qr, failures>> /\ NotificationIsComing(p)
    BY <1>3, <1>12 DEF Settle, Free, faultVars
  <2>3. CASE amount # "none" /\ Duplicate(q)
    <3>1. AskRetry(h) /\ q # p
      BY <1>1, <1>12, <2>1, <2>3 DEF Settle, Duplicate, PurchaseOK, LedgerOK, TerminalStatuses
    <3>. QED
      BY <1>1, <2>1, <2>2, <3>1, AskRetryGrows, ComingStands
  <2>4. CASE ~(amount # "none" /\ Duplicate(q))
    <3>1. status' = [status EXCEPT ![q] = verdict] /\ UNCHANGED owed
      BY <1>12, <2>1, <2>4 DEF Settle
    <3>2. q # p
      BY <1>1, <3>1 DEF TypeOK
    <3>3. \A g \in Handlers : g # h => handler'[g] = handler[g]
      BY <1>1, <1>12, <2>1, <2>4 DEF Settle, Move, TypeOK
    <3>. QED
      BY <1>1, <2>1, <2>2, <3>1, <3>2, <3>3, ComingStands
  <2>. QED
    BY <2>3, <2>4
<1>13. ASSUME NEW h \in Handlers, NotifyMerchant(h) PROVE NotificationIsComing(p)'
  <2>1. /\ handler[h].at = "notify" /\ NotificationIsComing(p) /\ UNCHANGED owed
        /\ \A g \in Handlers : g # h => handler'[g] = handler[g]
    BY <1>1, <1>3, <1>13 DEF NotifyMerchant, Move, TypeOK
  <2>. QED
    BY <1>1, <2>1, ComingStands
<1>14. ASSUME NEW h \in Handlers, HandlerFails(h) PROVE NotificationIsComing(p)'
  <2>1. /\ handler[h] # Free /\ AskRetry(h) /\ NotificationIsComing(p)
        /\ failures' = failures + 1
    BY <1>3, <1>14 DEF HandlerFails, Fails
  <2>2. handler[h].news.left \in Nat
    BY <1>1, <2>1, Shapes, MessageLeft
  <2>3. CASE handler[h].p = p /\ handler[h].news.left + failures >= Retries
    <3>1. handler[h].news.left # 0 /\ (handler[h].news.left - 1) + failures' >= Retries
      BY <1>1, <2>1, <2>2, <2>3
    <3>2. PICK n \in owed'[p] : n.left = handler[h].news.left - 1
      BY <1>1, <2>1, <2>3, <3>1, AskRetryGrows
    <3>. QED
      BY <3>1, <3>2 DEF NotificationIsComing
  <2>4. CASE ~(handler[h].p = p /\ handler[h].news.left + failures >= Retries)
    <3>1. /\ owed[p] \subseteq owed'[p]
          /\ \A g \in Handlers : g # h => handler'[g] = handler[g]
      BY <1>1, <2>1, AskRetryGrows
    <3>2. ASSUME NEW n \in owed[p], n.left + failures >= Retries
          PROVE  NotificationIsComing(p)'
      <4>1. n \in owed'[p] /\ n.left \in Nat
        BY <1>1, <3>1, MessageLeft DEF TypeOK
      <4>2. n.left + failures' >= Retries
        BY <1>1, <3>2, <4>1, EnoughLeft
      <4>. QED
        BY <4>1, <4>2 DEF NotificationIsComing
    <3>3. ASSUME NEW g \in Handlers, handler[g].at \in {"confirm", "fee", "settle"},
                 handler[g].p = p, handler[g].news.left + failures >= Retries
          PROVE  NotificationIsComing(p)'
      <4>1. handler'[g] = handler[g] /\ handler[g].news.left \in Nat
        BY <1>1, <2>4, <3>1, <3>3, Shapes, MessageLeft DEF Free
      <4>2. handler'[g].news.left + failures' >= Retries
        BY <1>1, <3>3, <4>1, EnoughLeft
      <4>. QED
        BY <3>3, <4>1, <4>2 DEF NotificationIsComing
    <3>. QED
      BY <2>1, <3>2, <3>3 DEF NotificationIsComing
  <2>. QED
    BY <2>3, <2>4
<1>. QED
  BY <1>4, <1>5, <1>6, <1>7, <1>8, <1>9, <1>10, <1>11, <1>12, <1>13, <1>14
     DEF Next, RequestStep, HandlerStep, vars, ReserveTransaction, UpstreamRefuses,
         RecordUpstreamResult, RecordFails, MarkFailed, RequestDies, Receive

LEMMA InitComings == Init => ComingsOK
BY DEF Init, ComingsOK, ComingOK

(***************************************************************************)
(* The safety half of CapturedUnlessLost, for any numbers of retries and   *)
(* failures: what the webhook handler answers (200, or 500 for a retry)    *)
(* never drops the last notification that a payment has to reach its row   *)
(* by, unless the reference was not recorded, the lookup failed or         *)
(* failures outnumber the retries; and that notification finds the row.    *)
(***************************************************************************)
THEOREM OutcomeAlwaysComing == Spec => []OutcomeIsComing
<1>1. Inv /\ ShownsOK /\ ComingsOK => OutcomeIsComing
  BY StillFound DEF OutcomeIsComing, ComingsOK, ComingOK, Lucky
<1>2. Spec => []ShownsOK
  BY InitShowns, NextShowns, AlwaysInv, PTL DEF Spec
<1>3. Spec => []ComingsOK
  BY <1>2, InitComings, NextComings, AlwaysInv, PTL DEF Spec
<1>. QED
  BY <1>1, <1>2, <1>3, AlwaysInv, PTL

=============================================================================
