----------------------------- MODULE MoneyFlow -----------------------------
(***************************************************************************)
(* One merchant's money from end to end: the fees on file and the copies   *)
(* of them in Redis (apps/config/fee, libs/redis/fee.redis), the dashboard *)
(* that edits them (config-merchant), the fees a purchase or a payout is   *)
(* charged, and the movements apps/transaction and apps/settlement build   *)
(* from them.                                                              *)
(*                                                                         *)
(* How the steps of one purchase, one payout and one movement interleave   *)
(* with each other is left to Purchase, Disbursement, SettlementEngine and *)
(* BalanceLedger: here the transaction that posts a movement is one step.  *)
(***************************************************************************)
EXTENDS Movements, Fees

CONSTANTS
    Purchases,  \* those the provider has confirmed as paid
    Payouts,    \* those the merchant asks for
    Merchant,   \* the id of the merchant
    Nominal,    \* what each is for
    BaseFee,    \* the provider's fee per kind, changed by developers only
    FeeValues,  \* the rows per kind that may be put on file, or {} for their deletion
    Batches,    \* the sets of shareholders that somebody may submit
    OnFile,     \* the rows at the start
    Editors,    \* users of the dashboard
    MaxEdits    \* bound of what they write

Kind == {"PURCHASE", "DISBURSEMENT"}

\* A MerchantFee row is cached per base fee, the AgentShareholder rows together.
Key == Kind \cup {"agents"}

Source == Purchases \cup Payouts

KindOf(s) == IF s \in Purchases THEN "PURCHASE" ELSE "DISBURSEMENT"

\* What may be on file under a key.
Value(k) == IF k = "agents" THEN Shares ELSE MerchantFee

\* A set that stands for a value or for none.
AtMostOne(S) == \A x, y \in S : x = y

ASSUME MoneyAssumption ==
    /\ Purchases \cap Payouts = {}
    /\ Merchant \in Nat
    /\ Nominal \in [Source -> Nat \ {0}]
    /\ BaseFee \in [Kind -> Price]
    /\ \A k \in Kind : \A value \in FeeValues[k] : value \subseteq MerchantFee /\ AtMostOne(value)
    /\ Batches \subseteq Shares
    /\ \A config \in OnFile :
          /\ DOMAIN config = Key
          /\ \A k \in Key : config[k] \subseteq Value(k) /\ AtMostOne(config[k])
    /\ MaxEdits \in Nat

VARIABLES
    stored,         \* the committed row under each key, if there is one
    cache,          \* its copy in Redis, if there is one
    calculation,    \* per source, where the calculation of its fee is
    editor,         \* the requests to the dashboard
    edits,          \* how many there were
    status,         \* of the purchase or the payout
    charged,        \* the fee rows it was given, if any
    posted,         \* committed movements
    refused         \* per source, the last movement validate refused, if any

configVars == <<stored, cache, editor, edits>>
moneyVars == <<status, charged, posted, refused>>
vars == <<configVars, calculation, moneyVars>>

Idle == [at |-> "idle"]

\* A purchase waits for its capture, a payout does not exist before its reservation.
Uncharged(s) == IF s \in Purchases THEN "PENDING" ELSE "NONE"

Init ==
    /\ stored \in OnFile
    /\ cache = [k \in Key |-> {}]
    /\ calculation = [s \in Source |-> Idle]
    /\ editor = [e \in Editors |-> Idle]
    /\ edits = 0
    /\ status = [s \in Source |-> Uncharged(s)]
    /\ charged = [s \in Source |-> {}]
    /\ posted = {}
    /\ refused = [s \in Source |-> {}]

-----------------------------------------------------------------------------
(* The fee of a purchase or a payout.  Each find looks into Redis, which   *)
(* may not answer, then into the table, and then leaves a copy in Redis.   *)

Goto(s, next) == calculation' = [calculation EXCEPT ![s] = next]

Answer(s, fees) == Goto(s, [at |-> "answered", fees |-> fees])

CalculateWith(s, fee, shares) ==
    {Calculate(KindOf(s), BaseFee[KindOf(s)], fee, shares, Nominal[s])}

\* The merchant's fee is found, and then the shareholders if it has any use for them.
FoundFee(s, fee) ==
    IF HasAgents(fee) THEN Goto(s, [at |-> "get", fee |-> {fee}])
    ELSE Answer(s, CalculateWith(s, fee, NoShares))

Found(s, key, fees, value) ==
    IF key = "agents" THEN \E fee \in fees : Answer(s, CalculateWith(s, fee, value))
    ELSE FoundFee(s, value)

Get(s, key, fees) ==
    /\ \/ \E value \in cache[key] : Found(s, key, fees, value)
       \/ Goto(s, [at |-> "query", key |-> key, fee |-> fees])
    /\ UNCHANGED <<configVars, moneyVars>>

CalculateFee(s) ==
    /\ calculation[s] = Idle
    /\ status[s] = Uncharged(s)
    /\ Get(s, KindOf(s), {})

GetAgentShareholder(s) ==
    /\ calculation[s].at = "get"
    /\ Get(s, "agents", calculation[s].fee)

\* findUniqueOrThrow
Query(s) ==
    /\ calculation[s].at = "query"
    /\ \/ \E value \in stored[calculation[s].key] :
             Goto(s, [at |-> "set", key |-> calculation[s].key,
                      fee |-> calculation[s].fee, value |-> value])
       \/ stored[calculation[s].key] = {} /\ Answer(s, {})
    /\ UNCHANGED <<configVars, moneyVars>>

\* (A copy that Redis does not take is one that expires at once.)
Set(s) ==
    /\ calculation[s].at = "set"
    /\ cache' = [cache EXCEPT ![calculation[s].key] = {calculation[s].value}]
    /\ Found(s, calculation[s].key, calculation[s].fee, calculation[s].value)
    /\ UNCHANGED <<stored, editor, edits, moneyVars>>

\* The caller goes on without an answer: calculateFee returns null.
CalculationFails(s) ==
    /\ calculation[s].at \in {"get", "query", "set"}
    /\ Answer(s, {})
    /\ UNCHANGED <<configVars, moneyVars>>

\* Mutant: SET without a lifetime.
KeptForEver(k) == k \notin Key

MayExpire(k) == cache[k] # {}

\* The lifetime of a copy is over.
Expire(k) ==
    /\ MayExpire(k)
    /\ cache' = [cache EXCEPT ![k] = {}]
    /\ UNCHANGED <<stored, editor, edits, calculation, moneyVars>>

-----------------------------------------------------------------------------
(* The dashboard.                                                          *)

Edit(e, next) == editor' = [editor EXCEPT ![e] = next]

\* Rows that another transaction has written are waited for.
NobodyWrites(k) ==
    \A e \in Editors : editor[e].at = "written" => editor[e].key # k

Writes(e, k, value) ==
    /\ edits < MaxEdits
    /\ edits' = edits + 1
    /\ NobodyWrites(k)
    /\ Edit(e, [at |-> "written", key |-> k, value |-> value])
    /\ UNCHANGED <<stored, calculation, moneyVars>>

\* The deletion of the copy follows the write at once, and so comes before the
\* commit.  Redis may not answer.
DeleteKey(k) ==
    \/ cache' = [cache EXCEPT ![k] = {}]
    \/ UNCHANGED cache

UpsertProvider(e, k) ==
    /\ editor[e] = Idle
    /\ \E value \in FeeValues[k] \ {{}} : Writes(e, k, value)
    /\ DeleteKey(k)

\* A fee that is taken off the file leaves its copy.
DeleteProvider(e, k) ==
    /\ editor[e] = Idle
    /\ {} \in FeeValues[k]
    /\ stored[k] # {}
    /\ Writes(e, k, {})
    /\ UNCHANGED cache

\* The form that is submitted later shows the shareholders there are now.
OpenForm(e) ==
    /\ editor[e] = Idle
    /\ edits < MaxEdits
    /\ \E shares \in stored["agents"] : Edit(e, [at |-> "form", shown |-> DOMAIN shares])
    /\ UNCHANGED <<stored, cache, edits, calculation, moneyVars>>

\* Everyone in the batch is written, everyone else who was shown is deleted.
Merged(old, dropped, batch) ==
    [a \in (DOMAIN old \ dropped) \cup DOMAIN batch |->
        IF a \in DOMAIN batch THEN batch[a] ELSE old[a]]

UpsertAgentShareholder(e) ==
    /\ editor[e].at = "form"
    /\ \E old \in stored["agents"], batch \in Batches :
          LET dropped == editor[e].shown \ DOMAIN batch
          IN  /\ dropped \subseteq DOMAIN old
              /\ Writes(e, "agents", {Merged(old, dropped, batch)})
    /\ DeleteKey("agents")

CommitEdit(e) ==
    /\ editor[e].at = "written"
    /\ stored' = [stored EXCEPT ![editor[e].key] = editor[e].value]
    /\ Edit(e, Idle)
    /\ UNCHANGED <<cache, edits, calculation, moneyVars>>

\* The form is left, a shareholder to delete is no longer there, or the
\* transaction fails.
EditFails(e) ==
    /\ editor[e] # Idle
    /\ Edit(e, Idle)
    /\ UNCHANGED <<stored, cache, edits, calculation, moneyVars>>

-----------------------------------------------------------------------------
(* The movements.                                                          *)

MerchantRow(bucket) == RowOf("MERCHANT", Merchant, bucket)

InternalRow(bucket) == RowOf("INTERNAL", 0, bucket)

AgentRow(a, bucket) == RowOf("AGENT", a, bucket)

\* The shares of the house and the agents.
Earned(fees, bucket) ==
    {Credit(InternalRow(bucket), fees.internal)}
      \cup {Credit(AgentRow(a, bucket), fees.agents[a]) : a \in DOMAIN fees.agents}

\* The net amounts, or the gross amount when there is no answer.
BuildPayinMovement(p, answer) ==
    MovementOf("PAYIN_CAPTURED", p,
        IF answer = {} THEN {Credit(MerchantRow("PENDING"), Nominal[p])}
        ELSE UNION {{Credit(MerchantRow("PENDING"), fees.net)} \cup Earned(fees, "PENDING") :
                        fees \in answer})

\* From PENDING to AVAILABLE, when there is something.
Transfer(pending, available, amount) ==
    IF amount <= 0 THEN {} ELSE {Debit(pending, amount), Credit(available, amount)}

\* Mutant: the merchant's share is read from its fee row, which is the gross.
GrossOf(p, fees) == IF fees.net = 0 THEN 0 ELSE Nominal[p]

NetOf(p, fees) == fees.net

BuildSettlementMovement(p, fees) ==
    MovementOf("MERCHANT_SETTLED", p,
        Transfer(MerchantRow("PENDING"), MerchantRow("AVAILABLE"), NetOf(p, fees))
          \cup Transfer(InternalRow("PENDING"), InternalRow("AVAILABLE"), fees.internal)
          \cup UNION {Transfer(AgentRow(a, "PENDING"), AgentRow(a, "AVAILABLE"), fees.agents[a]) :
                          a \in DOMAIN fees.agents})

\* Mutant: what the merchant asked for is reserved, what it pays is taken.
ReserveNominal(d, fees) ==
    MovementOf("PAYOUT_RESERVED", d,
        {Debit(MerchantRow("AVAILABLE"), fees.net), Credit(MerchantRow("RESERVED"), Nominal[d])})

BuildPayoutReserved(d, fees) ==
    MovementOf("PAYOUT_RESERVED", d,
        {Debit(MerchantRow("AVAILABLE"), fees.net), Credit(MerchantRow("RESERVED"), fees.net)})

BuildPayoutCompleted(d, fees) ==
    MovementOf("PAYOUT_COMPLETED", d,
        {Debit(MerchantRow("RESERVED"), fees.net)} \cup Earned(fees, "AVAILABLE"))

BuildPayoutFailed(d, fees) ==
    MovementOf("PAYOUT_FAILED", d,
        {Debit(MerchantRow("RESERVED"), fees.net), Credit(MerchantRow("AVAILABLE"), fees.net)})

Balance(r) ==
    MapThenSumSet(LAMBDA m : MapThenSumSet(Signed, {l \in m.legs : l.row = r}), posted)

\* One transaction: the row, its fee rows and the movement, or nothing at all.
Post(s, m, next, fees) ==
    IF Valid(m)
    THEN /\ posted' = posted \cup {m}
         /\ status' = [status EXCEPT ![s] = next]
         /\ charged' = [charged EXCEPT ![s] = fees]
         /\ UNCHANGED refused
    ELSE /\ refused' = [refused EXCEPT ![s] = {m}]
         /\ UNCHANGED <<posted, status, charged>>

-----------------------------------------------------------------------------
(* Payins.                                                                 *)

\* A capture that is refused, or fails for another reason, is tried again.
Capture(p) ==
    /\ p \in Purchases
    /\ calculation[p].at = "answered"
    /\ Post(p, BuildPayinMovement(p, calculation[p].fees), "SUCCESS", calculation[p].fees)
    /\ Goto(p, Idle)
    /\ UNCHANGED configVars

CaptureFails(p) ==
    /\ p \in Purchases
    /\ calculation[p].at = "answered"
    /\ Goto(p, Idle)
    /\ UNCHANGED <<configVars, moneyVars>>

\* Only what has fee rows is claimed.
Settle(p) ==
    /\ status[p] = "SUCCESS"
    /\ p \in Purchases
    /\ \E fees \in charged[p] :
          Post(p, BuildSettlementMovement(p, fees), "SETTLED", {fees})
    /\ UNCHANGED <<configVars, calculation>>

-----------------------------------------------------------------------------
(* Payouts.                                                                *)

\* Refused without an answer, without a positive amount or without the money.
Reserve(d) ==
    /\ d \in Payouts
    /\ calculation[d].at = "answered"
    /\ Goto(d, Idle)
    /\ \/ \E fees \in calculation[d].fees :
             /\ fees.net > 0
             /\ Balance(MerchantRow("AVAILABLE")) >= fees.net
             /\ Post(d, BuildPayoutReserved(d, fees), "PENDING", {fees})
       \/ /\ \A fees \in calculation[d].fees :
                fees.net <= 0 \/ Balance(MerchantRow("AVAILABLE")) < fees.net
          /\ UNCHANGED moneyVars
    /\ UNCHANGED configVars

\* The provider's word does not change: what it paid, it does not reject later.
PostPayoutOutcome(d, isPaid) ==
    /\ d \in Payouts
    /\ status[d] = "PENDING"
    /\ refused[d] = {} \/ isPaid
    /\ \E fees \in charged[d] :
          IF isPaid THEN Post(d, BuildPayoutCompleted(d, fees), "SUCCESS", {fees})
                    ELSE Post(d, BuildPayoutFailed(d, fees), "FAILED", {fees})
    /\ UNCHANGED <<configVars, calculation>>

-----------------------------------------------------------------------------

Advance(s) == GetAgentShareholder(s) \/ Query(s) \/ Set(s) \/ CalculationFails(s)

EditorStep(e) ==
    \/ \E k \in Kind : UpsertProvider(e, k) \/ DeleteProvider(e, k)
    \/ OpenForm(e)
    \/ UpsertAgentShareholder(e)
    \/ CommitEdit(e)
    \/ EditFails(e)

SourceStep(s) ==
    \/ CalculateFee(s)
    \/ Advance(s)
    \/ Capture(s)
    \/ CaptureFails(s)
    \/ Settle(s)
    \/ Reserve(s)
    \/ \E isPaid \in BOOLEAN : PostPayoutOutcome(s, isPaid)

Next ==
    \/ \E s \in Source : SourceStep(s)
    \/ \E e \in Editors : EditorStep(e)
    \/ \E k \in Key : Expire(k)

Spec == Init /\ [][Next]_vars

\* A calculation ends, for its caller's timeout at the latest; Redis forgets.
Fairness ==
    /\ \A s \in Source : WF_vars(Advance(s))
    /\ \A k \in Key : WF_vars(Expire(k))

FairSpec == Spec /\ Fairness

-----------------------------------------------------------------------------
(* Properties                                                              *)

Asking(k) == [at : {"query"}, key : {k}, fee : SUBSET MerchantFee]

Filling(k) == [at : {"set"}, key : {k}, fee : SUBSET MerchantFee, value : Value(k)]

AnswerOK(fees) == AtMostOne(fees) /\ \A c \in fees : CalculationOK(c)

Writing(k) == [at : {"written"}, key : {k}, value : SUBSET Value(k)]

Leg == [row : [holderType : HolderType, holderId : Nat, bucket : Bucket],
        direction : Direction, amount : Int]

Movement == [reason : Reason, source : Source, legs : SUBSET Leg]

\* Where a calculation may be, and an editor.
StageOK(c) ==
    \/ c = Idle
    \/ c \in [at : {"get"}, fee : SUBSET MerchantFee]
    \/ c.at = "answered" /\ AnswerOK(c.fees)
    \/ \E k \in Key : c \in Asking(k) \/ c \in Filling(k)

EditOK(x) ==
    \/ x = Idle
    \/ x \in [at : {"form"}, shown : SUBSET Agents]
    \/ \E k \in Key : x \in Writing(k) /\ AtMostOne(x.value)

FilesOK ==
    /\ DOMAIN stored = Key /\ DOMAIN cache = Key
    /\ \A k \in Key : /\ stored[k] \subseteq Value(k) /\ AtMostOne(stored[k])
                      /\ cache[k] \subseteq Value(k) /\ AtMostOne(cache[k])

MoneyOK ==
    /\ status \in [Source -> {"NONE", "PENDING", "SUCCESS", "FAILED", "SETTLED"}]
    /\ DOMAIN charged = Source /\ \A s \in Source : AnswerOK(charged[s])
    /\ posted \subseteq Movement
    /\ refused \in [Source -> SUBSET Movement]

TypeOK ==
    /\ FilesOK
    /\ DOMAIN calculation = Source /\ \A s \in Source : StageOK(calculation[s])
    /\ DOMAIN editor = Editors /\ \A e \in Editors : EditOK(editor[e])
    /\ edits \in 0 .. MaxEdits
    /\ MoneyOK

(***************************************************************************)
(* What PENDING and RESERVED hold is emptied by what it was put there for: *)
(* a settlement takes from each holder exactly what the capture gave it,   *)
(* though one is built from the fee service's answer and the other, at     *)
(* night, from the rows; and a payout's outcome takes exactly what was     *)
(* reserved.  "The debit leaves a residue stuck in that bucket forever"    *)
(* otherwise, says buildPayoutCompleted.                                   *)
(***************************************************************************)
Into(m, bucket) ==
    {<<l.row, l.amount>> : l \in {l \in m.legs : l.direction = "CREDIT" /\ l.row.bucket = bucket}}

OutOf(m, bucket) ==
    {<<l.row, l.amount>> : l \in {l \in m.legs : l.direction = "DEBIT" /\ l.row.bucket = bucket}}

EmptiedBy(m, reason, bucket) ==
    \E k \in posted : k.reason = reason /\ k.source = m.source /\ Into(k, bucket) = OutOf(m, bucket)

NoResidue ==
    \A m \in posted :
        /\ m.reason = "MERCHANT_SETTLED" => EmptiedBy(m, "PAYIN_CAPTURED", "PENDING")
        /\ m.reason \in {"PAYOUT_COMPLETED", "PAYOUT_FAILED"} =>
              EmptiedBy(m, "PAYOUT_RESERVED", "RESERVED")

(***************************************************************************)
(* The money that arrived, or left, is the money that was booked: "Net     *)
(* across the holders is therefore -(nominal + providerFee), exactly the   *)
(* money that left".  What is missing, or too much, is the part of the     *)
(* agents' fee that the shareholders do not add up to, and half a unit for *)
(* each amount that was rounded.                                           *)
(***************************************************************************)
Booked(m) == MapThenSumSet(Signed, m.legs)

Gap(m, fees) ==
    Nominal[m.source] - fees.provider - Booked(m)

PaidGap(m, fees) ==
    -Booked(m) - Nominal[m.source] - fees.provider

Near(x, bound) == -bound <= x /\ x <= bound

SumOf(f) == MapThenSumSet(LAMBDA a : f[a], DOMAIN f)

Explained(gap, fees) ==
    LET missing == Whole - SumOf(fees.parts)
        roundings == 3 + Cardinality(DOMAIN fees.agents)
    IN  Near(2 * (Whole * gap - fees.agent * missing),
             Whole * roundings + (IF missing >= 0 THEN missing ELSE -missing))

MoneyAddsUp ==
    \A m \in posted :
        /\ m.reason = "PAYIN_CAPTURED" =>
              /\ charged[m.source] = {} => Booked(m) = Nominal[m.source]
              /\ \A fees \in charged[m.source] : Explained(Gap(m, fees), fees)
        /\ m.reason = "PAYOUT_COMPLETED" =>
              \A fees \in charged[m.source] : Explained(PaidGap(m, fees), fees)

(***************************************************************************)
(* Every movement the callers build is one validate accepts, but for those *)
(* with a share of nothing: a fee that is zero or rounds to it, or a       *)
(* merchant left with nothing.  A settlement, a reservation and a release  *)
(* are never refused.                                                      *)
(***************************************************************************)
OnlyNothingIsRefused ==
    \A s \in Source : \A m \in refused[s] :
        /\ m.reason \in {"PAYIN_CAPTURED", "PAYOUT_COMPLETED"}
        /\ \E l \in m.legs : l.amount <= 0

(***************************************************************************)
(* "Never refuse to record money that moved": what the provider has        *)
(* confirmed as paid is recorded (the rule of open-api.md).                *)
(***************************************************************************)
MovedMoneyIsRecorded == \A p \in Purchases : refused[p] = {}

(***************************************************************************)
(* Once nobody edits them any more, the fees in Redis become those on file *)
(* and stay so: what a slow calculation has put back after the deletion,   *)
(* what was deleted too early or not at all is not charged for ever.       *)
(***************************************************************************)
StaleEnds == \A k \in Key : <>[](cache[k] = {} \/ cache[k] = stored[k])

=============================================================================
