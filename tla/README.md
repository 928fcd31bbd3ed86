# TLA+ specifications of the payment backend

The repository is a payment gateway: merchants create QR codes that customers
pay (payins), and ask for transfers to bank accounts and e-wallets (payouts).
Money is kept in a double-entry-like ledger; a nightly or daily settlement makes
captured money spendable. These specifications describe the part of it that moves
money, as read from the code; comments and documents were used only to find out
what the code is supposed to promise.

    Movements               libs/balance: the movements its callers hand it
    Ledger                  what the ledger promises (abstract)
    BalanceLedger           libs/balance: entries, snapshots, row locks
    Fees                    apps/config/fee: the split of a nominal
    MoneyFlow               one merchant's fees, their copies, and the movements made from them
    Settlement              what the settlement engine promises (abstract)
    SettlementEngine        apps/settlement: enqueuer, runner, sweeper
    SettlementPolicy        apps/settlement/src/policy: boundaries, cutoffs, releases
    Enqueuer                a merchant's terms, runs and payments as time passes
    Payout                  what payouts promise (abstract)
    Disbursement            apps/transaction: payouts
    Payin                   what payins promise (abstract)
    Purchase                apps/transaction: payins by QR code
    TokenCache              libs/redis: the provider tokens the pods share
    MerchantSignature       a merchant's signed request: guard, apps/auth, apps/dashboard
    <module>Proofs          the theorems about a module, for TLAPS
    MC<module>              the instances that TLC checks, one .cfg per run

`tlc -workers 2 -config MCPurchase_callbacks.cfg MCPurchase` runs one check,
`tlapm TokenCacheProofs.tla` checks the proofs of one module.  `PROJECT.json` lists the
components, the runs, the lines each definition stands for, the hazards and the
findings.

## 1. The system

| Component | State | Operations | Hard because |
|---|---|---|---|
| **Balance ledger** (`libs/balance`) | `BalanceEntry` (append only, unique per source, reason, holder, bucket), `BalanceSnapshot` (one row per holder and bucket) | `post`, `reserve`, inside a caller's transaction | callers interleave statement by statement under READ COMMITTED; row locks; replays |
| **Settlement engine** (`apps/settlement`) | `SettlementRun`, `PurchaseTransaction.batchSettlementId`, `BatchSettlement` | enqueue due runs; claim a run, settle it batch by batch, mark it; sweep stale runs | several pods, crashes, slow pods that outlive their lease, rollbacks |
| **Settlement policy** (`apps/settlement/src/policy`) | `MerchantSettlementPolicy` rows | pure functions: boundary, cutoff, eligibility | calendars, two functions that must agree |
| **Payouts** (`api-v1/disbursement`) | `DisbursementTransaction`, ledger | reserve, inquiry, payment, record, mark failed; callback: find, confirm, settle | a call that may have moved money and was not answered; callbacks that race the request |
| **Payins** (`api-v1/purchase`) | `PurchaseTransaction`, `PurchaseFeeDetail`, ledger | reserve, create QR, record; callback: find, confirm, fees, settle, tell the merchant | repeated, early, concurrent callbacks; partial failures |
| **Provider clients** (`upstream/*`) | none but tokens | typed HTTP calls | which errors mean "no" and which mean "unknown" |
| **Provider token cache** (`libs/redis/token.redis`) | token and lock keys in Redis | get, refresh once across pods, invalidate | a lock that expires, a delete that races a store |
| **Merchant authentication** (`apps/auth/merchant-signature`, guard, `libs/signature`) | credentials, rotation grace, cached credential, nonces, rate counters | validate a request, rotate, suspend, clean up | caches that outlive a rotation; order of rate, signature, nonce |
| **Fees** (`apps/config/fee`, `libs/redis/fee.redis`) | `MerchantFee` and `AgentShareholder` rows, and a copy of each in Redis for six hours | find the rows, copy by copy; split a nominal | copies that are stale; every share is rounded by itself, the movements are built from the answer, and later from rows |
| **Balance verification** | none | compares snapshots and entries | — |
| **Dashboard** (`apps/dashboard`) | single rows | rotates secrets, edits allowlists, fees and shareholders; CRUD, reads | two rotations, two forms at once; copies deleted before the commit |
| **Users, routing, infrastructure** | single rows | lookups | — |

How they interact. A payin callback and a payout request or callback each open one
interactive transaction, in which they update their row and call the ledger. A
settlement batch does the same for up to 500 purchases. The provider calls the
callback endpoints, is answered 200 or 500, and repeats a notification that was
answered 500 at most three times. Payins and settlement share the
`PurchaseTransaction` and fee rows: settlement claims rows that are SUCCESS, paid
before a cutoff, have a fee row and no batch yet. The enqueuer reads the policy rows to write
runs, and the settling of a run reads them again, later. Every request of a merchant passes the
guard, which asks `apps/auth`, which reads the row that `apps/dashboard` writes, through a cache in
Redis; every call of a provider takes its token from the cache.

What makes each correct:

* *Ledger*: snapshots are the sum of the entries; nothing is posted twice;
  AVAILABLE is never overdrawn; a transfer moves nobody else's money; locks are
  not waited for in circles.
* *Settlement*: no purchase is claimed twice or settled early; a crash loses
  nothing; a run is not tried for ever; everything claimable is settled.
* *Payouts*: the ledger's outcome is the provider's; FAILED means not paid; the
  reservation is used or released; terminal statuses stay.
* *Payins*: status, ledger, fee rows and the merchant's webhook agree with the
  provider; money that arrived is captured.
* *Policy*: the cutoff of a claim and the release moment of a payment agree; a run names a real
  boundary; missed ticks and changes of terms leave nothing behind and settle nothing early.
* *Tokens*: one refresh at a time over all pods; the retry after a 401 is not made with the
  token that was refused; nobody waits for ever; no storm of refreshes.
* *Fees and movements*: the shares add up to the money that moved but for roundings; what one
  movement puts into PENDING or RESERVED another takes out, to the unit; money that moved is recorded;
  fees that nobody edits any more are charged as they are on file.
* *Authentication*: a signed request is accepted once; what was rotated out or taken off
  the allowlist stops working within a known time; no secret a merchant holds is lost.

## 2. The modules

### BalanceLedger

State: the committed `entries` and `snapshot` rows, the next entry id, and for each
session in progress its `phase`, the `work` it has still to do, what it has
`inserted`, which of that is still `pending` for its snapshot, the rows it `holds`
locked, and its own version of them (`mine`). A transaction runs a *program*, a sequence of movements that
one caller posts (`Program`, a constant; the MC module writes down those of the payin
webhook, the settlement batch, the payout request and both payout callbacks). Each
SQL statement is an action: `SelectForUpdate` (the read of `reserve`), `Insert`
(all entries of a movement), `ApplyToSnapshot` (one upsert, in `compareLegs` order),
`PostReturns`, `Commit`. `Reject` is `validate` throwing, `Rollback` any other
failure. PostgreSQL is external: `LockFree`, `LockRow`, `Duplicate`,
`InsertWaitsFor`. An entry id is drawn at insertion and becomes visible at commit, so ids and
commits may be in different orders, which is what makes `lastEntryId` a matter of
`GREATEST` and not of assignment.

`Movements` is what a caller hands to it: legs of one holder and bucket each, a reason and a source, and what
`validate` accepts. `BalanceLedger`, `Ledger` and `MoneyFlow` share it.

`Ledger` is what a caller may reckon with: one variable, the `lines` posted, and one action, `Post`, which posts all
the movements of a program at once. Its guards are the promise: the movements are valid, none of their keys is posted, and a
reservation is `Covered` by the sum of the lines then, with no snapshot row, lock, id or session. `BalanceLedger` maps to
it by its committed entries without their ids (`Book`): a `Commit` is a `Post`, every other statement and every way to fail a
stutter. `PostsAtOnce` is `Book!Spec` with its stutters told by `entries`, which TLC compares faster than the mapped set.

### Fees and MoneyFlow

`Fees` is functions only: `Calculate` is what `calculate` of both fee services returns, with the sign of the fees
chosen by the kind. A percentage is a number of parts of `Whole`; an amount is exact, in parts of a unit,
until `ToFixed` rounds it, as in the code: each share by itself, and the merchant's from the exact fees.

`MoneyFlow` follows one merchant's money from the fees on file to the ledger. State: the rows (`stored`) and their
copies (`cache`), where the `calculation` for each purchase and payout is (`get`, `query`, `set`, `answered`), the
requests to the dashboard (`editor`), and of each purchase or payout the `status`, the fee rows it was
`charged` by and the movements `posted` and `refused`. `CalculateFee`, `GetAgentShareholder`, `Query` and `Set`
are the lookups, a command each, any of which may be the last before the caller goes on without an answer
(`CalculationFails`). `UpsertProvider`, `DeleteProvider`, `OpenForm` and
`UpsertAgentShareholder` are the dashboard: a write and the deletion of the copy, which Redis may not take, then
`CommitEdit` or `EditFails`. The write and the deletion are one step, as the write is visible to nobody before the commit;
a `SET` that Redis does not take is a copy that expires at once. Deleting a fee leaves its copy, as in
the code. `Capture`, `Settle`, `Reserve` and `PostPayoutOutcome` are the four callers of the ledger: they build
their movement (`BuildPayinMovement`, ...) from the answer of the fee service, or from the rows, and `Post` is the transaction
around it, whose statements are `BalanceLedger`'s. A batch of fees in one form is
as many forms of one fee; the frontend posts the whole set of shareholders it was
shown, as the comment in the code says; the provider confirms the nominal of the row.

### SettlementEngine

State: which purchases are `captured`, `settled` (claimed by a committed batch) and
`posted`; the `cutoff` that `settlementCutoff` would answer now; whether a boundary
is `due`; the `run` rows; and where each `pod` is. Each SQL statement outside an
interactive transaction is an action; a batch is two (claim and lock, commit), so
that it can fail in between and others can run into its locks. The sweeper's two
statements are separate actions. A pod's `Fail` stands for any throw and for its end.

### Settlement, which SettlementEngine implements

`Settlement` says what the engine is for, without pods, runs, claims, retries or crashes: a batch
of purchases that are payable under some terms is marked and paid in one step, and what stays payable
is paid (weak fairness on every purchase). The mapping is the identity on `captured`,
`settled`, `posted` and `cutoff`, and `BatchLimit <- ClaimLimit`
(`Promise == INSTANCE Settlement WITH BatchLimit <- ClaimLimit`); the runs and the pods are hidden.
`CommitBatch` is the step `Settle`; everything else the pods do is a stutter.
The cutoff a pod read before its claim may be behind the present one, never ahead of it, which is why the
batch is payable when it commits.

### SettlementPolicy and Enqueuer

`SettlementPolicy` is functions only: `settlementReleaseAt` (when is this payment released) and
`mostRecentDueAt`, `settlementCutoff` (when is this merchant due, and what is ripe then). A moment is a number of
ticks, a day has `Day` of them, and the last tick of a day is `endOf('day')`.

`Enqueuer` puts them to work: the clock, the `MerchantSettlementPolicy` rows of one merchant (never edited
but retired, and followed by another), the `SettlementRun` rows that are `pending` or `ended`, and payments.
`WriteToSettlementRun` is a tick of the enqueuer (the rows in force, one run per target method and
boundary, `skipDuplicates`), `Settle` the settling of a run, which resolves the terms in force
*then* (`PolicyFor`, `Cutoff`) and claims what is ripe. Neither comes on time. How
a claim fails and is retried is left to `SettlementEngine`.

### Disbursement

State per payout: the row (`status`), the ledger (`RESERVED`, `COMPLETED`, `FAILED`
movements), the webhooks the merchant was `told` by, where its request is, what the provider has made
of it, and the callbacks on their way, each with the retries it has left; and the callback handlers in
progress. A payout is a bank transfer or the payment of a bill: the two rails run the same
steps over other endpoints, so that one payout stands for either. The provider is external and tells the truth when asked
(`checkTransferStatus`), not when it calls. The constants choose what may happen: which
payouts can be confirmed at all (`Confirmable`; a provider without a status call
cannot), which of the rarer events, how many callbacks and failures. `happened`
remembers the events, for the properties only.

`Payout` is what a merchant may reckon with: where the `money` of a payout is (own, reserved, spent, returned), its `fate` at the
provider, and how often the merchant was `told`. `Reserve` needs room in the deposit, `Take` a reservation, `Spend` and
`Return` the provider's decision, `Tell` money that has moved; there is no status, request, callback or retry. The mapping
reads the money off the postings (`MoneyOf`) and the fate off `transfer`. The row's status does not occur in it, on purpose:
it may say PENDING of a payout that is over, or FAILED of one that is still reserved.

### Purchase

The same for payins: the row (`status`, is the `reference` recorded, is `paidAt`),
fee rows, the captured movement (of net amounts, or of the gross amount when there was no fee
answer), webhooks sent to the merchant, the request, the QR code at the provider,
the notifications on their way with the retries left, and the handlers. `Faults` says which
steps may fail, `happened` which have.

`Payin` is the promise: a purchase has a `fate` at the provider, ends once (`outcome`), as the provider decided or given up
by its request while nobody can have paid it (`GiveUp`), is `credited` once and in the step that ends it, and `told` after that.
Here the row's status does occur: `OutcomeOf` is the status once it is terminal.

### TokenCache

State: at the provider, the tokens that are `valid` and the `newest`; in Redis, the `published`
token and the `lock` (which request holds it, or `Gone`: a holder that will not release it); per pod, the
`cachedToken` and the promise in flight (`inFlight`: the request that resolves it for those that
`join`). A request is a process: every Redis command and every call of the provider is an action, from
`GetToken` over `Send`, the comparison and the deletion after a 401 (`Compare`, `Drop`), `AcquireLock`,
`WaitForToken`, `Reread`, `MintToken`, `Write` to `ReleaseLock`. Time is two events, `LockTimesOut` and
`Expire`. The code fails open: `Read`, `AcquireLock` and `Write` go on when Redis does not answer;
`hit` remembers that it happened, for the properties. The four auth services are one program.

### MerchantSignature

State: a clock; the merchant's `row` with its version; the `cache` entry, the `nonce` keys and the request
counter (`hits`) in Redis, each with its lifetime; the requests to the dashboard (`editor`), and the
verifications (`delivery`) of requests the merchant has signed (`message`), one of which may be delivered again.
A rotation is a read and a write (`ReadSecret`, `WriteSecret`), then `Invalidate`. A verification is
the guard's look at the clock (`Deliver`), `Lookup`, on a miss `Query` and `Fill`, then `ConsumeRateLimit`
and `ClaimNonce`, in this order. `GiveUp` is the guard's timeout: `apps/auth` goes on, claims the nonce,
and the merchant is answered 503. A signature is the secret it was made with.

## 3. The runs

| Run | Checks | Shows |
|---|---|---|
| `MCBalanceLedger_transactions` | `BooksBalance`, `PostedOnce`, `NeverOverdrawn`, `NoWaitCycle`, `LastEntryCovers`, `PostsAtOnce` | two concurrent transactions over eleven programs: three payins of two merchants, batches with rows in common, two payouts of 2 with 2 available, their outcomes, an unbalanced transfer, a zero leg; a payin may draw its ids before a batch and take the locks after it; and the whole implements `Ledger`, failures and rollbacks included |
| `MCSettlementEngine_engine` | `BatchesDisjoint`, `NeverReposts`, `AttemptsBounded`, `SettledInTheEnd`, `RunsEnd`, `KeepsPromise` | two pods, a run that is swept and revived under them, two failures, with fairness: nothing is claimed or posted twice, everything claimable is settled, every run ends, and the whole implements `Settlement`, its fairness included |
| `MCDisbursement_callbacks` | `NeverOverspent`, `FailureIsVerifiedBarGateway`, `CompletionIsComing`, `PayoutKeepsPromise`, `CompletedUnlessLost` | two payouts, money for one, one provider that cannot be asked, every event of the model, with fairness: the whole implements `Payout`, and what loses a payout, or the callback it waits for, is what the properties name |
| `MCPurchase_callbacks` | `StatusIsTrue`, `LegsMatchFees`, `OutcomeIsComing`, `PayinKeepsPromise`, `TerminalIsFinal`, `CapturedUnlessLost` | one purchase, two handlers, every fault, with fairness: the whole implements `Payin`, and what loses a payment, or the notification it waits for, is what the properties name |
| `MCTokenCache_cache` | `OneRefresher`, `RetryIsAnotherToken`, `NewestIsShared`, `OnlyItsHolderUnlocks`, `StormNeedsFuel`, `RequestEnds` | two requests, of one pod or of two, two faults, with fairness: one refresh at a time, and no refresh without end but for the causes the property names |
| `MCEnqueuer_policy` | `CutoffAgrees`, `EligibleWhenSettled`, `RunsNameBoundaries`, `NothingLeftBehind` | a merchant on each set of terms, which changes once, over two days, with crons as late as they like |
| `MCMerchantSignature_auth` | `AcceptedOnceInBand`, `StaleIsBounded`, `RetiredSecretEnds` | a request delivered twice, a rotation, edits of the allowlist, a lost call; a clock that is off by the tolerance, and a nonce lifetime of just twice the tolerance, as the defaults have it |
| `MCMoneyFlow_fees` | `NoResidue`, `MoneyAddsUp`, `OnlyNothingIsRefused`, `StaleEnds` | a purchase that pays for a payout, two agents, two users of the dashboard who change, delete and merge fees and shares meanwhile, with fairness: every unit is accounted for, and stale copies end |

`FailureIsVerifiedBarGateway`, `CompletionIsComing`, `CompletedUnlessLost`, `OutcomeIsComing`, `CapturedUnlessLost`, `OneRefresher`,
`NewestIsShared`, `StormNeedsFuel`, `MoneyAddsUp` and `OnlyNothingIsRefused` say exactly which events, or what part of an
amount, defeat the promise a comment makes without exception. `AcceptedOnceInBand`
does the same for the comment on the lifetime of a nonce.

Every safety property of these runs is also proved (section 4), for all values of the constants, and so are the type
invariants (`TypeCorrect`), which no run needs to repeat; what is left to the runs alone is liveness.

Runs that end in a violation, each a disagreement of the code with what a comment or a
document of the repository says of it (quoted in `PROJECT.json`, findings):

| Run | Property | What happens |
|---|---|---|
| `MCDisbursement_released` | `ReservationIsReleased` | a payout its own request marks FAILED keeps its reservation (as does one whose payment succeeds at once) |
| `MCSettlementEngine_override` | `NeverEarly` | a default run settles purchases of an overridden method |
| `MCMoneyFlow_recorded` | `MovedMoneyIsRecorded` | with the default fees the house's share is zero, its leg is refused, and the payment is never captured |
| `MCMerchantSignature_rotation` | `OutgoingIsKept` | two rotations read the same secret, and one handed out in between is in no column |

Other disagreements, without a run of their own.

* A step that a comment relies on is nowhere in the code: the status poll for payouts whose payment was not
  answered (`disbursement.service.ts:172`), the reconciliation of a QR code whose reference was not recorded
  (`purchase-qris.service.ts:249`), the sweep that derives missing fee rows
  (`purchase.webhook.service.ts:221`). The suspension status of a credential is read and never written.
* `disbursement-common.service.ts:479` writes the provider's first answer over whatever a callback has settled
  in the meantime, so that the row is PENDING again, whereas `disbursement.webhook.service.ts:35` speaks of "Statuses a
  transaction can never move out of". The theorem `TerminalFinalUnlessOvertaken` shows that it is the only case but for a gateway's error (below), and the ledger is not affected
  (`PayoutKeepsPromise`).
* `merchant-signature.config.ts:45-53` has a nonce lifetime of twice the tolerance suffice, which the defaults just
  meet (600 and 300 seconds), and `merchant-signature.md:289` finds it to cover the window "with margin". The guard compares the timestamp
  before the call and `apps/auth` claims the nonce last: a request verified at once when its timestamp is first accepted, and
  slowly when it is last accepted, is let through twice. A lifetime of the band and a verification would do, and that one more time
  is all there can be: `AcceptedOnceInBand`. The run has the ratio of the defaults, so that it happens there.
* `upstream.exception.ts:52` takes any HTTP status for an answer, also a gateway's 502 or 504 for a payment that was
  taken, against `disbursement.service.ts:169`; `FailureIsVerifiedBarGateway` shows it is the only way to such
  a FAILED payout. (An accepted answer that fails its schema has the same effect; the model
  has it as the same event.)
* `purchase.webhook.service.ts:423` (and `disbursement.webhook.service.ts:310`) turn a failed read into an unknown
  transaction, which is answered 200, where `motionpay.callback.controller.ts:67-68` asks for a retry after "a transient
  failure on our side". `CapturedUnlessLost` names it as one of the two ways to lose a payment, besides failures
  that outnumber the provider's retries.
* `ledger-foundation-design.md:534-537` and `settlement-batching-design.md:185-187` make the merchant's leg the residual
  of the rounded others; `purchase-fee.service.ts:116-148` rounds every leg by itself. `SplitAddsUp` gives the bound
  that is left.
* `disbursement-common.service.ts:314-316` has the legs of a paid payout net to "exactly the money that left". They do but for
  the roundings, and for shares that do not add up to 100 per cent (`MoneyAddsUp`).
* `config-merchant.service.ts:188`: the shareholders "must account for exactly 100%". Two forms opened on the same set
  merge to another total, and the share a merchant is registered with is 0 (`user.service.ts:115`).
* `settlement.service.ts:246` says that a MERCHANT fee row "holds the fee *charged* to the merchant"; `feeDetails`
  (`purchase.webhook.service.ts:516`) writes the gross. Nobody reads it.
* Deleting a merchant's fee (`config-merchant.service.ts:136-139`) leaves its copy in Redis, and so what is charged, for up to
  six hours.
* `paidAt` is what the notification says (`purchase.webhook.service.ts:189`); one that overtakes the payment it is
  confirmed against leaves it null, and the purchase is never claimed by a settlement.
* `token.redis.ts:213-217` expects the newest token to be published always; a request whose wait runs out
  mints without the lock and may publish over it. `NewestIsShared` names that case.
* `policy.due-at.ts:107-110` has a payment exactly on the cutoff belong "to the batch after it"; the code (lines 140-141 for SCHEDULED,
  which take a millisecond more than the boundary) has it belong to the batch at the cutoff, as `settlementReleaseAt` does, and
  so has the model. `CutoffAgrees` would fail of the comment.
* `balance.constant.ts:33-37` says of the order of the holders "Reorder these freely". Any order serves two single movements,
  but a batch holds its rows until COMMIT: the merchant and the house must come before the agents, or two batches wait for
  each other (`NoWaitCycle`; its mutant puts the agents before the house).
* The invalidation after a commit (`apps/dashboard`, merchant-signature.service.ts:41-46, 71-72) does not make a rotation
  visible at once: a verification that read the row before it may fill the cache after it. `StaleIsBounded`
  is what remains true.
* `settlement-policy-explained.md` has a merchant without a policy follow the upstream (section 9), where the code skips it;
  and `delayDays` 0 be available immediately (section 3), where the code waits for the release time.
* The diagram "A run's whole life" (`docs/batch/settlement-explained.md:365`) lacks the way from PENDING or FAILED to
  DONE that `Finish` of a slow pod takes; it is harmless, as `SettledInTheEnd` shows.

### Bounds, and why they are enough

* *Ledger*: two transactions at a time, since every property relates at most two
  (a circle of waits is sought between two batches and, in turn, a payin; `NeverInACircle` is about any number), and they
  are interchangeable (symmetry; the one property of steps, `PostsAtOnce`, does not tell them apart); amounts are
  small whole numbers such that two payouts exceed one balance; `MaxEntryId` stops new
  inserts after each program could run once, counting ids lost to rollbacks. 410,149 states.
* *Fees*: one purchase of 20 units and one payout of 4, since a calculation meets others only in the copies, which
  the two share; `Whole` 8, so that an eighth of a nominal and a share of 3 or 5 eighths leave halves to round; a fee that leaves the
  merchant nothing and the deletion of a fee; a merchant registered with a share of 0, then one agent with
  all, or two; two users and two edits, which is what it takes to merge two forms. 449,880 states.
* *Settlement*: `ClaimLimit` 1 makes every purchase a batch of its own, so runs have
  several; two purchases to settle, one without fee rows, one without `paidAt`; three attempts, as
  in the code; cutoffs 0 (none yet) to 2. Run rows are reused once they are DONE or
  FAILED and no pod works for them, which keeps an unbounded table finite.
* *Payouts*: payouts of one unit and a deposit of one; two handlers; one callback per payout
  beyond the one that reports the decision; one failure, which the provider's one retry outlasts. 207,292 states.
* *Payins*: one purchase, because purchases have nothing in common but the handlers;
  two handlers, since what a third can do, one of the two can do after it has ended; three
  retries, as the provider has, and three failures.
* *Tokens*: two requests, since the properties relate two; they come to one pod (the shared promise) or to two
  (the lock). Four tokens: what can be remembered at a time with one to spare. Two faults of any kind, because
  each of the hazards takes at most two. 494,755 states.
* *Terms*: a day of four ticks and an INSTANT slot of two; the terms are one of every mode, with delays of 0 and 1, one and two
  release times, and one that cannot be resolved; upstream windows with and without a stated time, in another zone,
  none, and two for one method. The clock runs from the third day, so that yesterday and the day before exist, for
  six ticks, that is over two midnights; one change of terms, one payment reported up to a tick late, at most two runs waiting. 1.7 million states.
* *Authentication*: lifetimes of a few ticks that keep the order of the real ones (latency and cache < tolerance, and a nonce
  just twice the tolerance: 2 and 4 ticks for 300 and 600 seconds); a
  verification takes at most one tick (the guard waits for 5 seconds), and the horizon lets a request be signed, delivered, forgotten and
  delivered again; two deliveries of one message, two secrets, three writes, one fault; a
  merchant's clock that is fast or slow by the whole tolerance, so that a band opens or closes with the signing. 5.5 million
  states, with symmetry on the deliveries (no temporal property is checked there).

Deadlock is checked for the ledger, the settlement engine and the tokens. Payouts, payins
and the money flow really come to an end when every request, callback and edit is done, and the clocks of the
enqueuer's and of the authentication model stop at their horizons.

### Fairness

* *Settlement*: the crons fire and boundaries pass for ever (weak fairness), a pod that is
  alive goes on. Claiming a run is strongly fair: the runner takes the run with the
  oldest `dueAt` first, so that no run is passed over for ever, which the model, where
  `dueAt` is left out, does not show.
* *Payouts and payins*: a request or a handler that has begun goes on unless it fails; the
  provider decides and delivers. A delivery is strongly fair, because handlers are
  taken by other calls in between. Nothing obliges a failure, a crash or an early
  notification to happen.
* *Tokens*: a request that has begun goes on (weak fairness on `Advance`), because every call has a timeout and the
  wait for the lock is bounded by its polls. Nothing is assumed of the lock's TTL or of the provider.
* *Fees*: a calculation goes on or ends (weak fairness on `Advance`), for its caller's timeout at the latest, and
  Redis forgets a copy at the end of its six hours (weak fairness on `Expire`). Nothing obliges the dashboard,
  the provider or the settlement to act.
* *Terms, authentication*: none. Their properties are safety properties, so the crons may stop.

### Abstractions

One merchant per instance of the engine; amounts are whole numbers; one process has one clock that
only goes forward and is not behind the provider's (otherwise an expired QR code may be read as
FAILED first); metadata, log tables and wording are left out;
a payment leg that answers FAILED throws, so it answers PENDING or SUCCESS; the
create response of a QR code is PENDING, and nobody pays a QR code that no merchant was
given. The audit columns and the dashboard's reads do not take part.

## 4. The proofs

`BalanceLedgerProofs` proves, for every set of transactions, rows, sources and programs:

* `TypeCorrect`: `TypeOK` and `WorkOK`. `WorkOK` is what `TypeOK` lacks to be inductive: a
  session that inserts or folds has a movement at hand, and all its work is well formed.
* `LastEntryAlwaysCovers`: the invariant (`CoverInv`) adds that no row is locked twice, and
  that an entry a session has folded is covered by its own version of a row it has
  locked, which is never behind the committed one. `GREATEST` carries the step that folds.
* `NeverPostedTwice`: the invariant (`InsertsValid`, `KeyInv`) adds that the keys a session
  has inserted are apart from the committed keys and from those of other sessions. It rests
  on `validate` having refused two legs of one row, on `Duplicate` and on `InsertWaitsFor`.
* `AvailableNeverNegative`: the invariant (`OverdrawInv`) adds that a session between the
  locked read and its debit holds the row's lock and that the row it sees still covers the debit. Without
  the lock another session could commit a debit in between, and the proof of the step
  `Commit` would fail: it is the argument for `FOR UPDATE`.

* `BooksAlwaysBalance`: the invariant (`BooksInv`) adds that what a session sees of a row it has locked is the sum of
  the committed entries and of its own folded ones, and that all entries are finitely many. The check sums the
  ids up to `lastEntryId`, which by `LastEntryCovers` are all of them.
* `NeverInACircle` (`NoWaitCycle`, for any number of sessions), from `WaitInv`. A session comes to its rows in one of
  three ways: with none yet (`Fresh`), so that nobody waits for it; in the order of the locks (`InOrder`), within its first
  movement; or, in a later movement of a batch (`Later`), holding already the rows of the merchant and of the house, which
  `compareLegs` puts before the agents'. Later movements take agents' rows out of order, and this is safe only because whoever
  holds an agent's row holds the house's row of that bucket (`Gated`). So in a circle all would fold in order, and
  the row each waits for would come before the next one's (`BlockedUpwards`); among finitely many one is last (`LastRow`).
  The hypothesis `ClaimsDisjoint`, that no two batches have claimed the same purchase, is what `SettlementEngine`
  provides (`BatchesAlwaysDisjoint`): two that took the same two in opposite orders would meet at the unique key.

* `LedgerIsImplemented`: `Spec => Book!Spec`, and `PostsAtOnce`. The invariant (`RunInv`) says of every session which program
  it runs and how far it is: its needs are met, the entries it has inserted are the lines of the program's first movements, all
  valid and with no key in common, and its work is the rest, so that at `Commit` they are the whole program
  (`CommitPosts`). That no key was posted is `KeyInv`. That a reservation is covered is where the other invariants
  meet (`CommitCovered`): the session's version of the row is not negative (`OverdrawInv`) and is the sum of the committed entries
  and of its own debit (`BooksInv`), the only one it has of that row, so that the committed entries alone sum to
  no less than the debit. It is the ledger at commit that covers it, not the one `reserve` read.

The assumptions are those of `BalanceLedger`: rows, movements and programs are well
formed, and only `reserve` debits AVAILABLE for a payout; for `NeverInACircle` and `LedgerIsImplemented` also what the callers build (`OrderAssumption`):
agents' legs come beside one of the house, a reservation stays within a merchant, and what posts more than one movement is a
batch of one merchant, each with the same rows of the merchant and of the house. The last holds since a captured purchase
with fee rows had each of these legs above zero, as `validate` would have refused it otherwise, and a batch claims no
other.

A sum over a set is defined by a choice of the next member, and an induction over sets is out of the provers' reach. The proofs
take the smallest counterexample instead (`LeastSubset`, from the well-founded order of the numbers): the sums over the
subsets of a finite set exist and are unique (`SumsExist`, `SumsUnique`), and do not depend on the member chosen
(`SumsRemove`). Then `SumWithOne` is the only fact the ledger needs. `MoneyFlowProofs` does the same for its sums over legs and agents.

`SettlementEngineProofs` proves, for every set of pods, purchases, terms and runs, every
claim limit and every number of attempts and failures:

* `TypeCorrect`: `TypeOK` is inductive here. What a pod's record holds depends on where it
  is, so the proof goes through `PodShapes`.
* `BatchesAlwaysDisjoint`, `SettlementsNeverReposted`, `AlwaysSettledFromPending`, from one
  invariant, `ClaimsOK`: entries and claim column are written together (`posted = settled`),
  and what an open batch holds is captured, has a fee row, is not settled and is
  in no other open batch. `ClaimBatch` keeps it by SKIP LOCKED and by
  `batchSettlementId IS NULL`; `CommitBatch` keeps it because the batches are disjoint. The state of
  the run rows does not occur in `ClaimsOK`: that is the exact sense in which the claim column,
  and not the run claim, makes the settlement correct.
* `AttemptsAlwaysBounded`, from `AttemptsOK`: a PENDING run has an attempt left, since only
  `Revive` puts a run back. The claim itself does not look at the attempts, and
  `Finish` of a slow pod writes no PENDING.
* `EngineImplementsSettlement`: every behaviour of `SettlementEngine` is one of `Settlement!Spec`. The steps are those of
  the mapping above; `CommitBatch` needs `ClaimsOK` and `CutoffsOK` (what a pod holds is payable under the
  present cutoff, and no larger than the limit). The fairness of `Settlement` is left to TLC (`KeepsPromise`).
* `NeverBeforeEveryCutoff`, from `CutoffsOK`: a pod's cutoff is never ahead of the present one
  and its batch is paid before it, so that what is settled was paid before the cutoff of
  some terms that cover it. `NeverEarlyWithoutOverride` draws from it that `NeverEarly`
  holds under `NoOverride`: no purchase is covered by two terms. `MCSettlementEngine_override`
  shows that the hypothesis is needed.

The assumptions are `TermsAssumption` and `LimitAssumption`. `ClaimsOK`, `AttemptsOK` and
`CutoffsOK` were model-checked, with and without an override, before they were proved.

`TokenCacheProofs` proves, for every set of requests, pods and tokens and every number of faults:

* `TypeCorrect`: `TypeOK`. It needs that an issued token is chosen among tokens there are, and (`HandsOK`) what a
  request at each stage has at hand.
* `AlwaysOneRefresher`, from `LockOK`: as long as no lock command has failed, a request between `AcquireLock` and
  `ReleaseLock` is the holder of the lock, and there is one lock. `WaitForToken` without the lock, `LockTimesOut` under a
  holder and `AcquireLock` without Redis put "lock" into `hit`, and these are all the ways.
* `LocksReleasedByHolders` from the comparison in `Unlocked`.
* `RetriesAnotherToken`, from `FreshOK` and `RetryOK`: from the deletion on, neither Redis nor the memory of
  a pod hands the refused token to the request that was refused.
* `AlwaysShared`, from `SharedOK`: while nothing but deletions fails, what is minted under the lock is
  the newest token until it is published, and nobody asks for another while it is: the safety half of `StormNeedsFuel`.
* `NobodyJoinsInVain`, from `JoinsOK`: the promise a request has joined is being resolved by another of its pod, which itself has
  joined nobody. The step that ends a request, in whatever way, resolves or rejects it for all that joined. It is
  the safety half of `RequestEnds`: no request waits for one that is gone, or in a circle.

`PurchaseProofs` proves, for every set of purchases and handlers, every choice of faults and every
number of failures and retries:

* `TypeCorrect`, `StatusAlwaysTrue`, `LegsAlwaysMatchFees` and `AlwaysToldOnce` (`ToldOnce`, stated there), from one invariant, `Inv`: per purchase,
  what its request, its row and the ledger say of each other (`RequestOK`, `RowOK`, `LedgerOK`); per handler
  (`HandlerOK`), that the answer it was given is still what the provider would say, and that the handler about
  to tell the merchant is the only one and has not done so. The step `Settle` rests on the unique key of the
  movement's entries (`Duplicate`), which undoes every settling transaction but the first: the status was read before it
  began, and is not looked at again.
* `TerminalAlwaysFinal`: the early answer to the request does not disturb a terminal status, as only a PENDING
  purchase is still without its reference.
* `PromiseAlwaysKept`: `Spec => Promise!Spec`, that is `PayinKeepsPromise`. `Inv` is enough. `Settle` is a `Credit` or a `Refuse`, or a
  stutter when a callback with the same verdict was first; `MarkFailed` is a `GiveUp`, since a QR code nobody was given is not paid.
* `OutcomeAlwaysComing` (`OutcomeIsComing`), the safety half of `CapturedUnlessLost`: the row of a payment that was made or refused is
  terminal, or has its reference and a notification is on its way to it, or in a handler, with at least as many retries left
  as failures are still to come. A failure takes one from each side of that inequality, so it stands.

`DisbursementProofs` proves, for every set of payouts and handlers and every number of callbacks and failures:

* `TypeCorrect`, `OutcomeAlwaysTrue` (`OutcomeIsTrue`, stated there) and `FailureAlwaysVerified`, from `PayoutsOK`: a payout whose request is before the
  payment is unknown to the provider; what marks it FAILED has failed for certain or was hidden by a
  gateway; what a handler has heard is still so; who settled is alone in telling.
* `AlwaysCovered` (`NeverOverspent`), from `FundsOK`: what is reserved and was not given back was there. A payout is given back
  only after the provider has rejected it, so that what the provider took is reserved still.
* `PromiseAlwaysKept`: `Spec => Promise!Spec`, that is `PayoutKeepsPromise`, from `PayoutsOK` and `FundsOK`. That `reserve` finds enough
  is the guard of `Reserve` (`RoomForOne`): what is held is what was reserved and not returned.
* `CompletionAlwaysComing` (`CompletionIsComing`), the safety half of `CompletedUnlessLost`, from `StatusOK` (a row says SUCCESS because a
  callback settled it or the payment was answered so) and `ComingOK`, the inequality of retries and failures of the payins.
* `TerminalFinalUnlessOvertaken` (`TerminalUnlessOvertaken`, stated there), from `OvertakenOK`: a row says SUCCESS only of what is paid, as FAILED
  only of what has failed, so that a second verdict is the same as the first; and it is terminal while the request is at
  `RecordUpstreamResult` only if a callback has settled the payout.
* `SuccessConsumesReservation`: what is left of `ReservationIsReleased`, which the code violates. A payout that says SUCCESS has consumed
  its reservation unless its payment was answered SUCCESS at once.

`Inv` and `PayoutsOK` were model-checked, with every fault, before they were proved.

`MoneyFlowProofs` proves, for every set of purchases, payouts and agents, all fees, nominals and numbers of edits:

* `SplitAddsUp`: the rounded shares and the nominal differ by at most two units, for both kinds. It rests on
  `ToFixed` being within half a unit of what it rounds.
* `TypeCorrect`: `TypeOK`. What matters in it is that copies, answers and fee rows are always something the file may hold and `Calculate` may
  return, whatever is edited when.
* `NeverAnyResidue` (`NoResidue`), from `CallsOK` and `BookedOK`: fees are worked out only for what has not been charged yet, and
  a captured purchase or a reserved payout has its movement in the ledger, built from the very fees its rows hold. Then it is
  a matter of the two builders (`SettlementMirrorsPayin`, `OutcomeMirrorsReservation`): `Transfer` leaves
  out only what `validate` would not have let into PENDING.
* `SplitIsExplained`: for all fees and nominals, the legs of a split differ from the nominal by at most half a unit for each amount
  rounded, and by the part of the agents' fee that the shares do not add up to. `MoneyAlwaysAddsUp` (`MoneyAddsUp`) takes it to the
  ledger, from `FeesCalculated` (the fee rows of what has moved are a split that `Calculate` returned for that nominal, though the
  fees may be others by now) and `BuiltAsCharged` (the movement posted is the one built from them).
* `RefusedOnlyForNothing` (`OnlyNothingIsRefused`), from `ReservedPays` (what was reserved was above zero): settlements, reservations
  and releases are never refused, captures and payments of payouts only for a leg of nothing. Two legs of one row, or a transfer
  that does not net to zero, never reach `validate`.

The assumption is `FeeAssumption`: shares are parts of a positive whole, agents have numbers, and a merchant has finitely many.
The invariants were model-checked before they were proved.

`EnqueuerProofs` proves, for every set of methods, payments, policies and windows, every length of the day and of a slot, and any
lateness of the crons:

* `ReadingsNeverDiffer` (`CutoffAgrees`): `settlementCutoff` compares a payment with the start of a period that it shifts by whole days;
  `settlementReleaseAt` goes forward from the payment. `ReadingsAgree` shows for each mode that the one comparison is equivalent
  to the other, zone and stated time of an upstream included.
* `TypeCorrect`: `TypeOK`, which needs that every moment derived is a moment: the boundary before now exists.
* `OnlyReleasedIsSettled` (`EligibleWhenSettled`), from `SettledOK`: the terms a settlement went by stay on record, for a row is retired and
  never edited, and retired only from the next moment on.
* `RunsAreOfBoundaries` (`RunsNameBoundaries`), from `RunsOK`: the same for the terms a run was written under.
* `NothingIsPassedOver` (`NothingLeftBehind`), from `EndedDone`: what a run promised under terms that still govern is settled
  when it has ended. It needs that the rows of one method are in force one after the other (`RowsApart`) and that a method once
  registered stays so (`KeysCovered`), as otherwise a run could resolve other terms than those that asked for it.

The assumptions are `ClockAssumption` (slots divide the day) and `WorldAssumption` (windows and policies are well formed).

`MerchantSignatureProofs` proves, for every set of messages, deliveries and dashboard requests, all lifetimes and every number of faults:

* `TypeCorrect`: `TypeOK`; each stage of a verification carries what the next one reads (`Carries`).
* `LetThroughOnceInBand` (`AcceptedOnceInBand`), from `DeliveriesTimely` and `NonceRemembers`: a verification began within the
  tolerance of the stamp and has lasted `MaxLatency` at most, and the nonce of a request that was let through is remembered for
  `NonceTTL` from the opening of its band, and for another with each time it was let through again. The assumption on the
  lifetimes (`TimingAssumption`) is what the configuration enforces and no more, so the defaults are within it. Under a lifetime
  that exceeds the band by a verification the theorem says that a request is let through once; under the
  defaults what is left is the one verification that ends after the band.
* `StalenessBounded` (`StaleIsBounded`), from `CopiesFresh`: what a verification has read, and what is in Redis, was current no longer ago
  than the lifetime of an entry and the latency. Deleting the entry does not occur in it, hence neither does its failure.
* `RetirementTakesHold` (`RetiredSecretEnds`) and `SerialRotationsKeepThePrior` (`OutgoingIsKept`), from `SecretsOK`: a row, or a copy of
  it, tells when its previous secret was retired. Both under the hypothesis `RotationsSerial`, that no two rotations are between
  their read and their write at a time. The code does not ensure it, and `MCMerchantSignature_rotation` shows what happens
  otherwise: two rotations keep the same previous secret and the one in between is lost.

Only model-checked: all liveness (`SettledInTheEnd`, `RunsEnd`, the fairness in `KeepsPromise`, `RequestEnds`, `StormNeedsFuel`,
`CompletedUnlessLost`, `CapturedUnlessLost`, `StaleEnds`), which rests on fairness and so on ENABLED, out of the provers' reach; and
the four properties that the code violates. Of the liveness of payouts, payins and tokens the safety half is proved: that what is
awaited is still coming (`CompletionIsComing`, `OutcomeIsComing`, `NobodyJoinsInVain`, `NewestIsShared`).

## 5. Not modelled

* *Real time* where no property depends on it: the timeout of an interactive transaction is a `Fail`; the calendar
  is days of a few ticks; business days are not resolved by the code either (`businessDaysOnly` throws).
* *The base fee*: it is looked up and cached like the others, and changed by developers only; a constant.
* *Users, sessions, routing, the dashboard's reads and single-row writes, configuration, logging*: no
  state that concurrent steps share. Formats (headers, canonical strings, the HMAC, address
  ranges, wire schemas) are abstracted to what they decide.
* *Generated code*: about 127,000 of the repository's 160,000 source lines are Prisma clients, generated per application; they
  are the database's types, not a behaviour. Of the rest, about 22,000 lines are written by hand and are not tests.

## 6. What would come next

The plan is carried out: the parts of section 1 that move money or guard it are modelled, and each safety property that a run
checks, and the code keeps, has its theorem. The settlement's liveness has no safety half worth a theorem: every boundary writes a new run, so
that nothing is ever made impossible, and all of it is in the fairness of the crons. A status poll, a reconciliation or a sweep
for missing fee rows (section 3) would each be an action of `Disbursement` or `Purchase` once it is written, and should strengthen
`CompletedUnlessLost` and `CapturedUnlessLost` to "always".
