# Formal models of tyr-fintech

TLA+ models of the tyr-fintech backend (`src/backend`), the TLC configurations that
check them on small instances, and TLAPS proofs about each of its parts. The backend
is one Go process: a goroutine per HTTP request, two background goroutines, PostgreSQL
for all money, RabbitMQ for merchant events, Redis for rates and limits. Nothing in
the process is locked in Go except the notification hub; the correctness of money
rests on row locks, `CHECK` constraints, primary keys and the order of SQL statements.
This is what the models are about.

## 1. The system

| component | state | operations | talks to |
|---|---|---|---|
| wallet transfers (`transaction_service.go`, `transaction_repository.go`) | `idempotency_keys`, `transactions`, wallet rows | `Transfer` | wallets, exchange rates, `WebHookQueue`, hub |
| wallets (`wallet_repository.go`, `wallet_service.go`) | `wallets`, `wallet_number_seq` | `Create`, `Delete`, look-ups | |
| exchange rates (`exchange_service.go`) | constant table | `GetRate` | |
| transfer webhook worker (`webhook_worker.go` 54-58, 181-197) | `WebHookQueue` in memory | take an event, POST it | a merchant's URL |
| hosted checkout (`checkout_service.go`, `checkout_repository.go`) | `checkout_sessions`, wallets, `PLATFORM_FEE_REVENUE`, `transactions` | `CreateSession`, `PaySession` | merchant webhooks |
| card charges (`charge_service.go`, `charge_repository.go`) | `charges`, `charge_idempotency`, `ledger_entries`, `system_accounts`, wallets | `ProcessCharge` | card validator |
| merchant webhooks (`webhook_worker.go`, `rabbitmq.go`, `main.go`) | channel in memory, durable queue, dead letter queue | enqueue, drain, consume, retry, dead-letter | RabbitMQ, the merchant |
| virtual cards (`card_repository.go`, `card_service.go`) | `cards`, wallets, `transactions` | create, freeze, close, `ProcessPayment` | hub |
| card validator (`card_validator.go`) | none | Luhn, expiry, test cards, numbers of virtual cards | |
| notification hub (`hub.go`, `dispatcher.go`, `notification_handler.go`) | map of channels under a mutex, `emailQueue` | `Register`, `Unregister`, `SendToUser`, `NotifyUser` | event streams |
| event consumer (`event_consumer.go`, `rabbitmq.go`) | `notifications_queue` in RabbitMQ | forward an event | hub |
| rate limiter (`redis_rate_limiter.go`) | a Redis counter per address | `Limit` | Redis |
| users (`user_service.go`, `user_repository.go`) | `users` | `Register`, `Login` | rate limiter |
| start-up and seeds (`main.go`, `postgres.go`, `seed.go`) | every table | `Connect`, `ensure...` | all of the above |
| rate cache (`cached_exchange_service.go`) | Redis keys | `GetRate` | exchange rates |
| merchant authentication | `merchants`, `merchant_api_keys` | one look-up | |
| configuration, metrics, export, encryption, frontend | | formatting, UI | |

### What is hard, and what makes each part correct

*Transfers.* `Transfer` reads both wallets and converts the amount before it begins its
database transaction, and locks the rows afterwards: what it read may have changed.
Two requests may carry one transaction ID, at the same time or after a lost answer.
Two transfers in opposite directions, or a ring of them, and a deletion, take locks on
the same rows. A statement may fail anywhere, the server may stop anywhere, and
`COMMIT` may succeed although its acknowledgement is lost. Correct means: balances
are the opening balances plus recorded transfers; a key exists exactly when its
transfer does; the client is told the truth about its ID; deleted wallets hold no
money; no circle of waiting requests; one webhook event per transfer at most; all of
it one atomic step to an observer.

*Webhook worker.* The send on `WebHookQueue` blocks the request, and the goroutine
that empties it posts without a timeout.

*Checkout.* Several requests may pay one session; the deadline may pass at any point;
the payer's wallet is locked first and the merchant's second, in no fixed order, so
payments can wait in a circle that only PostgreSQL's detector ends. Correct means: a
session is paid by one transaction, of its amount, to its merchant; wallets and fee
account hold what the paid sessions moved; success is reported only for that
transaction; a paid session stays so; every payment is answered.

*Charges.* The idempotency record is read before and written after the settlement,
outside of its transaction, and errors of both are ignored. Correct means: the ledger
balances per charge and agrees with the accounts; success means settled; a key that
is sent again after its answer is not billed again. The fee is computed in `int64`, of
any positive amount, so its product may wrap.

*Charges and checkout together* update the same fee account and settlement wallets,
in different orders, from different transactions. Correct means that no money is
created or lost between them, and that nobody waits for ever. *Card payments* spend from
the same wallets and lock the user before the wallet, where a checkout payment locks the
wallet first: correct means that neither spends what the other has taken, and that
all circles end, also those in which a charge, a checkout payment and a card payment wait
for one another.

*Merchant webhooks.* An event is offered to a channel and to RabbitMQ, and the two
goroutines behind them decide who posts it. Retries are republished by the consumer
before it acknowledges, so a stop in between duplicates an event, and a failing
republish loses one. Correct means: an event that reached the queue is accepted or
dead-lettered in the end, after four attempts, and no accepted event is sent again
while nothing has stopped.

*Cards.* The cards of a wallet are counted and a new one is inserted without a lock in
between; the status of a card may change, and another payment of the same card or of
the same wallet may run, while a payment is under way. Correct means: what a card
spent is what was recorded and never above its limit; a wallet loses exactly that; a
frozen card does not pay; every payment is answered; and a wallet has one open card.

*The hub* closes the channel of an earlier stream of the same user, and the end of a
stream unregisters its user, whichever stream the channel is of by then. Correct means:
the hub holds exactly the open channels, each of a stream that is served; a stream is
cut off only by another one of its user that overlapped it; what the hub took is read
by the stream unless its client leaves or the server stops; a stream that is cut off
ends.

*The event consumer* acknowledges after it forwards; the queue may never have been
bound, and the connection is not reopened. Correct means: an event that reached the
queue is in it, in hand, or forwarded.

*The limiter* increments a counter and sets its expiry in two calls, and lets requests
pass when Redis fails. Correct means: no more requests than the limit pass on one
counter, and a counter goes away unless the second call was lost.

*Users.* The email is looked up and inserted in two statements, and an error of the
first counts as "not found". Correct means: an email is created once, and whoever was
told of an account can log in to it.

*Start-up* repairs and seeds the database row by row without a transaction, ignores or
logs most errors, and may stop anywhere; between two starts users delete what was
seeded. Correct means: when a demonstration serves without having logged a failure, all
its rows are there, each once.

These, and every other hazard, are listed in `PROJECT.json`, each at its line, with
the properties that cover it.

## 2. The modules

```
FixedWidth                              int64, below ExchangeRate and GatewayAccounts
ExchangeRate <- AtomicTransfer          the abstract specification of the wallets
ExchangeRate <- WalletTransfer          the service; Atomic == INSTANCE AtomicTransfer
GatewayAccounts <- Checkout             rows shared by checkout and charges
GatewayAccounts, CardNumbers <- Charge <- OrderlyCharge
CardNumbers <- CardIssue                the numbers of virtual cards
Cards                                   virtual cards
GatewayAccounts <- Gateway              Checkout, Charge and Cards in one server,
                                        C, H and D == INSTANCE ...
MerchantWebhook                         channel, RabbitMQ, consumer, merchant
RateLimiter <- Users <- Startup         limiter, registration and login, seeding
Startup, Notifications <- Server        the process around the payments
Sums                                    lemmas about sums over finite sets
X, Sums <- XProofs                      its theorems: WalletTransfer, Checkout,
                                        Cards, MerchantWebhook, Server
OrderlyCharge, CardIssue <- ChargeProofs
Gateway <- GatewayProofs                with CheckoutProofs, ChargeProofs and
                                        CardsProofs by INSTANCE
MC<module>                              constants, symmetry and constraints for TLC
```

How a database transaction is modelled is the same everywhere. PostgreSQL runs READ
COMMITTED; `SELECT ... FOR UPDATE` and `UPDATE` hold their row until the transaction
ends, and others see its writes after the commit only. A transaction is therefore a
sequence of steps (`pc`, `stage`), one for each statement that can wait, fail a check
or take a lock; its own writes are applied to the tables by its commit step, with
`Release` of all it holds; `Rollback` releases without writing. This is exact because
each transaction reads a row it writes only under the lock of that row. `Abort`
lets any read or statement return an error; `CommitUnacknowledged` commits and answers
with an error; `Crash` ends all requests, empties what lives in memory, and rolls back
every open transaction.

**`FixedWidth`.** Go's `int64`, with `MaxInt` for its largest value: `Wrapped` is what
an operation leaves of a result, `Quotient` the division that drops the fraction.
PostgreSQL's `BIGINT` has the same range and fails the statement that leaves it.

**`ExchangeRate`.** The rate table in thousandths (all rates have at most three
decimals) and what `int64(math.Round(float64(amount) * rate))` may give. The amount, the
rate and the product are each rounded to a `float64`, whose significands are
`Significand` many, and the bits of these roundings are not modelled: `Products` is the
set of integers the rounded product can be, which is one integer for small amounts unless
the exact product is near a half; `Conversions` is what `int64` makes of them. A transfer takes
any one of them, so what is checked and proved holds of the one the code computes. Wallets of
one currency go through the same product, as in the code.

**`AtomicTransfer`.** What users are entitled to think the wallets do: `Open` an empty
wallet, `Close` an empty one, `Move` an amount under an ID once, in one step.
`WalletTransfer` implements it under the mapping `open <- OpenNumbers`, the wallets
whose row is there and not deleted; the other variables have the same names.

**`WalletTransfer`.** `Submit`, `ReadSender`, `ReadReceiver` are the handler and the
service up to the repository; `InsertKey` is `INSERT ... ON CONFLICT DO NOTHING`,
which waits for an uncommitted row with the same key; `LockFirst` and `LockSecond`
take the rows in the order of the wallet numbers; `Debit`, `Credit` and
`InsertTransaction` pass their `WHERE`, `CHECK` and `PRIMARY KEY`, or roll back;
`Commit`; `PushWebhook` is the blocking send. `SubmitDelete`, `DeleteLock`,
`DeleteCheck`, `DeleteCommit` are `WalletRepository.Delete`; `CreateWallet` draws the
next number. `TakeWebhook` and `PostReturns` are the webhook goroutine. The
notification that follows a transfer never blocks and changes nothing modelled.

**`GatewayAccounts`.** Wallets with their `deleted_at`, the two system accounts, the
ledger, their row locks, the fee split in basis points, deletion of a wallet (one row,
hence one step here) and what a restart does to the database. `FeeAmount` and `NetAmount`
are computed in `int64`: the product of amount and rate may wrap, and the fee then is
too small or negative. `seeded` is the set of system accounts that exist: a production
server seeds nothing (`main.go:85`), and a failed seeding is logged only (`seed.go:205`), so
that `Seedings` are the sets a run starts from.

**`Checkout`.** `CreateSession`; `PassDeadline` is the clock passing `expires_at`;
`SubmitPay`, `LockSession`, `LockWallet` with the four checks and the debit,
`CreditMerchant`, `CreditFee` (skipped when there is no fee above nothing, and without
effect when there is no fee account: the code does not look at the number of rows),
`Commit`, `Enqueue`. A credit that leaves `0 .. MaxInt` fails.
`DetectDeadlock` is PostgreSQL's detector (external): it ends one transaction of a
circle of waiting ones. The code marks an expired session `EXPIRED` in the
transaction whose error return rolls it back, so no session ever has that status.

**`CardNumbers`.** `ValidLuhn`, `LuhnCheckDigit` and `CardNumber` (the numbers given to
virtual cards) on sequences of digits, and `Accepted`, the verdict of
`ValidateAndSimulateCard` with its test endings, which come before the expiry and the
check digit. `CardIssue` gives a number to a card and states what a check digit is for:
any single wrong digit is found, and every swap of neighbours but that of 0 and 9.

**`Charge`.** `Lookup` and `LookupFails` (the error counts as a miss), `Validate`
(`Accepted` of `CardNumbers`, the panic on a number of fewer than four characters, and
the error when a system account is missing), `CreditWallet`, `DebitClearing`,
`CreditRevenue`, `CommitSettlement`, `Save` and `SaveFails`, `Reply`. Entries with an
amount of zero fail their `CHECK` and roll the settlement back, and so does an `UPDATE` whose
balance leaves `BIGINT`. `OrderlyCharge` adds the
history variable `disorder`, the keys that were sent again before their answer, whose
record was missed, or that were in flight when the server stopped; it takes the same
steps, and says of the other keys what an idempotency key is for. `MCCharge` explores
charges, or in their place a number of a card.

**`Gateway`.** `Checkout` and `Charge` by `INSTANCE` over the same rows, and `Cards` over
the same wallets, each with request variables of its own. A wallet's row is one row
although `rowLock` (checkout and charges) and `cardLock` (cards) are two tables: the
steps of each part wait for the holders in the other (`CardHolders`, `CreditHolders`,
`WalletHolders`, `WalletFree`), and `WalletsShared` says that no wallet is ever locked in
both. A card payment also locks its user's row, and the `UPDATE` that marks a session paid refers to
that row with its `payer_user_id`: the foreign key waits. So a checkout payment that
holds a wallet and a card payment that holds its user can wait for one another, besides
payments over two wallets. There is also a circle of all three kinds: a charge holds its
settlement wallet and waits for the fee account; a checkout payment holds the fee account
and waits for the row of its payer; a card payment of that user holds the row and waits for
the settlement wallet. `Blocks` says who waits for whom over all kinds, `Deadlocked` finds
circles of any of them, and the detector ends one request of a circle, be it a charge, a
payment or a card payment.

**`MerchantWebhook`.** `Offer`, `Publish`, `PublishFails` are `EnqueueMerchantWebhook`;
`Drain` is the channel goroutine, which posts only if there is no RabbitMQ client and
otherwise drops the event; `Receive`, `Deliver`, `Republish`, `Ack`, `Nack` are the
consumer. A start of the server can come up without a client, with a client and no
consumer, and with or without the queue of an earlier run (`Started`). `Disconnect`
loses the connection for good: nothing in the code reopens it. `missed` is history: the
events that did not reach the queue, in each of the ways the code has.

**`Cards`.** `CountCards` and `InsertCard` are the two statements of `Create`; the
insert waits for `FOR UPDATE` locks on the rows its foreign keys name. `UpdateStatus`
is freezing, activating and closing, one `UPDATE` that asks nothing of the status it
replaces, so it also reopens closed cards. `LockCard` and `LockUser` are the one
`SELECT ... JOIN ... FOR UPDATE` of a payment, `LockWallet` the other; `Commit` debits
the wallet, raises `spent_amount` and writes the transaction. `seen` and `reopened` are
history variables that no action reads.

**`Notifications`.** `Register`, `Unregister` and `SendToUser` are the critical sections of
the hub's mutex, one step each. `Receive`, `Leave` and `EndStream` are the loop of the
event stream and its deferred `Unregister`, which names the user and not the channel.
`NotifyUser` writes to the hub and offers an email without waiting; `Consume`,
`Forward`, `AckEvent` are the consumer, and `LoseLink` and `StopNotifications` what
ends it. Nothing in the repository publishes to `notifications_queue`, so
`PublishEvent` is external.

**`RateLimiter`.** `Incr` and `Expire` are the two calls to Redis; `IncrFails` and
`ExpireFails` their errors, with and without effect; `WindowEnds` is Redis removing the
counter (external).

**`Users`.** `CheckEmail`, `InsertUser` and `Login` behind the limiter, each with its
failure. Hashing a password and comparing hashes is equality.

**`Startup`.** `RowsToEnsure` is what a start ensures, in its order; `PlanOf(row)` says what
the look-up finds, whether the `INSERT` passes the constraints, and where the code goes
on when it fails. `EnsureRow` is a look-up and an `INSERT` that work, `EnsureRowFails`
one that returns an error, with and without effect. `Boot` is `Connect` with the deletion
of old cards, `Edit` what users do to seeded rows between two starts.

**`Server`.** The process as `main` sets it up: `StartServer`, `Seed`, `Listen`, then
requests and streams, `LoseRabbitMQ` and `Crash`. The database, the counters of Redis
and the queue outlive it.

`PROJECT.json` maps every definition to the lines it stands for. Definitions under a
comment "Mutation: ..." are plausible bugs in the code, defined beside what they
replace and used by no specification: substituting one makes a property fail, which
shows that the property can tell the code from the bug.

## 3. The runs

| run | question | bounds | distinct states |
|---|---|---|---|
| `WalletTransfer` | are money, keys, records, answers and events right in every order, and is it all atomic? | 2 transfers, 1 deletion, 1 wallet opened, 2 keys, 7 bodies, 1 restart, queue of 1 | 172,043 (symmetry) |
| `TransferAnswers` | can requests wait in a circle, and is every one answered? | 2 transfers out of a ring of 3 wallets, 1 deletion, 3 keys, 1 restart, no webhook URL | 37,429 |
| `WalletDuplicates` | may a user hold two wallets in one currency? (finding) | as `WalletTransfer` | |
| `Checkout` | is a session paid once and for good, and are accounts what sessions say? | 2 payments, 2 sessions, 2 merchants' owners who pay, 2 currencies, with and without a fee account, 1 restart | 92,980 (symmetry) |
| `Charge` | does the ledger balance, and where does it not, does it agree with accounts, does success mean settled, does a key sent in order work, and do check digits? | 2 charges, 7 inputs, 4 cards, 100 numbers of cards, with and without a fee account, 1 restart | 40,016 (symmetry) |
| `ChargeRebilled` | is a key billed once however it is sent? (finding) | as `Charge`, no restart | |
| `Gateway` | do charges, payments and card payments together conserve money and spend it once, and is everyone answered? | 2 payments with 1 charge, 2 payments with 1 card and 1 payment by it, or one of each; 2 sessions, 3 wallets, deletions, 1 restart | 35,205 |
| `GatewayLedger` | does the ledger account for the fees? (finding) | as `Gateway`, no restart | |
| `MerchantWebhook` | is every event accounted for, retried exactly, and settled in the end? | 2 events, channel of 1, 1 restart, 1 disconnection | 61,321 |
| `WebhookDeadLetters` | is every failure dead-lettered? (finding) | as `MerchantWebhook`, no restart | |
| `Cards` | do limits, balances and records agree, is everyone answered, and how can a wallet get a second card? | 2 cards, 2 payments, 2 wallets, 3 bodies, 1 restart | 256,688 |
| `Server` | are streams reached, events kept, rows seeded once, limits and accounts kept, and does what is cut off or counted end? | 3 requests, limit 2, 3 streams of a user, 1 notice, 2 events, channel of 1, 2 edits, 2 faults | 192,010 |

*Why the bounds are enough to be of interest.* Requests of one kind meet in pairs: on
a key, on a row, on a session, or on a record; a third adds a longer circle, which
the proof of `NoWaitCycle` excludes for any number. In `WalletTransfer` the bodies make
two requests share a key and drain one wallet, convert with rounding (24 kurus buy a cent, or
nothing where the product is at its most inexact), take the lock order backwards, and violate each check of the
handler and of the schema; deletions name a wallet that is about to be credited, one
with money and one of somebody else. `TransferAnswers` keeps four bodies round a ring,
so that all pairs of waiting directions occur, and a deletion of the third wallet. The
merchants of `Checkout` and `Gateway` are also payers with their settlement wallets, so
that payments do wait in circles; one merchant's fee is zero, so both paths past the
fee account are taken. The merchants of `Charge` take 5% and 100%: the amounts 40 and
10 give a fee and a fee rounded to nothing, the second merchant a net leg of zero, and
2000 a product that wraps to a negative fee under the `MaxInt` of that run. `MerchantWebhook` allows all four attempts of both events, and eight counted
posts, more than one restart and one disconnection can cause to be confused with four.
In `Cards` one payment takes a limit exactly, two of the other kind do
so together, and a payment from each card exceeds the wallet when both have it.
In `Charge` one card is of the service's own numbers, one an expired test card that is
accepted all the same, one has a wrong digit. In `Server` two registrations name the email
that the seeding registers too, and a login its password; three streams
of one user replace and end one another in every order; the limit of 2 is passed by the
third request.
`MaxInt` and `Significand` are small, so that what happens in the code at 2^63 and 2^53
happens in the runs: a product of 40 by 500 wraps in `Checkout` (`MaxInt` = 16,383) to a
fee that is too small, and one of 2000 in `Charge` (524,287) to a negative one; in
`WalletTransfer` (46 and 504) a conversion is out of range, and a credit leaves `BIGINT`; in
`Gateway` and `TransferAnswers` the amounts stay clear of both, as their properties are about
waiting and sharing. What is proved holds of any `MaxInt` and `Significand`, those of the
code too. `MaxWallet`, `MaxCrashes`, `MaxDisconnects`, `MaxPosts`, `MaxEdits` and `MaxFaults` bound
what would otherwise count without end. Deadlock is checked in every run: the only states without another
step are those of `Quiet`, in which everything has been answered.

*Parts explored separately.* `Gateway` and `Server` have a constraint `OnePart` (in
`MCGateway` and `MCServer`), because their parts meet in few places and the product of
all of them is too large. In `Gateway` two payments meet the charge in one part, with
deletions and a restart, two payments meet the virtual card in another, and in the third
one payment of one session meets the charge and the card, with a wallet of the payer's that
is not a settlement wallet: there the circle of all three kinds comes about, and a
detector that does not see charges (`DeadlockedWithoutCharges`) leaves it for good.
`Checkout` and `Cards` explore what is left out, deadlines, sessions of any merchant, freezing,
restarts of card payments.
In `Server` the requests, the streams with the consumer, and the seeding each run against
the start and stop of the process and its faults. In both, no step that fairness is
stated for leaves a part, so that a behaviour that stays in a part for good is a fair
behaviour of the whole specification and a counterexample to a liveness property is
real; what is not explored are behaviours that mix the parts. What is proved
(section 4) holds of all of them.

*Fairness.* Weak fairness of each request's next step, of the webhook goroutine, of
the channel goroutine, of both consumers, of the stream handlers, and of time
passing in Redis: the Go scheduler runs a goroutine that can
run, PostgreSQL grants a lock that is free and stays so, and its detector is part of a
payment's step. No fairness is assumed of clients, of failures, of restarts, or of
`http.Post` in `sendWebhook`, which has no timeout: `RequestsAnswered` of
`WalletTransfer` is therefore checked for a server without a default webhook URL, and
says nothing of one with it. The posts of the consumer do have a timeout. Weak fairness
suffices: every request takes a lock once, so a lock somebody waits for is taken from
under them finitely often.

Several liveness properties have the form `UnderWay ~> ~UnderWay` (`RequestsAnswered` of
`Gateway` and `Cards`, `EndsInTime` of `Server`): requests, streams and events are finitely
many and none is sent twice, so each of them ends if and only if the server comes to
rest again and again.

In `Cards`, `TwoCardsOnlyByOverlapOrReopening` is as much as can be promised: the form
says "Virtual cards are limited to 1 card per wallet currency"
(`CreateCardModal.jsx:148`), but two creations that overlap both succeed, and a closed
card can be activated after its successor was created. The property says that there
is no third way.

### A negative fee

`charge_service.go:103` multiplies the amount by the fee rate in `int64`, and the only check
on an amount is that it is above nothing (`charge_dto.go`, `gt=0`). At 200 basis points an
amount of 5 * 10^16 wraps to a fee of -844,674,407,370,955: there is no leg of the fee, since
only a fee above nothing has one; the net credit of 50,844,674,407,370,955 is more than
the debit; and all of it is committed, because both legs are above nothing. The comment on
the ledger in migration 000002 says "For every charge, sum(DEBIT) must strictly equal
sum(CREDIT)", which is so for every charge but these. `LedgerBalanced` says exactly that: debits
are the amount settled, credits are the same plus what the fee is below nothing, and the
fee is below nothing only if the product was too large for an `int64`. An instance of it is reached
in the run of `Charge` (2000 under a `MaxInt` of 524,287). In `Gateway` money is conserved as
long as `FeesReachAccount`: no fee so far wrapped below nothing, and none was due to an
account that does not exist, to which a checkout payment credits it all the same.
A checkout payment has the same product (`checkout_repository.go:160`), so that its merchant
can be credited with more than the payer paid; the payer's wallet must cover the amount.

### Findings

* `WalletDuplicates`: `UNIQUE (user_id, currency, deleted_at)` never matches two rows
  whose `deleted_at` is `NULL`; the wallet form says "You can create one wallet per
  currency." (`CreateWalletModal.jsx:47`).
* `ChargeRebilled`: two requests with one `Idempotency-Key` that overlap, or one whose
  look-up or save failed, are both billed; the README says the endpoint "prevents
  duplicate billing" (`README.md:22`). `OrderlyKeysWork` of `Charge` says when it does:
  when that key is sent again after its answer, and its record was found and stored,
  whatever happens to the other keys.
* `GatewayLedger`: checkout payments credit the fee account and write no ledger entry;
  `progress.md:70` says that every checkout payment writes balanced entries.
* `WebhookDeadLetters`: the error of the republish is ignored and the delivery is
  acknowledged, so the event is neither retried nor dead-lettered; the README says
  that failing messages are diverted to the dead letter queue (`README.md:36`).

## 4. The proofs

Every proof is for any number of requests, rows, streams, events and restarts, any
amounts that are an `int64` (whatever `MaxInt` is), and any limits and capacities; the assumptions are the named `ASSUME`s of the modules,
which say of what type the constants are. Inputs are of their types, bounds are natural
numbers, a queue has room for one event, placeholders such as `NoOne` are none of the
real names, fee rates are at most the whole amount, opening balances are in range, and
`MaxInt` and `Significand` are positive. Cards, requests to the limiter and, in
`Gateway`, wallets are finite sets, since the code sums or counts over them; wallets do
not have the names of system accounts (`NamesAssumption`), and requests of different kinds
and rows of different tables have different names (`RequestsAssumption`). A
`PartsAssumption` says of `Gateway` that its constants satisfy the assumptions of its parts.
TLC evaluates each of them in a run. All theorems below are of the form `Spec => []P`,
except `Refinement`, `ServerNotifies`, the action property of
`PaidStaysPaid`, and two that are about `OrderlySpec` and `NumberSpec`.

| theorem | establishes |
|---|---|
| **`WalletTransferProofs`** | |
| `Safety` | the inductive invariant `IInv` |
| `TypeCorrect` | `TypeOK`; in particular no balance is negative |
| `BalancesAreHistory` | `BalancesMatchHistory`: every balance is the opening one and the sum of what was transferred |
| `KeysAreTransactions` | `KeysMatchTransactions` |
| `DuplicatesAreRecorded` | `DuplicateMeansRecorded` |
| `SuccessesAreRecorded` | `SuccessMeansRecorded` |
| `NoMoneyInDeletedWallets` | `DeletedWalletsEmpty` |
| `CommitsAreChecked` | `ChecksHoldAtCommit` |
| `WebhooksOnce` | `WebhookOncePerTransfer` |
| `NoWaitCycle` | `WaitChainsAscend`: chains of waiting requests ascend in the wallet numbers |
| `Refinement` | `ImplementsAtomic`: every step is a step of `AtomicTransfer` or a stutter |
| **`CheckoutProofs`** | |
| `CheckoutTypeCorrect` | `TypeOK` |
| `PaymentsAreSettled` | `PaymentsSettled`: one transaction for each paid session, and accounts that are the sum of them |
| `SuccessMeansPaidHolds` | `SuccessMeansPaid` |
| `ChecksStand` | `ChecksHoldAtCommit` |
| `PaidStaysPaid` | `PaidIsFinal` |
| **`ChargeProofs`** | |
| `ChargeTypeCorrect` | `TypeOK` |
| `LedgerIsBalanced` | `LedgerBalanced`: for every charge the debits are the amount settled, and the credits too, but for a fee that wrapped below nothing |
| `AccountsFollowLedger` | `AccountsMatchLedger`: accounts and wallets are the sums of the ledger |
| `SuccessIsSettled` | `SuccessMeansSettled` |
| `LegsAreComplete` | a charge is recorded once, and the ledger holds exactly the legs of those that succeeded, whose net is above nothing and whose fee and net sum to the amount, a fee below nothing (which has no leg) included |
| `OrderlyKeysAreKept` | `OrderlyKeysWork`, of `OrderlySpec` |
| `CardNumbersAreSound` | `CardNumbersSound`, for every number that can be drawn |
| **`CardsProofs`** | |
| `CardsTypeCorrect` | `TypeOK` |
| `SpendingIsRecorded` | `SpendingMatchesRecords`: cards and wallets are the sums of the records |
| `LimitsRespected` | no card exceeds its limit |
| `ApprovedIsRecorded` | `ApprovedMeansRecorded` |
| `ChecksStand` | `ChecksHoldAtCommit` |
| `SecondCards` | `TwoCardsOnlyByOverlapOrReopening` |
| **`GatewayProofs`** | |
| `MoneyIsSafe` | `MoneySafe`: charges, checkout and card payments together conserve money, as long as no fee wrapped below nothing or had no account, and respect one another's locks |
| **`MerchantWebhookProofs`** | |
| `WebhooksTypeCorrect` | `TypeOK`; no retry count passes 3 |
| `EventsAreAccountedFor` | `EventsAccountedFor` |
| `DeliveredOnce` | `OnceAccepted` |
| **`ServerProofs`** | |
| `ServerTypeCorrect` | `TypeOK` of the process and all its parts |
| `ServerNotifies` | the process implements `Notifications!NotificationsSpec` |
| `StreamsAreReached` | `StreamsReached` |
| `EventsAreNotLost` | `EventsNotLost` |
| `AccessIsKept` | `AccessHolds` |
| `SeedsAreKept` | `SeedsHold` |

*Argument.* Hardly any of these properties is inductive by itself. That a commit finds the
wallets active, the balance sufficient and the key unused depends on what other requests
can do in between, hence on who holds which lock. Each proof therefore strengthens the
property to an inductive invariant, shows in one lemma for each action that the action
keeps it, with a step for each conjunct, and derives the properties state by state.

* `IInv` of `WalletTransfer`: `TypeOK`; `BodiesKnown` (which bodies a request at a given step
  can have, and that a number once read as a wallet stays one); `StepsHoldLocks` (a request at
  a given step holds its key and its rows); `LocksHaveHolders` (whoever holds a lock is at
  such a step); `ChecksStand` (what a request has checked is still true while it holds
  them); `RecordsAgree` (keys, transactions, deleted wallets, and what clients were told).
  `Refinement` uses it in every state: a commit is a `Move` whose guard is what
  `ChecksStand` says, a `DeleteCommit` a `Close`, a `CreateWallet` an `Open`, and no other
  step changes the abstract variables. `WebhooksOnce` adds `EventsOnce`: an event is once in
  the queue or once taken, and neither before the one request that reports its transfer has
  sent it. `BalancesAreHistory` adds `HistoryInv`: the records are finitely many and name
  wallets that were there, so that a new wallet has no record and a commit adds one term.
* `CheckoutInv`: `TypeOK`, `SessionsKnown`, `PaymentsKnown`, `LocksHeld`, `PaidKnown`.
  `PaymentsAreSettled` adds `OneEach`, that paid sessions and transactions correspond one to
  one, and the sums; a commit extends all of them by one term, since the session's lock says
  that it was unpaid. `FeeSplit` says what the shares of an amount are in `int64`: whenever
  the fee is not negative, or the net is above nothing, the two sum to the amount.
* `ChargeInv`: `TypeOK`, `RequestsKnown`, `RowsStand`, `AnswersStand` (an answer or a stored
  response of success names a settled charge), `LegsComplete`. The ledger balances because
  the legs of a charge are known exactly; `LedgerInv` adds the sums of the accounts.
* `OrderlyInv` of `OrderlyCharge`: of the requests with a key that is not disturbed, at most
  one is in flight (`AloneInFlight`), and the record of the key is written by the first one
  that comes through (`KeyStands`): until then nobody with the key is settled or answered,
  and from then on everybody's answer is the record. A request is in between only when its
  charge is settled and not yet saved, which nobody else with the key can see.
* *The check digit.* `Total` is the Luhn sum of a number of sixteen digits, to which a digit
  adds its `Weight`. A wrong digit changes one term by less than ten and not by nothing, and
  a swap of two neighbours two terms, one of which is doubled: the sum stays a multiple of
  ten only if they change by nothing together.
* `CardsInv`: `TypeOK`, `CardsKnown`, `LocksHeld`, `RecordsStand`, `SeenClosed` (a card that
  was counted as closed is open again only if it was reopened). `MoneyInv` adds the sums.
* `GatewayInv`: each part's own invariant, over the locks that its own requests hold
  (`CheckoutLock`, `ChargeLock`); `LocksApart`; and `MoneyConserved`. A step of the gateway is
  a step of one part, on its own locks, and changes for the others nothing but
  wallets they have not locked, which each part's module shows it tolerates (`OthersStep`,
  `OthersKeep`). What each part adds to and takes from wallets, fee and clearing accounts
  then cancels out.
* `WebhookInv`: `TypeOK`, `ConsumerKnown`, `RetriesPosted` (a message that was retried n
  times was posted n times at least), `HandCovered` (a delivery is finished only when its
  event is settled or in the queue again), and the property. `OnceInv` of `DeliveredOnce`
  says what is so while the server and its connection last: without RabbitMQ an event is
  posted from memory once (`PostedOnce`), with it an event has one message, which counts
  its posts, until it is accepted or given up (`PostedInTurn`).
* `HubInv` and `BrokerInv` of `Notifications`: the two properties with `RivalsOverlap` (two
  streams of one user at the same time are both recorded), `ChannelsFirst`
  and `HandsKnown`. They are proved
  of `NotificationsSpec`; `ServerNotifies` shows that every step of the process is a step
  of it or leaves it alone, and carries them over. `LimiterInv` and `AccountsInv` are kept
  by the steps of the limiter, of users and of the seeding, which registers users too.
* `SeedInv` of `Startup`: what is left to ensure is the end of the list (`Progress`); the
  wallet a start keeps for the rows that follow is of the right owner (`HeldKnown`); all
  rows the start is through with are there, unless it logged a failure (`RowsEnsured`); and
  the uniqueness in `SeedsHold` (`OpenOnce`, `PaidInto`). `ServerTypeCorrect` needs
  all of the above, for the queues of the hub and of the seeding refer to them.

*Sums.* `Sums` proves what the proofs about money use: that a sum over a finite set
does not depend on the order in which the fold picks the elements, grows by one term with
one element, and changes by what one term changes. Induction over sets would be the way,
but the library's induction theorems take an operator, which the provers cannot
instantiate. Instead, a smallest finite set on which a fact fails is looked at
(`SmallestSubset`, from the well-foundedness of strict inclusion among the subsets of a finite
set): without one of its elements the fact holds, and so it does with it.

*Model-checked only.* All invariants and action properties of the passing runs are
stated by a theorem. Liveness under fairness is out of the provers' reach, and TLC
checks it: `RequestsAnswered`, `EventsSettled`, `EndsInTime`. That what a
theorem's invariant says is not vacuous, and that a bug in the code would break the
property, is shown by the runs and their mutations.

## 5. Not modelled, and why

*Rate cache.* Its service has constant rates, and every failure of Redis falls through to
it, so that a cached rate is always the rate of `ExchangeRate`.

*Merchant authentication* is one look-up without state; a charge or a session names its
merchant, as it does after the middleware. The JWT of a login and its check have no state
either. Configuration, metrics, CORS, responses, export, encryption, the generation of CVVs
and the masking of numbers have no state on which operations depend; the frontend is the
client whose requests are the inputs of the models. Reads that only list (history,
wallets, sessions, rates, cards) change nothing.

*Arithmetic.* Fees, conversions and credits keep the width they have in the code. Two
approximations are left. The roundings of a `float64` conversion are a set of outcomes
that contains the real one (`Conversions`), so a property about a particular converted
amount could not be stated; none is. And the sum `amount + spent_amount` in
`ProcessPayment` of `Cards` counts without end: in the code it can wrap and pass the limit,
but then the `UPDATE` of `spent_amount` leaves `BIGINT` and fails, so that the payment is
refused either way.

*Transfers with the rest.* Transfers update the same wallets as checkout, charges and
cards, but `WalletTransfer` is not composed with `Gateway`. A checkout payment, which takes
rows out of order, may so wait in a circle with a transfer. PostgreSQL's detector ends it
as it ends a circle of payments, and an end by the detector is an `Abort` to either.

*Hazards without a property* are listed with a note in `PROJECT.json`: events that die with
the process, which no code tries to save; amounts that convert to zero, which is what
the rounding says; a settlement wallet that was deleted, for which nothing states
what should happen.

## 6. Plan

The order was: transfers and their refinement, since all money rests on them; checkout
and charges over shared rows; merchant webhooks; cards; the proofs about transfers; then
the hub, the consumer, the limiter, users and the start; cards in the composition; proofs
about every part. What remains worth doing:

1. Transfers and deletions of wallets over the rows of `Gateway`.
2. Abstract specifications of a paid session and of a settled charge, as `AtomicTransfer`
   is one of transfers, and proofs that `Checkout` and `Charge` implement them.
3. A larger `Server`, in which requests and streams meet in one part.

To repeat the checks: `tlc -config <run>.cfg <module>.tla` with the modules of
`PROJECT.json`, and `tlapm <module>Proofs.tla` for each of the proof modules.
