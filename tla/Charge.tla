------------------------------- MODULE Charge -------------------------------
(***************************************************************************)
(* Direct card charges: ProcessCharge from the idempotency lookup to the   *)
(* reply, with the settlement transaction followed statement by statement  *)
(* where it waits for a row.  The idempotency record is read and written   *)
(* outside that transaction, and errors of either are ignored.             *)
(***************************************************************************)
EXTENDS GatewayAccounts, CardNumbers

CONSTANTS
  Charges,       \* the charge requests; request c draws the charge ID c
  Keys,          \* the Idempotency-Key values
  PaymentCards,  \* the cards that are sent: [number, month, year, cvv]
  ChargeInputs,  \* [merchant, key, amount, card]
  NoKey          \* no Idempotency-Key header

ASSUME ChargeAssumption ==
  /\ PaymentCards \subseteq [number : Seq(0 .. 10), month : Int, year : Int, cvv : Nat]
  /\ ChargeInputs \subseteq [merchant : Merchants, key : Keys \cup {NoKey},
                             amount : 1 .. MaxInt, card : PaymentCards]
  /\ NoOne \notin Charges /\ NoKey \notin Keys

VARIABLES
  charges,       \* the rows of charges
  cache,         \* cache[m][k]: the charge_idempotency response, or NoResponse
  stage,         \* stage[c]: the next step of request c
  request,       \* request[c]: what request c asks for
  answer         \* answer[c]: the response its client got, or NoResponse

chargeVars == <<charges, cache, stage, request, answer>>
vars == <<accounts, rowLock, crashes, chargeVars>>

(* A response: a declined card, a settled charge, or an internal error. *)
NoResponse == [kind |-> "none", id |-> NoOne]
Declined == [kind |-> "declined", id |-> NoOne]
Failed == [kind |-> "failed", id |-> NoOne]
Succeeded(c) == [kind |-> "succeeded", id |-> c]

NoRequest == [merchant |-> NoOne, key |-> NoKey, amount |-> 0, card |-> NoOne]

ChargeInit ==
  /\ charges = {}
  /\ cache = [m \in Merchants |-> [k \in Keys |-> NoResponse]]
  /\ stage = [c \in Charges |-> "idle"]
  /\ request = [c \in Charges |-> NoRequest]
  /\ answer = [c \in Charges |-> NoResponse]

Init == AccountsInit /\ ChargeInit

-----------------------------------------------------------------------------

Proceed(c, step) == stage' = [stage EXCEPT ![c] = step]

Respond(c, response) ==
  /\ Proceed(c, "done")
  /\ answer' = [answer EXCEPT ![c] = response]

Held(c) == {n \in Rows : rowLock[n] = c}

Unlock(c) == rowLock' = [n \in Rows |-> IF n \in Held(c) THEN NoOne ELSE rowLock[n]]

RollbackSettlement(c) ==
  /\ Unlock(c)
  /\ Respond(c, Failed)
  /\ UNCHANGED <<accounts, crashes, charges, cache, request>>

SubmitCharge(c, in) ==
  /\ stage[c] = "idle"
  /\ request' = [request EXCEPT ![c] = in]
  /\ Proceed(c, IF in.key = NoKey THEN "validate" ELSE "lookup")
  /\ UNCHANGED <<accounts, rowLock, crashes, charges, cache, answer>>

Cached(c) == cache[request[c].merchant][request[c].key]

(* GetIdempotency: a record is replayed, and a failed lookup counts as a
   miss. *)
Lookup(c) ==
  /\ stage[c] = "lookup"
  /\ \/ Cached(c) # NoResponse /\ Respond(c, Cached(c))
     \/ Cached(c) = NoResponse /\ Proceed(c, "validate") /\ UNCHANGED answer
  /\ UNCHANGED <<accounts, rowLock, crashes, charges, cache, request>>

LookupFails(c) ==
  /\ stage[c] = "lookup"
  /\ Proceed(c, "validate")
  /\ UNCHANGED <<accounts, rowLock, crashes, charges, cache, request, answer>>

Fee(c) == FeeAmount(request[c].amount, request[c].merchant)
Net(c) == NetAmount(request[c].amount, request[c].merchant)

Row(c, outcome) ==
  [id |-> c, merchant |-> request[c].merchant, amount |-> request[c].amount,
   fee |-> IF outcome = "SUCCEEDED" THEN Fee(c) ELSE 0,
   net |-> IF outcome = "SUCCEEDED" THEN Net(c) ELSE 0, status |-> outcome]

Valid(c) == Accepted(request[c].card)

(* The last four characters are cut from a number without its blanks: of fewer,
   the request panics (a number keeps its dashes there, so it need not). *)
TooShort(c) == Len(request[c].card.number) < 4

(* ValidateAndSimulateCard; a declined card is recorded in charges, if that
   succeeds; a valid one goes on to the settlement, if the system accounts
   are found. *)
Validate(c) ==
  /\ stage[c] = "validate"
  /\ \/ Valid(c) /\ seeded = Accounts /\ Proceed(c, "credit_wallet") /\ UNCHANGED <<charges, answer>>
     \/ Valid(c) /\ seeded # Accounts /\ Respond(c, Failed) /\ UNCHANGED charges
     \/ TooShort(c) /\ Respond(c, Failed) /\ UNCHANGED charges
     \/ /\ ~Valid(c)
        /\ Proceed(c, IF request[c].key = NoKey THEN "reply" ELSE "save")
        /\ charges' \in {charges, charges \cup {Row(c, "FAILED")}}
        /\ UNCHANGED answer
  /\ UNCHANGED <<accounts, rowLock, crashes, cache, request>>

-----------------------------------------------------------------------------
(* ProcessSettlement. *)

Entry(c, account, type, amount) ==
  [charge |-> c, account |-> account, type |-> type, amount |-> amount]

(* Mutation: the merchant's leg carries the gross amount. *)
GrossEntries(c) ==
  {Entry(c, "clearing", "DEBIT", request[c].amount),
   Entry(c, Settlement(request[c].merchant), "CREDIT", request[c].amount)}
  \cup (IF Fee(c) > 0 THEN {Entry(c, "fee", "CREDIT", Fee(c))} ELSE {})

(* The legs of the charge; the fee's only when there is one. *)
Entries(c) ==
  {Entry(c, "clearing", "DEBIT", request[c].amount),
   Entry(c, Settlement(request[c].merchant), "CREDIT", Net(c))}
  \cup (IF Fee(c) > 0 THEN {Entry(c, "fee", "CREDIT", Fee(c))} ELSE {})

TakeAccount(c, n, step) ==
  /\ RowFree(c, n)
  /\ rowLock' = [rowLock EXCEPT ![n] = c]
  /\ Proceed(c, step)
  /\ UNCHANGED <<accounts, crashes, charges, cache, request, answer>>

(* Mutation: no CHECK on the entries' amounts. *)
CreditWalletUnchecked(c) ==
  /\ stage[c] = "credit_wallet"
  /\ TakeAccount(c, Settlement(request[c].merchant), "debit_clearing")

(* The UPDATE of a row waits for its lock, and fails if the balance leaves
   BIGINT. *)
Increase(c, n, total, step) ==
  \/ total <= MaxInt /\ TakeAccount(c, n, step)
  \/ total > MaxInt /\ RowFree(c, n) /\ RollbackSettlement(c)

(* The charge and its entries are inserted (CHECK (amount > 0) on each), then
   the settlement wallet is credited. *)
CreditWallet(c) ==
  LET w == Settlement(request[c].merchant)
  IN  /\ stage[c] = "credit_wallet"
      /\ \/ /\ \A e \in Entries(c) : e.amount > 0
            /\ Increase(c, w, balance[w] + Net(c), "debit_clearing")
         \/ /\ \E e \in Entries(c) : e.amount <= 0
            /\ RollbackSettlement(c)

DebitClearing(c) ==
  /\ stage[c] = "debit_clearing"
  /\ Increase(c, "clearing", clearing + request[c].amount,
              IF Fee(c) > 0 THEN "credit_revenue" ELSE "commit")

CreditRevenue(c) ==
  /\ stage[c] = "credit_revenue"
  /\ Increase(c, "fee", fee + Fee(c), "commit")

(* Mutation: the fee is not credited to the platform's account. *)
SettleWithoutFee(c) ==
  /\ charges' = charges \cup {Row(c, "SUCCEEDED")}
  /\ ledger' = ledger \cup Entries(c)
  /\ balance' = [balance EXCEPT ![Settlement(request[c].merchant)] = @ + Net(c)]
  /\ clearing' = clearing + request[c].amount
  /\ Unlock(c)
  /\ UNCHANGED <<open, fee, seeded, crashes, cache, request>>

Settle(c) ==
  /\ charges' = charges \cup {Row(c, "SUCCEEDED")}
  /\ ledger' = ledger \cup Entries(c)
  /\ balance' = [balance EXCEPT ![Settlement(request[c].merchant)] = @ + Net(c)]
  /\ clearing' = clearing + request[c].amount
  /\ fee' = fee + FeeDue(request[c].amount, request[c].merchant)
  /\ Unlock(c)
  /\ UNCHANGED <<open, seeded, crashes, cache, request>>

CommitSettlement(c) ==
  /\ stage[c] = "commit"
  /\ Settle(c)
  /\ Proceed(c, IF request[c].key = NoKey THEN "reply" ELSE "save")
  /\ UNCHANGED answer

(* The settlement is committed but its acknowledgement is lost: the client is
   told of an internal error, and nothing is cached. *)
SettlementUnacknowledged(c) ==
  /\ stage[c] = "commit"
  /\ Settle(c)
  /\ Respond(c, Failed)

SettlementSteps == {"credit_wallet", "debit_clearing", "credit_revenue", "commit"}

AbortSettlement(c) == stage[c] \in SettlementSteps /\ RollbackSettlement(c)

(* The row that the next step of request c locks.  All charges lock a wallet,
   the clearing account and the fee account in this order, so they alone never
   wait in a circle. *)
WaitsFor(c, n) ==
  \/ stage[c] = "credit_wallet" /\ n = Settlement(request[c].merchant)
  \/ stage[c] = "debit_clearing" /\ n = "clearing"
  \/ stage[c] = "credit_revenue" /\ n = "fee"

Blocks(q, c) == q # c /\ \E n \in Rows : WaitsFor(c, n) /\ rowLock[n] = q

-----------------------------------------------------------------------------

Outcome(c) == IF Valid(c) THEN Succeeded(c) ELSE Declined

(* Mutation: the response is cached before the settlement. *)
SaveBeforeSettling(c) ==
  /\ stage[c] \in {"save", "credit_wallet"}
  /\ request[c].key # NoKey
  /\ cache' = [cache EXCEPT ![request[c].merchant][request[c].key] = Outcome(c)]
  /\ Proceed(c, IF stage[c] = "save" THEN "reply" ELSE "credit_wallet")
  /\ UNCHANGED <<accounts, rowLock, crashes, charges, request, answer>>

(* Mutation: only declines are cached. *)
SaveDeclines(c) ==
  /\ stage[c] = "save"
  /\ cache' = IF Valid(c) THEN cache
              ELSE [cache EXCEPT ![request[c].merchant][request[c].key] = Declined]
  /\ Proceed(c, "reply")
  /\ UNCHANGED <<accounts, rowLock, crashes, charges, request, answer>>

(* SaveIdempotency replaces the response of a record that exists. *)
Save(c) ==
  /\ stage[c] = "save"
  /\ cache' = [cache EXCEPT ![request[c].merchant][request[c].key] = Outcome(c)]
  /\ Proceed(c, "reply")
  /\ UNCHANGED <<accounts, rowLock, crashes, charges, request, answer>>

(* Its error is ignored. *)
SaveFails(c) ==
  /\ stage[c] = "save"
  /\ Proceed(c, "reply")
  /\ UNCHANGED <<accounts, rowLock, crashes, charges, cache, request, answer>>

Reply(c) ==
  /\ stage[c] = "reply"
  /\ Respond(c, Outcome(c))
  /\ UNCHANGED <<accounts, rowLock, crashes, charges, cache, request>>

EndCharges ==
  /\ stage' = [c \in Charges |-> IF stage[c] = "idle" THEN "idle" ELSE "done"]
  /\ UNCHANGED <<charges, cache, request, answer>>

Crash == Restart /\ EndCharges

ChargeStep(c) ==
  \/ Lookup(c) \/ Validate(c) \/ CreditWallet(c) \/ DebitClearing(c)
  \/ CreditRevenue(c) \/ CommitSettlement(c) \/ Save(c) \/ Reply(c)

(* The idempotency record does not do its work: it is not found or not stored,
   or the settlement it is about is not acknowledged. *)
MissRecord(c) == LookupFails(c) \/ SaveFails(c) \/ SettlementUnacknowledged(c)

ChargeNext ==
  \E c \in Charges :
    \/ \E in \in ChargeInputs : SubmitCharge(c, in)
    \/ ChargeStep(c)
    \/ AbortSettlement(c)
    \/ MissRecord(c)

(* Every charge has been answered: the server idles. *)
Quiet == (\A c \in Charges : stage[c] = "done") /\ UNCHANGED vars

Next ==
  \/ ChargeNext
  \/ Crash
  \/ \E w \in Wallets : CloseWallet(w) /\ UNCHANGED chargeVars
  \/ Quiet

Spec == Init /\ [][Next]_vars

-----------------------------------------------------------------------------
(* Properties. *)

Responses == {NoResponse, Declined, Failed} \cup {Succeeded(c) : c \in Charges}

(* Type correctness of the shared rows, the charges and the requests. *)
TypeOK ==
  /\ AccountsTypeOK
  /\ ledger \subseteq [charge : Charges, account : Rows, type : {"DEBIT", "CREDIT"},
                       amount : Nat \ {0}]
  /\ rowLock \in [Rows -> Charges \cup {NoOne}]
  /\ charges \subseteq [id : Charges, merchant : Merchants, amount : Nat, fee : Int64,
                        net : Int64, status : {"SUCCEEDED", "FAILED"}]
  /\ cache \in [Merchants -> [Keys -> Responses]]
  /\ stage \in [Charges -> SettlementSteps \cup
                  {"idle", "lookup", "validate", "save", "reply", "done"}]
  /\ request \in [Charges -> ChargeInputs \cup {NoRequest}]
  /\ answer \in [Charges -> Responses]

AmountsOf(entries) == SumFunction([e \in entries |-> e.amount])
EntriesOf(id, type) == {e \in ledger : e.charge = id /\ e.type = type}

(* For every charge, the debits equal the amount that was settled, and so do
   the credits, except where the product of the fee wrapped to a negative one:
   that writes no leg of the fee, and the merchant is credited with more than
   was debited.  A declined card or a settlement that failed half way leaves no
   entry. *)
LedgerBalanced ==
  /\ \A e \in ledger : \E r \in charges : r.id = e.charge
  /\ \A r \in charges :
       LET settled == IF r.status = "SUCCEEDED" THEN r.amount ELSE 0
           excess == IF r.fee < 0 THEN -r.fee ELSE 0
       IN  /\ AmountsOf(EntriesOf(r.id, "DEBIT")) = settled
           /\ AmountsOf(EntriesOf(r.id, "CREDIT")) = settled + excess
           /\ excess > 0 => FeeProduct(r.amount, r.merchant) > MaxInt

EntriesAt(n, type) == {e \in ledger : e.account = n /\ e.type = type}

(* The balances of the system accounts and of the wallets are what the ledger
   says: no settlement is applied to one and not to the other. *)
AccountsMatchLedger ==
  /\ clearing = AmountsOf(EntriesAt("clearing", "DEBIT"))
  /\ fee = AmountsOf(EntriesAt("fee", "CREDIT"))
  /\ \A w \in Wallets :
       balance[w] = WalletRow[w].balance + AmountsOf(EntriesAt(w, "CREDIT"))

(* A response of success, given to a client or kept for replay, names a
   charge of the client's merchant that was settled. *)
SuccessMeansSettled ==
  LET settled(m, response) ==
        response.kind = "succeeded" =>
          \E r \in charges : r.id = response.id /\ r.merchant = m /\ r.status = "SUCCEEDED"
  IN  /\ \A c \in Charges : settled(request[c].merchant, answer[c])
      /\ \A m \in Merchants : \A k \in Keys : settled(m, cache[m][k])

SameKey(c, d) ==
  /\ request[c].key # NoKey /\ request[c].key = request[d].key
  /\ request[c].merchant = request[d].merchant

(* One Idempotency-Key of a merchant is billed at most once. *)
BilledOncePerKey ==
  \A r, s \in charges :
    r.status = "SUCCEEDED" /\ s.status = "SUCCEEDED" /\ SameKey(r.id, s.id) => r = s
=============
