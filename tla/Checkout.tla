------------------------------ MODULE Checkout ------------------------------
(***************************************************************************)
(* Hosted checkout: a merchant creates a session, a user pays it from a    *)
(* wallet.  PaySession is followed statement by statement where its        *)
(* database transaction can wait for another: on the session, on the       *)
(* payer's wallet, on the merchant's wallet and on the fee account.  Its   *)
(* own writes are applied at its commit, as others see them.               *)
(***************************************************************************)
EXTENDS GatewayAccounts

CONSTANTS
  Sessions,      \* the session IDs under study
  SessionInputs, \* [merchant, amount, currency] of the sessions created
  Payments,      \* the PaySession requests, one per goroutine
  PayInputs,     \* the [session, user, wallet] of those requests
  NoTx           \* the NULL transaction_id

ASSUME CheckoutAssumption ==
  /\ SessionInputs \subseteq [merchant : Merchants, amount : 1 .. MaxInt,
                              currency : Currencies]
  /\ PayInputs \subseteq [session : Sessions, user : Users, wallet : Wallets]
  /\ NoOne \notin Payments /\ NoTx \notin Payments

VARIABLES
  order,         \* order[s]: what session s was created with
  status,        \* status[s]: "absent", "PENDING", "PAID" or "EXPIRED"
  payer,         \* payer[s]: payer_user_id
  txID,          \* txID[s]: transaction_id; the payment p draws the uuid p
  late,          \* the sessions whose expires_at has passed
  transactions,  \* the rows written to transactions
  sessionLock,   \* who holds the row of each session
  pc,            \* pc[p]: the next step of payment p
  body,          \* body[p]: what payment p asks for
  reply,         \* reply[p]: what the client was told
  announced      \* the <<session, transaction>> of the events enqueued

sessions == <<order, status, payer, txID, transactions>>
checkoutVars == <<order, status, payer, txID, late, transactions, sessionLock,
                  pc, body, reply, announced>>
vars == <<accounts, rowLock, crashes, checkoutVars>>

NoOrder == [merchant |-> NoOne, amount |-> 0, currency |-> NoOne]
NoBody == [session |-> NoOne, user |-> NoOne, wallet |-> NoOne]

CheckoutInit ==
  /\ order = [s \in Sessions |-> NoOrder]
  /\ status = [s \in Sessions |-> "absent"]
  /\ payer = [s \in Sessions |-> NoOne]
  /\ txID = [s \in Sessions |-> NoTx]
  /\ late = {}
  /\ transactions = {}
  /\ sessionLock = [s \in Sessions |-> NoOne]
  /\ pc = [p \in Payments |-> "idle"]
  /\ body = [p \in Payments |-> NoBody]
  /\ reply = [p \in Payments |-> "none"]
  /\ announced = {}

Init == AccountsInit /\ CheckoutInit

-----------------------------------------------------------------------------
(* Sessions. *)

CreateSession(s, in) ==
  /\ status[s] = "absent"
  /\ order' = [order EXCEPT ![s] = in]
  /\ status' = [status EXCEPT ![s] = "PENDING"]
  /\ UNCHANGED <<accounts, rowLock, payer, txID, late, transactions, sessionLock,
                 pc, body, reply, announced, crashes>>

(* The 30 minutes of a session pass. *)
PassDeadline(s) ==
  /\ status[s] # "absent" /\ s \notin late
  /\ late' = late \cup {s}
  /\ UNCHANGED <<accounts, rowLock, sessions, sessionLock, pc, body, reply,
                 announced, crashes>>

-----------------------------------------------------------------------------
(* PaySession and ExecuteWalletPayment. *)

Goto(p, step) == pc' = [pc EXCEPT ![p] = step]

Answer(p, what) ==
  /\ Goto(p, "done")
  /\ reply' = [reply EXCEPT ![p] = what]

(* The end of p's database transaction frees what it locked. *)
Release(p) ==
  /\ rowLock' = [n \in Rows |-> IF rowLock[n] = p THEN NoOne ELSE rowLock[n]]
  /\ sessionLock' = [s \in Sessions |->
                       IF sessionLock[s] = p THEN NoOne ELSE sessionLock[s]]

Rollback(p) ==
  /\ Release(p)
  /\ Answer(p, "error")
  /\ UNCHANGED <<accounts, sessions, late, body, announced, crashes>>

(* The session and its merchant are read before Begin, or a read fails; of
   what is read only columns that never change are used later. *)
SubmitPay(p, in) ==
  /\ pc[p] = "idle"
  /\ body' = [body EXCEPT ![p] = in]
  /\ \/ Answer(p, "error")
     \/ status[in.session] # "absent" /\ Goto(p, "lock_session") /\ UNCHANGED reply
  /\ UNCHANGED <<accounts, rowLock, sessions, late, sessionLock, announced, crashes>>

(* Mutation: the session is read without FOR UPDATE. *)
ReadSessionUnlocked(p) ==
  LET s == body[p].session
  IN  /\ pc[p] = "lock_session"
      /\ IF status[s] = "PENDING" /\ s \notin late
           THEN Goto(p, "lock_wallet") /\ UNCHANGED reply
           ELSE Answer(p, "error")
      /\ UNCHANGED <<accounts, rowLock, sessions, late, sessionLock, body,
                     announced, crashes>>

(* Mutation: the deadline is checked before the status, and EXPIRED is
   committed. *)
ExpireFirst(p) ==
  LET s == body[p].session
  IN  /\ pc[p] = "lock_session"
      /\ sessionLock[s] = NoOne
      /\ \/ /\ s \in late
            /\ status' = [status EXCEPT ![s] = "EXPIRED"]
            /\ Answer(p, "error")
            /\ UNCHANGED <<accounts, rowLock, order, payer, txID, late, transactions,
                           sessionLock, body, announced, crashes>>
         \/ /\ s \notin late /\ status[s] # "PENDING" /\ Rollback(p)
         \/ /\ s \notin late /\ status[s] = "PENDING"
            /\ sessionLock' = [sessionLock EXCEPT ![s] = p]
            /\ Goto(p, "lock_wallet")
            /\ UNCHANGED <<accounts, rowLock, sessions, late, body, reply,
                           announced, crashes>>

(* Mutation: a paid session is answered with success. *)
PaidAgain(p) ==
  LET s == body[p].session
  IN  /\ pc[p] = "lock_session"
      /\ sessionLock[s] = NoOne
      /\ \/ /\ status[s] = "PENDING" /\ s \notin late
            /\ sessionLock' = [sessionLock EXCEPT ![s] = p]
            /\ Goto(p, "lock_wallet")
         \/ /\ status[s] = "PAID"
            /\ Goto(p, "enqueue")
            /\ UNCHANGED sessionLock
      /\ UNCHANGED <<accounts, rowLock, sessions, late, body, reply, announced, crashes>>

(* SELECT ... FOR UPDATE on the session, its status and its deadline.  An
   expired session is marked EXPIRED, and the return of the error rolls the
   mark back. *)
LockSession(p) ==
  LET s == body[p].session
      payable == status[s] = "PENDING" /\ s \notin late
  IN  /\ pc[p] = "lock_session"
      /\ sessionLock[s] = NoOne
      /\ \/ /\ payable
            /\ sessionLock' = [sessionLock EXCEPT ![s] = p]
            /\ Goto(p, "lock_wallet")
            /\ UNCHANGED <<accounts, rowLock, sessions, late, body, reply,
                           announced, crashes>>
         \/ ~payable /\ Rollback(p)

TakeRow(p, n, step) ==
  /\ rowLock' = [rowLock EXCEPT ![n] = p]
  /\ Goto(p, step)
  /\ UNCHANGED <<accounts, sessions, late, sessionLock, body, reply, announced, crashes>>

Order(p) == order[body[p].session]

WalletPays(p) ==
  LET w == body[p].wallet
  IN  /\ w \in open
      /\ WalletRow[w].user = body[p].user
      /\ WalletRow[w].currency = Order(p).currency
      /\ balance[w] >= Order(p).amount

(* Mutation: the wallet is checked without FOR UPDATE. *)
CheckWalletUnlocked(p) ==
  /\ pc[p] = "lock_wallet"
  /\ \/ /\ WalletPays(p)
        /\ Goto(p, "credit_merchant")
        /\ UNCHANGED <<accounts, rowLock, sessions, late, sessionLock, body, reply,
                       announced, crashes>>
     \/ ~WalletPays(p) /\ Rollback(p)

(* SELECT ... FOR UPDATE on the payer's wallet, its checks, and the debit of
   the row now held. *)
LockWallet(p) ==
  /\ pc[p] = "lock_wallet"
  /\ RowFree(p, body[p].wallet)
  /\ \/ WalletPays(p) /\ TakeRow(p, body[p].wallet, "credit_merchant")
     \/ ~WalletPays(p) /\ Rollback(p)

(* What the merchant's wallet holds after the payment, which may be the
   payer's own. *)
MerchantBalance(p) ==
  LET m == Order(p).merchant
  IN  balance[Settlement(m)] + NetAmount(Order(p).amount, m)
        - (IF body[p].wallet = Settlement(m) THEN Order(p).amount ELSE 0)

(* CHECK (balance >= 0) and the range of BIGINT. *)
CreditMerchant(p) ==
  LET m == Order(p).merchant
  IN  /\ pc[p] = "credit_merchant"
      /\ RowFree(p, Settlement(m))
      /\ \/ /\ MerchantBalance(p) \in 0 .. MaxInt
            /\ TakeRow(p, Settlement(m),
                       IF FeeAmount(Order(p).amount, m) > 0 THEN "credit_fee" ELSE "commit")
         \/ /\ MerchantBalance(p) \notin 0 .. MaxInt
            /\ Rollback(p)

(* The UPDATE finds no row of an account that does not exist, and the payment
   goes on. *)
CreditFee(p) ==
  LET total == fee + FeeAmount(Order(p).amount, Order(p).merchant)
  IN  /\ pc[p] = "credit_fee"
      /\ \/ /\ "fee" \in seeded /\ total <= MaxInt
            /\ RowFree(p, "fee")
            /\ TakeRow(p, "fee", "commit")
         \/ /\ "fee" \in seeded /\ total > MaxInt
            /\ RowFree(p, "fee")
            /\ Rollback(p)
         \/ /\ "fee" \notin seeded
            /\ Goto(p, "commit")
            /\ UNCHANGED <<accounts, rowLock, sessions, late, sessionLock, body, reply,
                           announced, crashes>>

(* Mutation: the merchant is credited with the gross amount. *)
ApplyGross(p) ==
  LET s == body[p].session
      m == Order(p).merchant
      amount == Order(p).amount
  IN  /\ balance' = [[balance EXCEPT ![body[p].wallet] = @ - amount]
                        EXCEPT ![Settlement(m)] = @ + amount]
      /\ fee' = fee + FeeCredited(amount, m)
      /\ transactions' = transactions \cup
           {[id |-> p, from |-> body[p].wallet, to |-> Settlement(m), amount |-> amount]}
      /\ status' = [status EXCEPT ![s] = "PAID"]
      /\ payer' = [payer EXCEPT ![s] = body[p].user]
      /\ txID' = [txID EXCEPT ![s] = p]
      /\ Release(p)
      /\ UNCHANGED <<open, clearing, ledger, seeded, order, late, body, announced, crashes>>

(* The debit, the credits, the row of the activity log and the session. *)
ApplyPayment(p) ==
  LET s == body[p].session
      m == Order(p).merchant
      amount == Order(p).amount
  IN  /\ balance' = [[balance EXCEPT ![body[p].wallet] = @ - amount]
                        EXCEPT ![Settlement(m)] = @ + NetAmount(amount, m)]
      /\ fee' = fee + FeeCredited(amount, m)
      /\ transactions' = transactions \cup
           {[id |-> p, from |-> body[p].wallet, to |-> Settlement(m), amount |-> amount]}
      /\ status' = [status EXCEPT ![s] = "PAID"]
      /\ payer' = [payer EXCEPT ![s] = body[p].user]
      /\ txID' = [txID EXCEPT ![s] = p]
      /\ Release(p)
      /\ UNCHANGED <<open, clearing, ledger, seeded, order, late, body, announced, crashes>>

Commit(p) ==
  /\ pc[p] = "commit"
  /\ ApplyPayment(p)
  /\ Goto(p, "enqueue")
  /\ UNCHANGED reply

(* The commit happens but its acknowledgement is lost. *)
CommitUnacknowledged(p) ==
  /\ pc[p] = "commit"
  /\ ApplyPayment(p)
  /\ Answer(p, "error")

TxSteps == {"lock_session", "lock_wallet", "credit_merchant", "credit_fee", "commit"}

(* Any statement may fail and roll back. *)
Abort(p) == pc[p] \in TxSteps /\ Rollback(p)

(* EnqueueMerchantWebhook never blocks the request. *)
Enqueue(p) ==
  /\ pc[p] = "enqueue"
  /\ announced' = announced \cup {<<body[p].session, p>>}
  /\ Answer(p, "paid")
  /\ UNCHANGED <<accounts, rowLock, sessions, late, sessionLock, body, crashes>>

-----------------------------------------------------------------------------
(* PostgreSQL's deadlock detector (external): it ends one transaction of a
   circle of transactions that wait for one another. *)

WaitsFor(p, n) ==
  \/ pc[p] = "lock_wallet" /\ n = body[p].wallet
  \/ pc[p] = "credit_merchant" /\ n = Settlement(Order(p).merchant)
  \/ pc[p] = "credit_fee" /\ n = "fee" /\ "fee" \in seeded

Blocks(q, p) == q # p /\ \E n \in Rows : WaitsFor(p, n) /\ rowLock[n] = q

Deadlocked(p) ==
  \E circle \in SUBSET Payments :
    /\ p \in circle
    /\ \A q \in circle : \E r \in circle : Blocks(q, r)
    /\ \A q \in circle : \E r \in circle : Blocks(r, q)

DetectDeadlock(p) == Deadlocked(p) /\ Rollback(p)

(* The requests of a server that stops are gone. *)
EndPayments ==
  /\ pc' = [p \in Payments |-> IF pc[p] = "idle" THEN "idle" ELSE "done"]
  /\ sessionLock' = [s \in Sessions |-> NoOne]
  /\ UNCHANGED <<sessions, late, body, reply, announced>>

Crash == Restart /\ EndPayments

PaymentStep(p) ==
  \/ LockSession(p) \/ LockWallet(p) \/ CreditMerchant(p) \/ CreditFee(p)
  \/ Commit(p) \/ Enqueue(p) \/ DetectDeadlock(p)

CheckoutNext ==
  \/ \E s \in Sessions : \/ \E in \in SessionInputs : CreateSession(s, in)
                         \/ PassDeadline(s)
  \/ \E p \in Payments : \/ \E in \in PayInputs : SubmitPay(p, in)
                         \/ PaymentStep(p)
                         \/ CommitUnacknowledged(p)
                         \/ Abort(p)

(* Every payment has been answered: the server idles. *)
Quiet == (\A p \in Payments : pc[p] = "done") /\ UNCHANGED vars

Next ==
  \/ CheckoutNext
  \/ Crash
  \/ \E w \in Wallets : CloseWallet(w) /\ UNCHANGED checkoutVars
  \/ Quiet

Spec == Init /\ [][Next]_vars

-----------------------------------------------------------------------------
(* Properties. *)

(* Type correctness of the shared rows, the sessions and the payments. *)
TypeOK ==
  /\ AccountsTypeOK
  /\ rowLock \in [Rows -> Payments \cup {NoOne}]
  /\ order \in [Sessions -> SessionInputs \cup {NoOrder}]
  /\ status \in [Sessions -> {"absent", "PENDING", "PAID", "EXPIRED"}]
  /\ payer \in [Sessions -> Users \cup {NoOne}]
  /\ txID \in [Sessions -> Payments \cup {NoTx}]
  /\ late \subseteq Sessions
  /\ transactions \subseteq [id : Payments, from : Wallets, to : Wallets, amount : Nat]
  /\ sessionLock \in [Sessions -> Payments \cup {NoOne}]
  /\ pc \in [Payments -> TxSteps \cup {"idle", "enqueue", "done"}]
  /\ body \in [Payments -> PayInputs \cup {NoBody}]
  /\ reply \in [Payments -> {"none", "paid", "error"}]
  /\ announced \subseteq Sessions \X Payments

PaidSessions == {s \in Sessions : status[s] = "PAID"}

(* A session is paid by exactly one transaction, of its amount, to its
   merchant's wallet, from a wallet of its payer, and no transaction exists
   but those: concurrent payments of one session, retries and restarts
   included. *)
PaidOnce ==
  /\ {t.id : t \in transactions} = {txID[s] : s \in PaidSessions}
  /\ Cardinality(transactions) = Cardinality(PaidSessions)
  /\ \A s \in PaidSessions : \E t \in transactions :
       /\ t.id = txID[s]
       /\ t.amount = order[s].amount
       /\ t.to = Settlement(order[s].merchant)
       /\ WalletRow[t.from].user = payer[s]

PaidFrom(s, w) == \E t \in transactions : t.id = txID[s] /\ t.from = w

(* What each paid session brought to wallet w, less what it took, and what it
   brought to the fee account. *)
Movement(w) ==
  [s \in PaidSessions |->
     (IF Settlement(order[s].merchant) = w
        THEN NetAmount(order[s].amount, order[s].merchant) ELSE 0)
     - (IF PaidFrom(s, w) THEN order[s].amount ELSE 0)]

Cut == [s \in PaidSessions |-> FeeCredited(order[s].amount, order[s].merchant)]

(* Wallets and fee account hold what the paid sessions moved, no more and no
   less: nothing is lost in a rollback or between two payments that meet on one
   wallet.  (The two shares of a payment are its amount, unless the fee's
   product wrapped or no fee account exists.) *)
AccountsMatchSessions ==
  /\ \A w \in Wallets : balance[w] = WalletRow[w].balance + SumFunction(Movement(w))
  /\ fee = SumFunction(Cut)

(* Sessions, transactions and balances tell one story. *)
PaymentsSettled == PaidOnce /\ AccountsMatchSessions

(* A client is told "paid", and an event is enqueued, only for the payment
   whose transaction the session records; so one client at most is told so. *)
SuccessMeansPaid ==
  /\ \A p \in Payments : reply[p] = "paid" =>
       status[body[p].session] = "PAID" /\ txID[body[p].session] = p
  /\ \A e \in announced : status[e[1]] = "PAID" /\ txID[e[1]] = e[2]

(* What a payment checked still stands when it commits: the session is
   unpaid, the payer's wallet is open and covers the amount. *)
ChecksHoldAtCommit ==
  \A p \in Payments : pc[p] = "commit" =>
    status[body[p].session] = "PENDING" /\ WalletPays(p)

(* A paid session stays paid, by the same user and transaction, also when its
   deadline passes and it is paid again. *)
PaidIsFinal ==
  [][\A s \in Sessions : status[s] = "PAID" =>
       /\ status'[s] = "PAID" /\ txID'[s] = txID[s]
       /\ payer'[s] = payer[s] /\ order'[s] = order[s]]_vars
=============================================================================
