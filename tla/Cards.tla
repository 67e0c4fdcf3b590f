-------------------------------- MODULE Cards --------------------------------
(***************************************************************************)
(* Virtual cards: creation, which counts the open cards of a wallet and    *)
(* then inserts, the changes of a card's status, and payments, whose       *)
(* database transaction locks the card, its user and its wallet one after  *)
(* the other.  A transaction's own writes are applied at its commit.       *)
(***************************************************************************)
EXTENDS Functions, FiniteSets, Integers

CONSTANTS
  Users,
  Wallets,
  Opening,       \* Opening[w]: the balance of w at the start
  Cards,         \* the creation requests; request c draws the card ID c
  CardInputs,    \* the [user, wallet, limit] of the cards created
  Payments,      \* the payment requests; request p draws the transaction ID p
  PayInputs,     \* their [card, amount, valid]: valid, the details match
  MaxCrashes,    \* bound on the restarts of the server
  NoOne          \* the owner of a free lock

ASSUME CardsAssumption ==
  /\ IsFiniteSet(Cards)
  /\ Opening \in [Wallets -> Nat]
  /\ CardInputs \subseteq [user : Users, wallet : Wallets, limit : Nat \ {0}]
  /\ PayInputs \subseteq [card : Cards, amount : Nat \ {0}, valid : BOOLEAN]
  /\ MaxCrashes \in Nat
  /\ NoOne \notin Payments

VARIABLES
  balance,       \* of the wallets
  status,        \* status[c]: "absent", "ACTIVE", "FROZEN" or "CLOSED"
  card,          \* card[c]: the user, wallet and limit of card c
  spent,         \* spent[c]: spent_amount
  transactions,  \* the rows of transactions with a card_id
  rowLock,       \* who holds each row of cards, users and wallets
  making,        \* making[c]: the next step of creation c
  pc,            \* pc[p]: the next step of payment p
  body,          \* body[p]: what payment p asks for
  reply,         \* reply[p]: what the client was told
  crashes,
  seen,          \* history: the cards in the table when creation c counted
  reopened       \* history: the cards that left the status CLOSED

Rows == Cards \cup Users \cup Wallets

tables == <<balance, status, card, spent, transactions>>
history == <<seen, reopened>>
vars == <<tables, rowLock, making, pc, body, reply, crashes, history>>

NoCard == [user |-> NoOne, wallet |-> NoOne, limit |-> 0]
NoBody == [card |-> NoOne, amount |-> 0, valid |-> FALSE]

Init ==
  /\ balance = Opening
  /\ status = [c \in Cards |-> "absent"]
  /\ card = [c \in Cards |-> NoCard]
  /\ spent = [c \in Cards |-> 0]
  /\ transactions = {}
  /\ rowLock = [n \in Rows |-> NoOne]
  /\ making = [c \in Cards |-> "count"]
  /\ pc = [p \in Payments |-> "idle"]
  /\ body = [p \in Payments |-> NoBody]
  /\ reply = [p \in Payments |-> "none"]
  /\ crashes = 0
  /\ seen = [c \in Cards |-> {}]
  /\ reopened = {}

-----------------------------------------------------------------------------
(* CardRepository.Create: SELECT COUNT, and later INSERT, with the pool. *)

Open == {c \in Cards : status[c] \in {"ACTIVE", "FROZEN"}}

(* Mutation: frozen cards are not counted. *)
CountActive(w) == Cardinality({c \in Cards : status[c] = "ACTIVE" /\ card[c].wallet = w})

CountOpen(w) == Cardinality({c \in Open : card[c].wallet = w})

CountCards(c, in) ==
  /\ making[c] = "count"
  /\ \/ /\ CountOpen(in.wallet) = 0
        /\ making' = [making EXCEPT ![c] = "insert"]
        /\ card' = [card EXCEPT ![c] = in]
        /\ seen' = [seen EXCEPT ![c] = {d \in Cards : status[d] # "absent"}]
     \/ /\ making' = [making EXCEPT ![c] = "done"]
        /\ UNCHANGED <<card, seen>>
  /\ UNCHANGED <<balance, status, spent, transactions, rowLock, pc, body, reply,
                 crashes, reopened>>

(* The foreign keys of the new row wait for the FOR UPDATE locks on its user
   and wallet. *)
InsertCard(c) ==
  /\ making[c] = "insert"
  /\ rowLock[card[c].user] = NoOne /\ rowLock[card[c].wallet] = NoOne
  /\ status' = [status EXCEPT ![c] = "ACTIVE"]
  /\ making' = [making EXCEPT ![c] = "done"]
  /\ UNCHANGED <<balance, card, spent, transactions, rowLock, pc, body, reply,
                 crashes, history>>

InsertFails(c) ==
  /\ making[c] = "insert"
  /\ making' = [making EXCEPT ![c] = "done"]
  /\ UNCHANGED <<tables, rowLock, pc, body, reply, crashes, history>>

(* FreezeCard, ActivateCard and CloseCard: one UPDATE by the card's user, which
   waits for the row and asks nothing of the status it replaces. *)
UpdateStatus(c, to) ==
  /\ status[c] # "absent"
  /\ rowLock[c] = NoOne
  /\ status' = [status EXCEPT ![c] = to]
  /\ reopened' = IF status[c] = "CLOSED" /\ to # "CLOSED" THEN reopened \cup {c}
                 ELSE reopened
  /\ UNCHANGED <<balance, card, spent, transactions, rowLock, making, pc, body,
                 reply, crashes, seen>>

-----------------------------------------------------------------------------
(* CardRepository.ProcessPayment: one database transaction. *)

Goto(p, step) == pc' = [pc EXCEPT ![p] = step]

Answer(p, what) ==
  /\ Goto(p, "done")
  /\ reply' = [reply EXCEPT ![p] = what]

Submit(p, in) ==
  /\ pc[p] = "idle"
  /\ body' = [body EXCEPT ![p] = in]
  /\ Goto(p, "lock_card")
  /\ UNCHANGED <<tables, rowLock, making, reply, crashes, history>>

(* Mutation: the user's row stays locked. *)
ReleaseAllButUser(p) ==
  rowLock' = [n \in Rows |-> IF rowLock[n] = p /\ n \notin Users THEN NoOne ELSE rowLock[n]]

(* The end of p's database transaction frees what it locked. *)
Release(p) == rowLock' = [n \in Rows |-> IF rowLock[n] = p THEN NoOne ELSE rowLock[n]]

Rollback(p) ==
  /\ Release(p)
  /\ Answer(p, "error")
  /\ UNCHANGED <<tables, making, body, crashes, history>>

TakeRow(p, n, step) ==
  /\ rowLock' = [rowLock EXCEPT ![n] = p]
  /\ Goto(p, step)
  /\ UNCHANGED <<tables, making, body, reply, crashes, history>>

(* Mutation: the card is read without FOR UPDATE. *)
ReadCardUnlocked(p) ==
  /\ pc[p] = "lock_card"
  /\ status[body[p].card] # "absent"
  /\ Goto(p, "lock_user")
  /\ UNCHANGED <<tables, rowLock, making, body, reply, crashes, history>>

(* SELECT ... FROM cards JOIN users ... FOR UPDATE locks the card's row, *)
LockCard(p) ==
  LET c == body[p].card
  IN  /\ pc[p] = "lock_card"
      /\ rowLock[c] = NoOne
      /\ \/ status[c] # "absent" /\ TakeRow(p, c, "lock_user")
         \/ status[c] = "absent" /\ Rollback(p)

(* The status, the details and the limit. *)
CardPays(p) ==
  LET c == body[p].card
  IN  /\ status[c] = "ACTIVE"
      /\ body[p].valid
      /\ body[p].amount + spent[c] <= card[c].limit

(* and the user's; then the card is checked. *)
LockUser(p) ==
  LET u == card[body[p].card].user
  IN  /\ pc[p] = "lock_user"
      /\ rowLock[u] = NoOne
      /\ \/ CardPays(p) /\ TakeRow(p, u, "lock_wallet")
         \/ ~CardPays(p) /\ Rollback(p)

Wallet(p) == card[body[p].card].wallet

(* Mutation: the answer is sent before the commit. *)
AnswerBeforeCommit(p) ==
  /\ pc[p] = "lock_wallet"
  /\ rowLock[Wallet(p)] = NoOne
  /\ balance[Wallet(p)] >= body[p].amount
  /\ TakeRow(p, Wallet(p), "reply")

(* Mutation: the balance is not compared, and the debit has no CHECK. *)
LockWalletUnchecked(p) ==
  /\ pc[p] = "lock_wallet"
  /\ rowLock[Wallet(p)] = NoOne
  /\ TakeRow(p, Wallet(p), "commit")

(* Mutation: the wallet is read without FOR UPDATE. *)
ReadWalletUnlocked(p) ==
  /\ pc[p] = "lock_wallet"
  /\ \/ /\ balance[Wallet(p)] >= body[p].amount
        /\ Goto(p, "commit")
        /\ UNCHANGED <<tables, rowLock, making, body, reply, crashes, history>>
     \/ balance[Wallet(p)] < body[p].amount /\ Rollback(p)

(* SELECT ... FOR UPDATE on the wallet, and its balance. *)
LockWallet(p) ==
  /\ pc[p] = "lock_wallet"
  /\ rowLock[Wallet(p)] = NoOne
  /\ \/ balance[Wallet(p)] >= body[p].amount /\ TakeRow(p, Wallet(p), "commit")
     \/ balance[Wallet(p)] < body[p].amount /\ Rollback(p)

Row(p) == [id |-> p, card |-> body[p].card, wallet |-> Wallet(p), amount |-> body[p].amount]

(* Mutation: spent_amount is set to the amount, not raised by it. *)
ApplySettingSpent(p) ==
  /\ balance' = [balance EXCEPT ![Wallet(p)] = @ - body[p].amount]
  /\ spent' = [spent EXCEPT ![body[p].card] = body[p].amount]
  /\ transactions' = transactions \cup {Row(p)}
  /\ Release(p)
  /\ UNCHANGED <<status, card, making, body, crashes, history>>

(* The debit, spent_amount and the row of transactions. *)
ApplyPayment(p) ==
  /\ balance' = [balance EXCEPT ![Wallet(p)] = @ - body[p].amount]
  /\ spent' = [spent EXCEPT ![body[p].card] = @ + body[p].amount]
  /\ transactions' = transactions \cup {Row(p)}
  /\ Release(p)
  /\ UNCHANGED <<status, card, making, body, crashes, history>>

Commit(p) ==
  /\ pc[p] = "commit"
  /\ ApplyPayment(p)
  /\ Goto(p, "reply")
  /\ UNCHANGED reply

(* The commit happens but its acknowledgement is lost. *)
CommitUnacknowledged(p) ==
  /\ pc[p] = "commit"
  /\ ApplyPayment(p)
  /\ Answer(p, "error")

(* NotifyUser, which never blocks, and the answer. *)
Reply(p) ==
  /\ pc[p] = "reply"
  /\ Answer(p, "approved")
  /\ UNCHANGED <<tables, rowLock, making, body, crashes, history>>

TxSteps == {"lock_card", "lock_user", "lock_wallet", "commit"}

(* Any statement may fail and roll back. *)
Abort(p) == pc[p] \in TxSteps /\ Rollback(p)

-----------------------------------------------------------------------------
(* The server stops and restarts: requests are gone, open transactions are
   rolled back. *)
Crash ==
  /\ crashes < MaxCrashes
  /\ crashes' = crashes + 1
  /\ rowLock' = [n \in Rows |-> NoOne]
  /\ making' = [c \in Cards |-> IF making[c] = "insert" THEN "done" ELSE making[c]]
  /\ pc' = [p \in Payments |-> IF pc[p] = "idle" THEN "idle" ELSE "done"]
  /\ UNCHANGED <<tables, body, reply, history>>

PaymentStep(p) ==
  LockCard(p) \/ LockUser(p) \/ LockWallet(p) \/ Commit(p) \/ Reply(p)

(* Every request has been answered: the server idles. *)
Quiet ==
  /\ \A c \in Cards : making[c] = "done"
  /\ \A p \in Payments : pc[p] = "done"
  /\ UNCHANGED vars

Next ==
  \/ \E c \in Cards : \/ \E in \in CardInputs : CountCards(c, in)
                      \/ InsertCard(c)
                      \/ InsertFails(c)
                      \/ \E to \in {"ACTIVE", "FROZEN", "CLOSED"} : UpdateStatus(c, to)
  \/ \E p \in Payments : \/ \E in \in PayInputs : Submit(p, in)
                         \/ PaymentStep(p)
                         \/ CommitUnacknowledged(p)
                         \/ Abort(p)
  \/ Crash
  \/ Quiet

Spec == Init /\ [][Next]_vars

(* A goroutine that can run does run; nothing is assumed of clients and
   failures. *)
Fairness ==
  /\ \A p \in Payments : WF_vars(PaymentStep(p))
  /\ \A c \in Cards : WF_vars(InsertCard(c))

FairSpec == Spec /\ Fairness

-----------------------------------------------------------------------------
(* Properties. *)

(* Type correctness; in particular no balance is negative. *)
TypeOK ==
  /\ balance \in [Wallets -> Nat]
  /\ status \in [Cards -> {"absent", "ACTIVE", "FROZEN", "CLOSED"}]
  /\ card \in [Cards -> CardInputs \cup {NoCard}]
  /\ spent \in [Cards -> Nat]
  /\ transactions \subseteq [id : Payments, card : Cards, wallet : Wallets, amount : Nat]
  /\ rowLock \in [Rows -> Payments \cup {NoOne}]
  /\ making \in [Cards -> {"count", "insert", "done"}]
  /\ pc \in [Payments -> TxSteps \cup {"idle", "reply", "done"}]
  /\ body \in [Payments -> PayInputs \cup {NoBody}]
  /\ reply \in [Payments -> {"none", "approved", "error"}]
  /\ crashes \in 0 .. MaxCrashes
  /\ seen \in [Cards -> SUBSET Cards] /\ reopened \subseteq Cards

Total(rows) == SumFunction([t \in rows |-> t.amount])
PaidBy(c) == {t \in transactions : t.card = c}
TakenFrom(w) == {t \in transactions : t.wallet = w}

(* A card has spent what its recorded payments took, never more than its
   limit, and its wallet lost exactly that, although several payments of a
   card, and of cards that share a wallet, run at once. *)
SpendingMatchesRecords ==
  /\ \A c \in Cards : spent[c] = Total(PaidBy(c)) /\ spent[c] <= card[c].limit
  /\ \A w \in Wallets : balance[w] = Opening[w] - Total(TakenFrom(w))

(* A payment the client was told is approved is recorded, as it was asked. *)
ApprovedMeansRecorded ==
  \A p \in Payments : reply[p] = "approved" => Row(p) \in transactions

(* What a payment has checked still stands when it commits: in particular a
   card that was frozen or closed in the meantime does not pay. *)
ChecksHoldAtCommit ==
  \A p \in Payments : pc[p] = "commit" =>
    CardPays(p) /\ balance[Wallet(p)] >= body[p].amount

(* A wallet has two open cards only if both were counted before the other one
   was inserted, or if one of them was closed and activated again: the count
   refuses a second card in every other case. *)
TwoCardsOnlyByOverlapOrReopening ==
  \A c, d \in Open :
    (c # d /\ card[c].wallet = card[d].wallet) =>
      \/ c \notin seen[d] /\ d \notin seen[c]
      \/ {c, d} \cap reopened # {}

UnderWay ==
  \/ \E p \in Payments : pc[p] \notin {"idle", "done"}
  \/ \E c \in Cards : making[c] = "insert"

(* Every payment is answered, and every creation ends: card, user and wallet
   are locked in this order by all.  (There are finitely many, so each under
   way ends if and only if all do.) *)
RequestsAnswered == UnderWay ~> ~UnderWay
=============================================================================
