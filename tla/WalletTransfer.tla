--------------------------- MODULE WalletTransfer ---------------------------
(***************************************************************************)
(* Wallets and wallet-to-wallet transfers: the transfer handler from the   *)
(* request to the reply, statement by statement where two requests can     *)
(* meet in PostgreSQL, the wallet deletion handler, wallet creation, and   *)
(* the in-memory queue and goroutine that post the transfer webhook.       *)
(*                                                                         *)
(* PostgreSQL (external) runs READ COMMITTED: a row lock and an uncommitted*)
(* unique key block others until commit or rollback, and a writer's rows   *)
(* are seen by others only after its commit.  A database transaction's own *)
(* writes are therefore applied to the tables in its Commit step; until    *)
(* then they are given by the step it has reached.                         *)
(***************************************************************************)
EXTENDS ExchangeRate, FiniteSetsExt, Sequences

CONSTANTS
  Users,
  Keys,          \* the transaction IDs a client can send
  Amounts,       \* the amounts a client can send, in minor units
  Inputs,        \* the bodies of the transfer requests under study
  Deletions,     \* the <<user, wallet number>> of the deletions under study
  Openings,      \* the <<user, currency>> of the wallets opened under study
  Transfers,     \* the transfer requests, one per goroutine
  Deletes,       \* the deletion requests
  MaxWallet,     \* bound: the sequence issues the numbers 1 .. MaxWallet
  SeedCount,     \* the wallets 1 .. SeedCount exist at the start
  SeedWallet,    \* their rows, [user, currency, balance] by number
  QueueCap,      \* the capacity of WebHookQueue
  WebhookURLSet, \* whether DEFAULT_WEBHOOK_URL is configured
  MaxCrashes,    \* bound on the restarts of the server
  NoKey,         \* the empty transaction ID
  NoOne          \* the owner of a free lock

Numbers == 1 .. MaxWallet
Procs == Transfers \cup Deletes

ASSUME BoundsAssumption ==
  /\ MaxWallet \in Nat
  /\ SeedCount \in 0 .. MaxWallet
  /\ QueueCap \in Nat \ {0}
  /\ MaxCrashes \in Nat
  /\ WebhookURLSet \in BOOLEAN

ASSUME InputsAssumption ==
  /\ Amounts \subseteq Int
  /\ Inputs \subseteq [key : Keys \cup {NoKey}, from : Numbers, to : Numbers,
                       amount : Amounts]
  /\ Deletions \subseteq Users \X Numbers
  /\ Openings \subseteq Users \X Currencies
  /\ SeedWallet \in [Numbers -> [user : Users, currency : Currencies,
                                 balance : Nat]]

ASSUME NamesAssumption ==
  /\ NoKey \notin Keys
  /\ NoOne \notin Procs
  /\ Transfers \cap Deletes = {}

VARIABLES
  status,        \* status[n]: "absent", "active" or "deleted"
  user,          \* user[n]: the owner of wallet n
  currency,
  balance,       \* balance[n], in minor units
  seq,           \* the last wallet number issued
  keys,          \* the committed rows of idempotency_keys
  transactions,  \* the committed rows of transactions
  keyLock,       \* keyLock[k]: who inserted k and has not ended
  rowLock,       \* rowLock[n]: who holds the row of wallet n
  pc,            \* pc[p]: the next step of request p
  req,           \* req[r]: the body of transfer request r
  target,        \* target[d]: the <<user, wallet>> deletion d names
  converted,     \* converted[r]: the amount Transfer computed before Begin
  reply,         \* reply[p]: what the client was told
  queue,         \* WebHookQueue
  posting,       \* the event sendWebhook is posting, or NoKey
  posted,        \* posted[k]: events of k taken from the queue
  crashes

tables == <<status, user, currency, balance, seq, keys, transactions>>
locks == <<keyLock, rowLock>>
webhooks == <<queue, posting, posted>>
vars == <<status, user, currency, balance, seq, keys, transactions, keyLock,
          rowLock, pc, req, target, converted, reply, queue, posting, posted,
          crashes>>

NoInput == [key |-> NoKey, from |-> 0, to |-> 0, amount |-> 0]
NoTarget == <<NoOne, 0>>

Init ==
  /\ seq = SeedCount
  /\ status = [n \in Numbers |-> IF n <= SeedCount THEN "active" ELSE "absent"]
  /\ user = [n \in Numbers |-> SeedWallet[n].user]
  /\ currency = [n \in Numbers |-> SeedWallet[n].currency]
  /\ balance = [n \in Numbers |-> SeedWallet[n].balance]
  /\ keys = {}
  /\ transactions = {}
  /\ keyLock = [k \in Keys |-> NoOne]
  /\ rowLock = [n \in Numbers |-> NoOne]
  /\ pc = [p \in Procs |-> "idle"]
  /\ req = [r \in Transfers |-> NoInput]
  /\ target = [d \in Deletes |-> NoTarget]
  /\ converted = [r \in Transfers |-> 0]
  /\ reply = [p \in Procs |-> "none"]
  /\ queue = <<>>
  /\ posting = NoKey
  /\ posted = [k \in Keys |-> 0]
  /\ crashes = 0

-----------------------------------------------------------------------------
(* Steps shared by the database transactions. *)

Goto(p, step) == pc' = [pc EXCEPT ![p] = step]

Answer(p, what) ==
  /\ Goto(p, "done")
  /\ reply' = [reply EXCEPT ![p] = what]

(* Mutation: row locks survive the database transaction. *)
ReleaseKeyOnly(p) ==
  /\ keyLock' = [k \in Keys |-> IF keyLock[k] = p THEN NoOne ELSE keyLock[k]]
  /\ UNCHANGED rowLock

(* The end of p's database transaction frees what it locked. *)
Release(p) ==
  /\ keyLock' = [k \in Keys |-> IF keyLock[k] = p THEN NoOne ELSE keyLock[k]]
  /\ rowLock' = [n \in Numbers |-> IF rowLock[n] = p THEN NoOne ELSE rowLock[n]]

(* The deferred tx.Rollback, then the error reply: no table changes. *)
Rollback(p, what) ==
  /\ Release(p)
  /\ Answer(p, what)
  /\ UNCHANGED <<tables, req, target, converted, webhooks, crashes>>

(* Mutation: SELECT without FOR UPDATE. *)
RowNeverBlocks(n) == TRUE

(* SELECT ... FOR UPDATE waits for the holder of the row. *)
RowFree(n) == rowLock[n] = NoOne

TakeRow(p, n, step) ==
  /\ rowLock' = [rowLock EXCEPT ![n] = p]
  /\ Goto(p, step)
  /\ UNCHANGED <<tables, keyLock, req, target, converted, reply, webhooks, crashes>>

-----------------------------------------------------------------------------
(* TransactionService.Transfer up to the repository. *)

Submit(r, in) ==
  /\ pc[r] = "idle"
  /\ req' = [req EXCEPT ![r] = in]
  /\ IF in.key = NoKey
       THEN Answer(r, "error")
       ELSE Goto(r, "read_sender") /\ UNCHANGED reply
  /\ UNCHANGED <<tables, locks, target, converted, webhooks, crashes>>

GetWalletByID(n) == status[n] = "active"

ReadSender(r) ==
  /\ pc[r] = "read_sender"
  /\ IF GetWalletByID(req[r].from)
       THEN Goto(r, "read_receiver") /\ UNCHANGED reply
       ELSE Answer(r, "error")
  /\ UNCHANGED <<tables, locks, req, target, converted, webhooks, crashes>>

(* The receiver's row, the rate, the conversion, and the first check of the
   repository, all before Begin. *)
ReadReceiver(r) ==
  LET in == req[r]
  IN  /\ pc[r] = "read_receiver"
      /\ \/ /\ GetWalletByID(in.to)
            /\ \E c \in Conversions(in.amount, currency[in.from], currency[in.to]) :
                 converted' = [converted EXCEPT ![r] = c]
            /\ IF in.from = in.to
                 THEN Answer(r, "error")
                 ELSE Goto(r, "insert_key") /\ UNCHANGED reply
         \/ /\ ~GetWalletByID(in.to)
            /\ Answer(r, "error")
            /\ UNCHANGED converted
      /\ UNCHANGED <<tables, locks, req, target, webhooks, crashes>>

-----------------------------------------------------------------------------
(* TransactionRepository.Transfer: one database transaction. *)

(* Mutation: the key is inserted with the pool, outside the transaction. *)
InsertKeyOutsideTx(r) ==
  LET k == req[r].key
  IN  /\ pc[r] = "insert_key"
      /\ \/ /\ k \in keys
            /\ Rollback(r, "duplicate")
         \/ /\ k \notin keys
            /\ keys' = keys \cup {k}
            /\ Goto(r, "lock_first")
            /\ UNCHANGED <<status, user, currency, balance, seq, transactions,
                           locks, req, target, converted, reply, webhooks, crashes>>

(* Mutation: a key in flight counts as processed. *)
InsertKeyNoWait(r) ==
  LET k == req[r].key
  IN  /\ pc[r] = "insert_key"
      /\ \/ /\ k \in keys \/ keyLock[k] # NoOne
            /\ Rollback(r, "duplicate")
         \/ /\ k \notin keys /\ keyLock[k] = NoOne
            /\ keyLock' = [keyLock EXCEPT ![k] = r]
            /\ Goto(r, "lock_first")
            /\ UNCHANGED <<tables, rowLock, req, target, converted, reply,
                           webhooks, crashes>>

(* Mutation: a processed key is taken for a success. *)
InsertKeyReplaysSuccess(r) ==
  LET k == req[r].key
  IN  /\ pc[r] = "insert_key"
      /\ keyLock[k] = NoOne
      /\ IF k \in keys
           THEN Goto(r, "push_webhook") /\ UNCHANGED keyLock
           ELSE keyLock' = [keyLock EXCEPT ![k] = r] /\ Goto(r, "lock_first")
      /\ UNCHANGED <<tables, rowLock, req, target, converted, reply, webhooks, crashes>>

(* INSERT ... ON CONFLICT DO NOTHING waits for a transaction that inserted
   the key and has not ended, then counts the rows it affected. *)
InsertKey(r) ==
  LET k == req[r].key
  IN  /\ pc[r] = "insert_key"
      /\ keyLock[k] = NoOne
      /\ \/ /\ k \in keys
            /\ Rollback(r, "duplicate")
         \/ /\ k \notin keys
            /\ keyLock' = [keyLock EXCEPT ![k] = r]
            /\ Goto(r, "lock_first")
            /\ UNCHANGED <<tables, rowLock, req, target, converted, reply,
                           webhooks, crashes>>

(* Mutation: the sender's row is locked first whatever the numbers are. *)
LockSenderFirst(r) == <<req[r].from, req[r].to>>

LockOrder(r) ==
  IF req[r].from > req[r].to
    THEN <<req[r].to, req[r].from>>
    ELSE <<req[r].from, req[r].to>>

FirstNumber(r) == LockOrder(r)[1]
SecondNumber(r) == LockOrder(r)[2]

LockFirst(r) ==
  LET n == FirstNumber(r)
  IN  /\ pc[r] = "lock_first"
      /\ RowFree(n)
      /\ \/ status[n] = "active" /\ TakeRow(r, n, "lock_second")
         \/ status[n] # "active" /\ Rollback(r, "error")

(* Mutation: the second row is locked whether or not it is deleted. *)
LockSecondEvenDeleted(r) ==
  LET n == SecondNumber(r)
  IN  pc[r] = "lock_second" /\ RowFree(n) /\ TakeRow(r, n, "debit")

LockSecond(r) ==
  LET n == SecondNumber(r)
  IN  /\ pc[r] = "lock_second"
      /\ RowFree(n)
      /\ \/ status[n] = "active" /\ TakeRow(r, n, "debit")
         \/ status[n] # "active" /\ Rollback(r, "error")

(* A statement of r that passes its WHERE clause and its CHECK constraint,
   or fails and rolls back. *)
Statement(r, ok, step) ==
  \/ /\ ok
     /\ Goto(r, step)
     /\ UNCHANGED <<tables, locks, req, target, converted, reply, webhooks, crashes>>
  \/ ~ok /\ Rollback(r, "error")

(* UPDATE ... WHERE balance >= amount *)
Debit(r) ==
  pc[r] = "debit" /\ Statement(r, balance[req[r].from] >= req[r].amount, "credit")

(* CHECK (balance >= 0) on the credited row, and the range of BIGINT *)
Credit(r) ==
  pc[r] = "credit" /\ Statement(r, balance[req[r].to] + converted[r] \in 0 .. MaxInt, "insert_tx")

(* Mutation: the event is announced before the commit. *)
AnnounceBeforeCommit(r) ==
  pc[r] = "insert_tx" /\ Statement(r, req[r].amount > 0, "push_webhook")

(* PRIMARY KEY (id), CHECK (amount > 0) *)
InsertTransaction(r) ==
  /\ pc[r] = "insert_tx"
  /\ Statement(r, /\ req[r].amount > 0
                  /\ \A t \in transactions : t.id # req[r].key, "commit")

Row(r) == [id |-> req[r].key, from |-> req[r].from, to |-> req[r].to,
           amount |-> req[r].amount, converted |-> converted[r]]

(* Mutation: the receiver is credited with the sender's amount. *)
CommitUnconverted(r) ==
  /\ balance' = [[balance EXCEPT ![req[r].from] = @ - req[r].amount]
                    EXCEPT ![req[r].to] = @ + req[r].amount]
  /\ keys' = keys \cup {req[r].key}
  /\ transactions' = transactions \cup {Row(r)}
  /\ Release(r)
  /\ UNCHANGED <<status, user, currency, seq, req, target, converted, webhooks, crashes>>

ApplyCommit(r) ==
  /\ balance' = [[balance EXCEPT ![req[r].from] = @ - req[r].amount]
                    EXCEPT ![req[r].to] = @ + converted[r]]
  /\ keys' = keys \cup {req[r].key}
  /\ transactions' = transactions \cup {Row(r)}
  /\ Release(r)
  /\ UNCHANGED <<status, user, currency, seq, req, target, converted, webhooks, crashes>>

Commit(r) ==
  /\ pc[r] = "commit"
  /\ ApplyCommit(r)
  /\ Goto(r, "push_webhook")
  /\ UNCHANGED reply

(* The commit reaches the database but its acknowledgement does not reach
   tx.Commit (the request's context ends, the connection drops): Transfer
   returns the error. *)
CommitUnacknowledged(r) ==
  /\ pc[r] = "commit"
  /\ ApplyCommit(r)
  /\ Answer(r, "error")

DatabaseSteps ==
  {"read_sender", "read_receiver", "insert_key", "lock_first", "lock_second", "debit",
   "credit", "insert_tx", "commit", "del_lock", "del_check", "del_commit"}

(* Any read and any statement of a database transaction may return an error. *)
Abort(p) == pc[p] \in DatabaseSteps /\ Rollback(p, "error")

(* The blocking send on WebHookQueue, then NotifyUser, which never blocks. *)
PushWebhook(r) ==
  /\ pc[r] = "push_webhook"
  /\ Len(queue) < QueueCap
  /\ queue' = Append(queue, req[r].key)
  /\ Answer(r, "ok")
  /\ UNCHANGED <<tables, locks, req, target, converted, posting, posted, crashes>>

-----------------------------------------------------------------------------
(* WalletRepository.Delete and Create. *)

SubmitDelete(d, in) ==
  /\ pc[d] = "idle"
  /\ target' = [target EXCEPT ![d] = in]
  /\ Goto(d, "del_lock")
  /\ UNCHANGED <<tables, locks, req, converted, reply, webhooks, crashes>>

(* Mutation: the balance is read without locking the row. *)
DeleteReadUnlocked(d) ==
  LET n == target[d][2]
      found == status[n] = "active" /\ user[n] = target[d][1]
  IN  /\ pc[d] = "del_lock"
      /\ IF found THEN Goto(d, "del_check") /\ UNCHANGED reply ELSE Answer(d, "error")
      /\ UNCHANGED <<tables, locks, req, target, converted, webhooks, crashes>>

DeleteLock(d) ==
  LET n == target[d][2]
      found == status[n] = "active" /\ user[n] = target[d][1]
  IN  /\ pc[d] = "del_lock"
      /\ RowFree(n)
      /\ \/ found /\ TakeRow(d, n, "del_check")
         \/ ~found /\ Rollback(d, "error")

DeleteCheck(d) ==
  /\ pc[d] = "del_check"
  /\ Statement(d, ~(balance[target[d][2]] > 0), "del_commit")

DeleteCommit(d) ==
  /\ pc[d] = "del_commit"
  /\ status' = [status EXCEPT ![target[d][2]] = "deleted"]
  /\ Release(d)
  /\ Answer(d, "ok")
  /\ UNCHANGED <<user, currency, balance, seq, keys, transactions, req, target,
                 converted, webhooks, crashes>>

(* UNIQUE (user_id, currency, deleted_at) never matches two rows whose
   deleted_at is NULL, so the INSERT does not fail. *)
CreateWallet(u, c) ==
  /\ seq < MaxWallet
  /\ seq' = seq + 1
  /\ status' = [status EXCEPT ![seq + 1] = "active"]
  /\ user' = [user EXCEPT ![seq + 1] = u]
  /\ currency' = [currency EXCEPT ![seq + 1] = c]
  /\ balance' = [balance EXCEPT ![seq + 1] = 0]
  /\ UNCHANGED <<keys, transactions, locks, pc, req, target, converted, reply,
                 webhooks, crashes>>

-----------------------------------------------------------------------------
(* The goroutine of StartWebhookWorker that drains WebHookQueue. *)

TakeWebhook ==
  /\ posting = NoKey
  /\ queue # <<>>
  /\ queue' = Tail(queue)
  /\ posted' = [posted EXCEPT ![Head(queue)] = @ + 1]
  /\ posting' = IF WebhookURLSet THEN Head(queue) ELSE NoKey
  /\ UNCHANGED <<tables, locks, pc, req, target, converted, reply, crashes>>

(* http.Post returns; it has no timeout. *)
PostReturns ==
  /\ posting # NoKey
  /\ posting' = NoKey
  /\ UNCHANGED <<tables, locks, pc, req, target, converted, reply, queue,
                 posted, crashes>>

-----------------------------------------------------------------------------
(* The server stops and restarts: requests and the queue are gone, and the
   database rolls back what their connections had open. *)
Crash ==
  /\ crashes < MaxCrashes
  /\ crashes' = crashes + 1
  /\ pc' = [p \in Procs |-> IF pc[p] = "idle" THEN "idle" ELSE "done"]
  /\ keyLock' = [k \in Keys |-> NoOne]
  /\ rowLock' = [n \in Numbers |-> NoOne]
  /\ queue' = <<>>
  /\ posting' = NoKey
  /\ UNCHANGED <<tables, req, target, converted, reply, posted>>

(* Every request has been answered and every event taken: the server idles. *)
Quiet ==
  /\ \A p \in Procs : pc[p] = "done"
  /\ queue = <<>> /\ posting = NoKey
  /\ UNCHANGED vars

TransferStep(r) ==
  \/ ReadSender(r) \/ ReadReceiver(r) \/ InsertKey(r)
  \/ LockFirst(r) \/ LockSecond(r) \/ Debit(r) \/ Credit(r)
  \/ InsertTransaction(r) \/ Commit(r) \/ PushWebhook(r)

DeleteStep(d) == DeleteLock(d) \/ DeleteCheck(d) \/ DeleteCommit(d)

Next ==
  \/ \E r \in Transfers : \/ \E in \in Inputs : Submit(r, in)
                          \/ TransferStep(r)
                          \/ CommitUnacknowledged(r)
  \/ \E d \in Deletes : \/ \E in \in Deletions : SubmitDelete(d, in)
                        \/ DeleteStep(d)
  \/ \E p \in Procs : Abort(p)
  \/ \E in \in Openings : CreateWallet(in[1], in[2])
  \/ TakeWebhook
  \/ PostReturns
  \/ Crash
  \/ Quiet

Spec == Init /\ [][Next]_vars

(* A goroutine that can run does run, and the webhook goroutine takes the
   next event.  Nothing is assumed of http.Post, of aborts or of crashes. *)
Fairness ==
  /\ \A r \in Transfers : WF_vars(TransferStep(r))
  /\ \A d \in Deletes : WF_vars(DeleteStep(d))
  /\ WF_vars(TakeWebhook)

FairSpec == Spec /\ Fairness

-----------------------------------------------------------------------------
(* Properties. *)

Steps == {"idle", "push_webhook", "done"} \cup DatabaseSteps

(* Type correctness of the tables, the locks and the requests. *)
TypeOK ==
  /\ status \in [Numbers -> {"absent", "active", "deleted"}]
  /\ user \in [Numbers -> Users]
  /\ currency \in [Numbers -> Currencies]
  /\ balance \in [Numbers -> Nat]
  /\ seq \in SeedCount .. MaxWallet
  /\ keys \subseteq Keys
  /\ transactions \subseteq [id : Keys, from : Numbers, to : Numbers,
                             amount : Amounts, converted : Int]
  /\ keyLock \in [Keys -> Transfers \cup {NoOne}]
  /\ rowLock \in [Numbers -> Procs \cup {NoOne}]
  /\ pc \in [Procs -> Steps]
  /\ req \in [Transfers -> Inputs \cup {NoInput}]
  /\ target \in [Deletes -> Deletions \cup {NoTarget}]
  /\ converted \in [Transfers -> Int]
  /\ reply \in [Procs -> {"none", "ok", "duplicate", "error"}]
  /\ queue \in Seq(Keys)
  /\ posting \in Keys \cup {NoKey}
  /\ posted \in [Keys -> Nat]
  /\ crashes \in 0 .. MaxCrashes

(* What each recorded transfer brought to wallet n, less what it took. *)
Effect(n) ==
  [t \in transactions |-> (IF t.to = n THEN t.converted ELSE 0)
                           - (IF t.from = n THEN t.amount ELSE 0)]

NetOf(n) == SumFunction(Effect(n))

(* Every balance is the opening balance plus what the recorded transfers
   brought less what they took: no update is lost when two requests meet on a
   row, none is applied twice, and none is applied without its record. *)
BalancesMatchHistory ==
  \A n \in Numbers :
    LET opening == IF n <= SeedCount THEN SeedWallet[n].balance ELSE 0
    IN  status[n] # "absent" => balance[n] = opening + NetOf(n)

(* The idempotency keys are exactly the IDs of the recorded transfers, and an
   ID is recorded once: a key never outlives a rolled-back transfer, which
   would make every retry fail, and no transfer is recorded under two rows. *)
KeysMatchTransactions ==
  /\ keys = {t.id : t \in transactions}
  /\ \A t, u \in transactions : t.id = u.id => t = u

(* A client is told that its transfer was already processed only when a
   transfer with its ID is recorded, even when the first request was still
   running when the second one arrived. *)
DuplicateMeansRecorded ==
  \A r \in Transfers : reply[r] = "duplicate" => req[r].key \in keys

(* A client is told that the transfer succeeded only when this very transfer
   is recorded, and of the requests that share an ID only one is told so. *)
SuccessMeansRecorded ==
  /\ \A r \in Transfers : reply[r] = "ok" => Row(r) \in transactions
  /\ \A r, s \in Transfers :
       /\ reply[r] = "ok" /\ reply[s] = "ok"
       /\ req[r].key = req[s].key
       => r = s

(* A deleted wallet holds no money, although a transfer may read the wallet
   as active before it is deleted and reach the database after. *)
DeletedWalletsEmpty ==
  \A n \in Numbers : status[n] = "deleted" => balance[n] = 0

(* The checks a transfer made stay true until its commit: the wallets are
   active, the balance covers the amount, the key is unused, and the amount
   converted before Begin is one that the wallets' currencies give. *)
ChecksHoldAtCommit ==
  \A r \in Transfers : pc[r] = "commit" =>
    /\ status[req[r].from] = "active" /\ status[req[r].to] = "active"
    /\ balance[req[r].from] >= req[r].amount
    /\ req[r].key \notin keys
    /\ converted[r] \in Conversions(req[r].amount, currency[req[r].from],
                                    currency[req[r].to])

(* The row request p is waiting to lock. *)
WaitsFor(p, n) ==
  \/ p \in Transfers /\ pc[p] = "lock_first" /\ n = FirstNumber(p)
  \/ p \in Transfers /\ pc[p] = "lock_second" /\ n = SecondNumber(p)
  \/ p \in Deletes /\ pc[p] = "del_lock" /\ n = target[p][2]

(* Along a chain of waiting requests the row numbers ascend, so the chain
   never closes: transfers and deletions cannot deadlock on wallet rows. *)
WaitChainsAscend ==
  \A p, q \in Procs : \A m, n \in Numbers :
    (WaitsFor(p, m) /\ rowLock[m] = q /\ WaitsFor(q, n)) => m < n

(* No two webhook events are ever sent for one ID, and none for a transfer
   that is not recorded. *)
WebhookOncePerTransfer ==
  \A k \in Keys :
    LET events == posted[k] + Cardinality({i \in DOMAIN queue : queue[i] = k})
    IN  events <= 1 /\ (events = 1 => k \in keys)

(* A request that was sent is answered, as long as posting an event to the
   default webhook URL cannot block (no URL is configured). *)
RequestsAnswered ==
  \A p \in Procs : pc[p] # "idle" ~> pc[p] = "done"

(* A user has at most one open wallet per currency. *)
OneWalletPerCurrency ==
  \A m, n \in Numbers :
    (/\ status[m] = "active" /\ status[n] = "active"
     /\ user[m] = user[n] /\ currency[m] = currency[n]) => m = n

-----------------------------------------------------------------------------
(* The inductive invariant behind the safety properties. *)

KeySteps == {"lock_first", "lock_second", "debit", "credit", "insert_tx", "commit"}
FirstSteps == KeySteps \ {"lock_first"}
SecondSteps == FirstSteps \ {"lock_second"}
CheckedSteps == {"credit", "insert_tx", "commit"}

(* A request past the first check of the service has a body with a key, each
   kind of request goes through its own steps, and a number read as a wallet
   stays one. *)
BodiesKnown ==
  /\ \A r \in Transfers :
       /\ pc[r] \notin {"idle", "done"} => req[r] \in Inputs /\ req[r].key # NoKey
       /\ pc[r] \notin {"del_lock", "del_check", "del_commit"}
       /\ pc[r] \in {"read_receiver", "insert_key"} \cup KeySteps
            => req[r].from <= seq
       /\ pc[r] \in {"insert_key"} \cup KeySteps => req[r].to <= seq
  /\ \A d \in Deletes :
       /\ pc[d] \in {"idle", "del_lock", "del_check", "del_commit", "done"}
       /\ pc[d] \notin {"idle", "done"} => target[d] \in Deletions
  /\ \A n \in Numbers : status[n] = "absent" <=> n > seq

(* Who is at which step holds which locks. *)
StepsHoldLocks ==
  /\ \A r \in Transfers :
       /\ pc[r] \in KeySteps => keyLock[req[r].key] = r
       /\ pc[r] \in FirstSteps => rowLock[FirstNumber(r)] = r
       /\ pc[r] \in SecondSteps => rowLock[SecondNumber(r)] = r
  /\ \A d \in Deletes :
       pc[d] \in {"del_check", "del_commit"} => rowLock[target[d][2]] = d

(* Nobody else holds any. *)
LocksHaveHolders ==
  /\ \A n \in Numbers : \A r \in Transfers : rowLock[n] = r =>
       \/ pc[r] = "lock_second" /\ n = FirstNumber(r)
       \/ pc[r] \in SecondSteps /\ n \in {req[r].from, req[r].to}
  /\ \A n \in Numbers : \A d \in Deletes : rowLock[n] = d =>
       pc[d] \in {"del_check", "del_commit"} /\ n = target[d][2]
  /\ \A k \in Keys : \A r \in Transfers : keyLock[k] = r =>
       pc[r] \in KeySteps /\ k = req[r].key

(* What a request has checked stays true while it holds the locks. *)
ChecksStand ==
  /\ \A r \in Transfers :
       /\ pc[r] \in {"insert_key"} \cup KeySteps =>
            /\ req[r].from # req[r].to
            /\ converted[r] \in Conversions(req[r].amount,
                 currency[req[r].from], currency[req[r].to])
       /\ pc[r] \in KeySteps => req[r].key \notin keys
       /\ pc[r] \in FirstSteps => status[FirstNumber(r)] = "active"
       /\ pc[r] \in SecondSteps => status[SecondNumber(r)] = "active"
       /\ pc[r] \in CheckedSteps => balance[req[r].from] >= req[r].amount
       /\ pc[r] \in {"insert_tx", "commit"} =>
            balance[req[r].to] + converted[r] \in 0 .. MaxInt
       /\ pc[r] = "commit" => req[r].amount > 0
  /\ \A d \in Deletes :
       /\ pc[d] \in {"del_check", "del_commit"} => status[target[d][2]] = "active"
       /\ pc[d] = "del_commit" => balance[target[d][2]] = 0

(* What is committed, and who was told so. *)
Reported(r) == pc[r] = "push_webhook" \/ reply[r] = "ok"

RecordsAgree ==
  /\ KeysMatchTransactions
  /\ DuplicateMeansRecorded
  /\ DeletedWalletsEmpty
  /\ \A r \in Transfers : Reported(r) => Row(r) \in transactions
  /\ \A r, s \in Transfers :
       Reported(r) /\ Reported(s) /\ req[r].key = req[s].key => r = s
  /\ \A r \in Transfers : reply[r] # "none" => pc[r] = "done"

(* The locks held at every step, the checks they protect and the records they
   produce, together: this is preserved by every step of every request. *)
IInv ==
  /\ TypeOK
  /\ BodiesKnown
  /\ StepsHoldLocks
  /\ LocksHaveHolders
  /\ ChecksStand
  /\ RecordsAgree

(* The service implements the atomic transfers of AtomicTransfer; a wallet
   deleted there is not told from one not yet created. *)
OpenNumbers == {n \in Numbers : status[n] = "active"}
Atomic == INSTANCE AtomicTransfer WITH open <- OpenNumbers
ImplementsAtomic == Atomic!Spec
=============================================================================
