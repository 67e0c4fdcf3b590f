--------------------------- MODULE AtomicTransfer ---------------------------
(***************************************************************************)
(* What the wallet service promises, without locks, keys in flight or      *)
(* requests: wallets are opened empty, closed only when empty, and a       *)
(* transfer under one transaction ID happens at most once, in one step,    *)
(* between two open wallets, covered by the balance of the first.          *)
(***************************************************************************)
EXTENDS ExchangeRate

CONSTANTS
  Users,
  Keys,          \* the transaction IDs a client can send
  Amounts,       \* the amounts a client can send, in minor units
  MaxWallet,     \* bound: the sequence issues the numbers 1 .. MaxWallet
  SeedCount,     \* the wallets 1 .. SeedCount exist at the start
  SeedWallet     \* their rows, [user, currency, balance] by number

Numbers == 1 .. MaxWallet

VARIABLES
  open,          \* the numbers of the open wallets
  user,          \* user[n]: the owner of wallet n
  currency,
  balance,       \* balance[n], in minor units
  seq,           \* the last wallet number issued
  transactions   \* the rows of the transactions table

vars == <<open, user, currency, balance, seq, transactions>>

Init ==
  /\ seq = SeedCount
  /\ open = {n \in Numbers : n <= SeedCount}
  /\ user = [n \in Numbers |-> SeedWallet[n].user]
  /\ currency = [n \in Numbers |-> SeedWallet[n].currency]
  /\ balance = [n \in Numbers |-> SeedWallet[n].balance]
  /\ transactions = {}

Open(u, c) ==
  /\ seq + 1 \in Numbers
  /\ seq' = seq + 1
  /\ open' = open \cup {seq + 1}
  /\ user' = [user EXCEPT ![seq + 1] = u]
  /\ currency' = [currency EXCEPT ![seq + 1] = c]
  /\ balance' = [balance EXCEPT ![seq + 1] = 0]
  /\ UNCHANGED transactions

Close(n) ==
  /\ n \in open
  /\ balance[n] = 0
  /\ open' = open \ {n}
  /\ UNCHANGED <<user, currency, balance, seq, transactions>>

Move(k, from, to, amount) ==
  /\ from # to
  /\ from \in open /\ to \in open
  /\ amount > 0
  /\ balance[from] >= amount
  /\ \A t \in transactions : t.id # k
  /\ \E converted \in Conversions(amount, currency[from], currency[to]) :
       /\ balance[to] + converted \in 0 .. MaxInt
       /\ balance' = [[balance EXCEPT ![from] = @ - amount] EXCEPT ![to] = @ + converted]
       /\ transactions' = transactions \cup
            {[id |-> k, from |-> from, to |-> to,
              amount |-> amount, converted |-> converted]}
  /\ UNCHANGED <<open, user, currency, seq>>

Next ==
  \/ \E u \in Users, c \in Currencies : Open(u, c)
  \/ \E n \in Numbers : Close(n)
  \/ \E k \in Keys, from, to \in Numbers, amount \in Amounts :
       Move(k, from, to, amount)

Spec == Init /\ [][Next]_vars
=============================================================================
