--------------------------- MODULE GatewayAccounts ---------------------------
(***************************************************************************)
(* The rows that card charges and hosted checkout share: the wallets, the  *)
(* two system accounts and the ledger, with the locks their UPDATEs take,  *)
(* the merchants and the fee split.  Amounts are in minor units.           *)
(***************************************************************************)
EXTENDS FiniteSetsExt, FixedWidth

CONSTANTS
  Users,
  Currencies,
  Wallets,
  WalletRow,     \* [user, currency, balance] of each wallet at the start
  Merchants,
  MerchantRow,   \* [wallet, bps]: settlement wallet, fee in basis points
  Seedings,      \* the sets of system accounts that seeding may have left
  MaxCrashes,    \* bound on the restarts of the server
  NoOne          \* the owner of a free lock

Accounts == {"clearing", "fee"}
Rows == Wallets \cup Accounts

Whole == 10000    \* of an amount, in basis points

ASSUME AccountsAssumption ==
  /\ WalletRow \in [Wallets -> [user : Users, currency : Currencies, balance : 0 .. MaxInt]]
  /\ MerchantRow \in [Merchants -> [wallet : Wallets, bps : 0 .. Whole]]
  /\ Seedings \subseteq SUBSET Accounts
  /\ MaxCrashes \in Nat

ASSUME NamesAssumption == Wallets \cap Accounts = {}

VARIABLES
  open,          \* the wallets whose deleted_at is NULL
  balance,       \* of the wallets
  clearing,      \* the balance of ACQUIRING_CLEARING
  fee,           \* the balance of PLATFORM_FEE_REVENUE
  ledger,        \* the rows of ledger_entries
  seeded,        \* the system accounts that exist
  rowLock,       \* who holds each row
  crashes

accounts == <<open, balance, clearing, fee, ledger, seeded>>

AccountsInit ==
  /\ open = Wallets
  /\ balance = [w \in Wallets |-> WalletRow[w].balance]
  /\ clearing = 0
  /\ fee = 0
  /\ ledger = {}
  /\ seeded \in Seedings
  /\ rowLock = [n \in Rows |-> NoOne]
  /\ crashes = 0

(* The product wraps for large amounts; the fee it gives then is too small, or
   negative. *)
FeeProduct(amount, m) == amount * MerchantRow[m].bps
FeeAmount(amount, m) == Quotient(Wrapped(FeeProduct(amount, m)), Whole)
NetAmount(amount, m) == Wrapped(amount - FeeAmount(amount, m))

(* Only a positive fee is credited, and it is lost if a payment finds no account
   for it. *)
FeeDue(amount, m) == IF FeeAmount(amount, m) > 0 THEN FeeAmount(amount, m) ELSE 0
FeeCredited(amount, m) == IF "fee" \in seeded THEN FeeDue(amount, m) ELSE 0

Settlement(m) == MerchantRow[m].wallet

(* A row is free to the transaction that already holds it. *)
RowFree(p, n) == rowLock[n] \in {NoOne, p}

(* WalletRepository.Delete, whose transaction holds a single row. *)
CloseWallet(w) ==
  /\ w \in open
  /\ rowLock[w] = NoOne
  /\ balance[w] = 0
  /\ open' = open \ {w}
  /\ UNCHANGED <<balance, clearing, fee, ledger, seeded, rowLock, crashes>>

(* The server stops and restarts: the database rolls back what its
   connections had open and frees every row. *)
Restart ==
  /\ crashes < MaxCrashes
  /\ crashes' = crashes + 1
  /\ rowLock' = [n \in Rows |-> NoOne]
  /\ UNCHANGED accounts

(* Type correctness of the shared rows; in particular no balance is negative. *)
AccountsTypeOK ==
  /\ open \subseteq Wallets
  /\ balance \in [Wallets -> Nat]
  /\ clearing \in Nat
  /\ fee \in Nat
  /\ seeded \in Seedings
  /\ crashes \in 0 .. MaxCrashes
=============================================================================
