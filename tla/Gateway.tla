------------------------------- MODULE Gateway -------------------------------
(***************************************************************************)
(* Card charges, checkout payments and payments with virtual cards in one  *)
(* server: they meet on the wallets, on the fee account, on the users the  *)
(* wallets belong to and on wallets being deleted, and a restart ends all. *)
(* The rows of wallets and users are one table each: what Cards holds of   *)
(* them (cardLock), Checkout and Charge (rowLock) wait for, and they for   *)
(* it.                                                                     *)
(***************************************************************************)
EXTENDS GatewayAccounts

CONSTANTS Sessions, SessionInputs, Payments, PayInputs, NoTx,
          Charges, Keys, PaymentCards, ChargeInputs, NoKey, Today,
          Cards, CardInputs, CardPayments, CardPayInputs

(* Requests of different kinds have different IDs, and so do the rows that are
   locked; there are finitely many wallets. *)
ASSUME RequestsAssumption ==
  /\ Payments \cap Charges = {} /\ CardPayments \cap (Payments \cup Charges) = {}
  /\ Wallets \cap (Users \cup Cards) = {} /\ IsFiniteSet(Wallets)

VARIABLES order, status, payer, txID, late, transactions, sessionLock, pc, body,
          reply, announced,                          \* of Checkout
          charges, cache, stage, request, answer,    \* of Charge
          cardStatus, card, spent, cardTransactions, cardLock, making, cardPc,
          cardBody, cardReply, seen, reopened        \* of Cards

C == INSTANCE Checkout
H == INSTANCE Charge
D == INSTANCE Cards WITH
       Opening <- [w \in Wallets |-> WalletRow[w].balance],
       Payments <- CardPayments, PayInputs <- CardPayInputs,
       status <- cardStatus, transactions <- cardTransactions, rowLock <- cardLock,
       pc <- cardPc, body <- cardBody, reply <- cardReply

ASSUME PartsAssumption ==
  C!CheckoutAssumption /\ H!ChargeAssumption /\ H!TodayAssumption /\ D!CardsAssumption

checkoutVars == <<order, status, payer, txID, late, transactions, sessionLock,
                  pc, body, reply, announced>>
chargeVars == <<charges, cache, stage, request, answer>>
cardVars == <<cardStatus, card, spent, cardTransactions, cardLock, making, cardPc,
              cardBody, cardReply, seen, reopened>>
vars == <<accounts, rowLock, crashes, checkoutVars, chargeVars, cardVars>>

Init == AccountsInit /\ C!CheckoutInit /\ H!ChargeInit /\ D!Init

-----------------------------------------------------------------------------
(* Who waits for whom across the parts. *)

(* The card payments that hold what payment p locks next: a wallet, or the
   payer's row, which the UPDATE of the session refers to. *)
CardHolders(p) ==
  {q \in CardPayments :
     \/ \E w \in Wallets : C!WaitsFor(p, w) /\ cardLock[w] = q
     \/ pc[p] = "commit" /\ cardLock[body[p].user] = q}

(* The payment or charge that holds the wallet card payment p locks next. *)
WalletHolders(p) ==
  {q \in Payments \cup Charges : cardPc[p] = "lock_wallet" /\ rowLock[D!Wallet(p)] = q}

(* The card payment that holds the wallet charge c locks next. *)
CreditHolders(c) ==
  {q \in CardPayments :
     \E w \in Wallets : H!WaitsFor(c, w) /\ cardLock[w] = q}

Requests == Payments \cup Charges \cup CardPayments

Blocks(q, p) ==
  \/ p \in Payments /\ (C!Blocks(q, p) \/ q \in CardHolders(p))
  \/ p \in Charges /\ (H!Blocks(q, p) \/ q \in CreditHolders(p))
  \/ p \in CardPayments /\ q \in WalletHolders(p)

Waits(p) == \E q \in Requests : Blocks(q, p)

(* Mutation: the detector does not see the locks of charges. *)
DeadlockedWithoutCharges(p) ==
  \E circle \in SUBSET {q \in Payments \cup CardPayments : Waits(q)} :
    /\ p \in circle
    /\ \A q \in circle : \E r \in circle : Blocks(q, r)
    /\ \A q \in circle : \E r \in circle : Blocks(r, q)

(* The detector ends one of the requests that wait for one another, of whatever
   kinds.  (Card payments that wait for each other's cards are in no circle: the
   waiting one has at most a card, which nobody else waits for.) *)
Deadlocked(p) ==
  \E circle \in SUBSET {q \in Requests : Waits(q)} :
    /\ p \in circle
    /\ \A q \in circle : \E r \in circle : Blocks(q, r)
    /\ \A q \in circle : \E r \in circle : Blocks(r, q)

-----------------------------------------------------------------------------
(* The steps of each part, that leave the others alone. *)

CheckoutOnly == UNCHANGED <<chargeVars, cardVars>>
ChargeOnly == UNCHANGED <<checkoutVars, cardVars>>
CardsOnly ==
  UNCHANGED <<open, clearing, fee, ledger, seeded, rowLock, checkoutVars, chargeVars>>

Pay(p) ==
  /\ \/ CardHolders(p) = {} /\ C!PaymentStep(p)
     \/ Waits(p) /\ Deadlocked(p) /\ C!Rollback(p)
  /\ CheckoutOnly

CheckoutStep ==
  /\ \/ \E s \in Sessions : \/ \E in \in SessionInputs : C!CreateSession(s, in)
                            \/ C!PassDeadline(s)
     \/ \E p \in Payments : \/ \E in \in PayInputs : C!SubmitPay(p, in)
                            \/ CardHolders(p) = {} /\ C!CommitUnacknowledged(p)
                            \/ C!Abort(p)
  /\ CheckoutOnly

WalletFree(w) == cardLock[w] = NoOne

ChargeCard(c) ==
  /\ \/ CreditHolders(c) = {} /\ H!ChargeStep(c)
     \/ Waits(c) /\ Deadlocked(c) /\ H!RollbackSettlement(c)
  /\ ChargeOnly

ChargeStep ==
  /\ \E c \in Charges : \/ \E in \in ChargeInputs : H!SubmitCharge(c, in)
                        \/ H!AbortSettlement(c)
                        \/ H!MissRecord(c)
  /\ ChargeOnly

PayByCard(p) ==
  /\ \/ WalletHolders(p) = {} /\ D!PaymentStep(p)
     \/ Waits(p) /\ Deadlocked(p) /\ D!Rollback(p)
  /\ CardsOnly

(* The new card's foreign key waits for a payer's lock on the wallet, and not
   for the UPDATE of a settlement wallet. *)
IssueCard(c) ==
  /\ D!InsertCard(c)
  /\ \A p \in Payments : body[p].wallet = card[c].wallet => rowLock[card[c].wallet] # p
  /\ CardsOnly

CardStep ==
  /\ \/ \E c \in Cards : \/ \E in \in CardInputs : D!CountCards(c, in)
                         \/ D!InsertFails(c)
                         \/ \E to \in {"ACTIVE", "FROZEN", "CLOSED"} : D!UpdateStatus(c, to)
     \/ \E p \in CardPayments : \/ \E in \in CardPayInputs : D!Submit(p, in)
                                \/ D!CommitUnacknowledged(p)
                                \/ D!Abort(p)
  /\ CardsOnly

DeleteWallet(w) ==
  WalletFree(w) /\ CloseWallet(w) /\ UNCHANGED <<checkoutVars, chargeVars, cardVars>>

Crash == Restart /\ C!EndPayments /\ H!EndCharges /\ D!Crash

UnderWay ==
  \/ \E p \in Payments : pc[p] \notin {"idle", "done"}
  \/ \E c \in Charges : stage[c] \notin {"idle", "done"}
  \/ \E p \in CardPayments : cardPc[p] \notin {"idle", "done"}

(* Every request has been answered: the server idles. *)
Quiet == ~UnderWay /\ UNCHANGED vars

Next ==
  \/ CheckoutStep \/ \E p \in Payments : Pay(p)
  \/ ChargeStep \/ \E c \in Charges : ChargeCard(c)
  \/ CardStep \/ \E c \in Cards : IssueCard(c)
  \/ \E p \in CardPayments : PayByCard(p)
  \/ \E w \in Wallets : DeleteWallet(w)
  \/ Crash
  \/ Quiet

Spec == Init /\ [][Next]_vars

(* A goroutine that can run does run, and the detector ends circles; nothing
   is assumed of clients and failures. *)
Fairness ==
  /\ \A p \in Payments : WF_vars(Pay(p))
  /\ \A c \in Charges : WF_vars(ChargeCard(c))
  /\ \A p \in CardPayments : WF_vars(PayByCard(p))

FairSpec == Spec /\ Fairness

-----------------------------------------------------------------------------
(* Properties. *)

(* No fee so far was negative, as the wrapped product of a huge amount can be,
   or had no account to go to. *)
FeesReachAccount ==
  /\ \A r \in charges : r.fee >= 0
  /\ \A s \in C!PaidSessions :
       FeeCredited(order[s].amount, order[s].merchant)
         = FeeAmount(order[s].amount, order[s].merchant)

(* As long as the fees are whole, the money in all wallets and in the fee
   account is what was there at the start, less what virtual cards paid, plus
   what the card network paid in: requests that meet on a wallet or on the fee
   account create and destroy nothing. *)
MoneyConserved ==
  FeesReachAccount =>
    SumFunction(balance) + fee + SumFunction(spent)
      = SumFunction([w \in Wallets |-> WalletRow[w].balance]) + clearing

(* What a payment of either kind checked of a wallet holds when it commits,
   although the other kind spends from the same wallet; and no wallet is
   locked by two. *)
WalletsShared ==
  /\ C!ChecksHoldAtCommit /\ D!ChecksHoldAtCommit
  /\ \A w \in Wallets : NoOne \in {rowLock[w], cardLock[w]}

(* The parts of the server keep their promises together. *)
MoneySafe == MoneyConserved /\ WalletsShared

(* Every charge, payment and card payment is answered, although requests of two
   or of all three kinds can wait in a circle: payments over wallets, a payment
   and a card payment over a wallet and its user, and a charge that holds its
   wallet and waits for the fee account, a payment that holds the account and
   waits for its payer's row, and a card payment that holds that row and waits
   for the wallet.  (There are finitely many, so all under way are answered if
   and only if the server comes to rest.) *)
RequestsAnswered == UnderWay ~> ~UnderWay

(* What the fee account holds is what the ledger credited to it. *)
FeeRevenueInLedger ==
  fee = SumFunction([e \in {l \in ledger : l.account = "fee"} |-> e.amount])
=============================================================================
