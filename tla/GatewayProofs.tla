---------------------------- MODULE GatewayProofs ----------------------------
(***************************************************************************)
(* Proofs about Gateway, for any number of requests of each kind, wallets, *)
(* users, merchants and restarts.  Each part is proved to take the steps   *)
(* it takes alone, on the rows as its own requests have locked them, and   *)
(* to tolerate what the other parts do to the wallets: its invariant, from *)
(* its own module, is then the gateway's.                                  *)
(***************************************************************************)
EXTENDS Gateway, Sums, FiniteSetTheorems, TLAPS

(* The locks that requests of one kind hold. *)
HeldBy(requests) == [n \in Rows |-> IF rowLock[n] \in requests THEN rowLock[n] ELSE NoOne]
CheckoutLock == HeldBy(Payments)
ChargeLock == HeldBy(Charges)

CP == INSTANCE CheckoutProofs WITH rowLock <- CheckoutLock
HP == INSTANCE ChargeProofs WITH
        rowLock <- ChargeLock, disorder <- {}, Drawn <- {}, number <- <<>>
DP == INSTANCE CardsProofs WITH
        Opening <- [w \in Wallets |-> WalletRow[w].balance],
        Payments <- CardPayments, PayInputs <- CardPayInputs,
        status <- cardStatus, transactions <- cardTransactions, rowLock <- cardLock,
        pc <- cardPc, body <- cardBody, reply <- cardReply

LEMMA AccountsOfCheckout == CP!AccountsAssumption
<1>1. 0 .. Whole = 0 .. CP!Whole
  BY DEF Whole, CP!Whole
<1>2. MerchantRow \in [Merchants -> [wallet : Wallets, bps : 0 .. Whole]]
  BY AccountsAssumption, Zenon
<1>3. MerchantRow \in [Merchants -> [wallet : Wallets, bps : 0 .. CP!Whole]]
  BY <1>1, <1>2, Zenon
<1>4. /\ WalletRow \in [Wallets -> [user : Users, currency : Currencies, balance : 0 .. MaxInt]]
      /\ MaxCrashes \in Nat /\ Seedings \subseteq SUBSET Accounts
  BY AccountsAssumption, Zenon
<1>5. Seedings \subseteq SUBSET CP!Accounts
  BY <1>4 DEF Accounts, CP!Accounts
<1> QED
  BY <1>3, <1>4, <1>5, Zenon DEF CP!AccountsAssumption

LEMMA AccountsOfCharges == HP!AccountsAssumption
<1>1. 0 .. Whole = 0 .. HP!Whole
  BY DEF Whole, HP!Whole
<1>2. MerchantRow \in [Merchants -> [wallet : Wallets, bps : 0 .. Whole]]
  BY AccountsAssumption, Zenon
<1>3. MerchantRow \in [Merchants -> [wallet : Wallets, bps : 0 .. HP!Whole]]
  BY <1>1, <1>2, Zenon
<1>4. /\ WalletRow \in [Wallets -> [user : Users, currency : Currencies, balance : 0 .. MaxInt]]
      /\ MaxCrashes \in Nat /\ Seedings \subseteq SUBSET Accounts
  BY AccountsAssumption, Zenon
<1>5. Seedings \subseteq SUBSET HP!Accounts
  BY <1>4 DEF Accounts, HP!Accounts
<1> QED
  BY <1>3, <1>4, <1>5, Zenon DEF HP!AccountsAssumption

LEMMA WidthOfCheckout == CP!MaxIntAssumption
BY MaxIntAssumption DEF CP!MaxIntAssumption

LEMMA WidthOfCharges == HP!MaxIntAssumption
BY MaxIntAssumption DEF HP!MaxIntAssumption

LEMMA NamesOfCheckout == CP!NamesAssumption
BY NamesAssumption DEF CP!NamesAssumption, CP!Accounts, Accounts

LEMMA NamesOfCharges == HP!NamesAssumption
BY NamesAssumption DEF HP!NamesAssumption, HP!Accounts, Accounts

LEMMA InputsOfCheckout == CP!CheckoutAssumption
BY PartsAssumption DEF C!CheckoutAssumption, CP!CheckoutAssumption

LEMMA InputsOfCharges == HP!ChargeAssumption
BY PartsAssumption DEF H!ChargeAssumption, HP!ChargeAssumption

LEMMA DateOfCharges == HP!TodayAssumption
BY PartsAssumption DEF H!TodayAssumption, HP!TodayAssumption

LEMMA DrawnOfCharges == HP!DrawnAssumption
BY DEF HP!DrawnAssumption

LEMMA InputsOfCards == DP!CardsAssumption
BY PartsAssumption DEF D!CardsAssumption, DP!CardsAssumption, D!IsFiniteSet, DP!IsFiniteSet

-----------------------------------------------------------------------------
(* Checkout's steps are its own steps on the locks its payments hold. *)

LEMMA LocksStay == UNCHANGED rowLock => UNCHANGED <<CheckoutLock, ChargeLock>>
BY DEF CheckoutLock, ChargeLock, HeldBy

LocksTyped == rowLock \in [Rows -> Payments \cup Charges \cup {NoOne}]

LEMMA NoOneIsNoRequest == NoOne \notin Payments /\ NoOne \notin Charges /\ NoOne \notin CardPayments
BY InputsOfCheckout, InputsOfCharges, InputsOfCards
DEF CP!CheckoutAssumption, HP!ChargeAssumption, DP!CardsAssumption

LEMMA CheckoutReleases ==
  ASSUME LocksTyped, NEW p \in Payments, C!Release(p)
  PROVE  CP!Release(p) /\ UNCHANGED ChargeLock /\ LocksTyped'
<1>1. Rows = C!Rows /\ Rows = CP!Rows
  BY DEF Rows, C!Rows, CP!Rows, Accounts, C!Accounts, CP!Accounts
<1>2. rowLock' = [n \in Rows |-> IF rowLock[n] = p THEN NoOne ELSE rowLock[n]]
  BY <1>1 DEF C!Release
<1>3. CheckoutLock' = [n \in Rows |-> IF CheckoutLock[n] = p THEN NoOne ELSE CheckoutLock[n]]
  BY <1>2, NoOneIsNoRequest DEF CheckoutLock, HeldBy
<1>4. ChargeLock' = ChargeLock
  BY <1>2, NoOneIsNoRequest, RequestsAssumption DEF ChargeLock, HeldBy
<1>5. LocksTyped'
  BY <1>2 DEF LocksTyped
<1> QED
  BY <1>1, <1>3, <1>4, <1>5 DEF C!Release, CP!Release

LEMMA CheckoutTakes ==
  ASSUME LocksTyped, NEW p \in Payments, NEW n \in Rows, NEW step, C!TakeRow(p, n, step),
         C!RowFree(p, n)
  PROVE  CP!TakeRow(p, n, step) /\ CP!RowFree(p, n) /\ UNCHANGED ChargeLock /\ LocksTyped'
<1>1. rowLock' = [rowLock EXCEPT ![n] = p]
  BY DEF C!TakeRow
<1>2. CheckoutLock' = [CheckoutLock EXCEPT ![n] = p]
  BY <1>1 DEF CheckoutLock, HeldBy, LocksTyped
<1>3. C!RowFree(p, n) => UNCHANGED ChargeLock
  BY <1>1, NoOneIsNoRequest, RequestsAssumption DEF ChargeLock, HeldBy, LocksTyped, C!RowFree
<1>4. LocksTyped'
  BY <1>1 DEF LocksTyped
<1>5. CP!RowFree(p, n)
  BY DEF C!RowFree, CP!RowFree, CheckoutLock, HeldBy
<1> QED
  BY <1>2, <1>3, <1>4, <1>5 DEF C!TakeRow, CP!TakeRow, C!Goto, CP!Goto, C!accounts, CP!accounts,
     C!sessions, CP!sessions

LEMMA CheckoutRollsBack ==
  ASSUME LocksTyped, NEW p \in Payments, C!Rollback(p)
  PROVE  CP!Rollback(p) /\ UNCHANGED ChargeLock /\ LocksTyped'
<1>1. CP!Release(p) /\ UNCHANGED ChargeLock /\ LocksTyped'
  BY CheckoutReleases DEF C!Rollback
<1> QED
  BY <1>1 DEF C!Rollback, CP!Rollback, C!Answer, CP!Answer, C!Goto, CP!Goto, C!accounts,
     CP!accounts, C!sessions, CP!sessions

LEMMA CheckoutLocksSession ==
  ASSUME LocksTyped, NEW p \in Payments, C!LockSession(p)
  PROVE  CP!LockSession(p) /\ UNCHANGED ChargeLock /\ LocksTyped'
<1> DEFINE s == body[p].session
           payable == status[s] = "PENDING" /\ s \notin late
<1>1. CASE payable
  <2>1. UNCHANGED rowLock
    BY <1>1 DEF C!LockSession
  <2>2. LocksTyped' /\ UNCHANGED <<CheckoutLock, ChargeLock>>
    BY <2>1, LocksStay DEF LocksTyped
  <2> QED
    BY <1>1, <2>2 DEF C!LockSession, CP!LockSession, C!Goto, CP!Goto, C!accounts,
       CP!accounts, C!sessions, CP!sessions
<1>2. CASE ~payable
  <2>1. C!Rollback(p)
    BY <1>2 DEF C!LockSession
  <2>2. CP!Rollback(p) /\ UNCHANGED ChargeLock /\ LocksTyped'
    BY <2>1, CheckoutRollsBack
  <2> QED
    BY <1>2, <2>2 DEF C!LockSession, CP!LockSession
<1> QED
  BY <1>1, <1>2

(* The arithmetic is the same in all instances. *)
LEMMA SameWidth ==
  \A x, y : /\ C!Wrapped(x) = Wrapped(x) /\ CP!Wrapped(x) = Wrapped(x)
            /\ H!Wrapped(x) = Wrapped(x) /\ HP!Wrapped(x) = Wrapped(x)
            /\ C!Quotient(x, y) = Quotient(x, y) /\ CP!Quotient(x, y) = Quotient(x, y)
            /\ H!Quotient(x, y) = Quotient(x, y) /\ HP!Quotient(x, y) = Quotient(x, y)
BY DEF Wrapped, C!Wrapped, CP!Wrapped, H!Wrapped, HP!Wrapped, Int64, C!Int64, CP!Int64, H!Int64,
       HP!Int64, Width, C!Width, CP!Width, H!Width, HP!Width, Quotient, C!Quotient, CP!Quotient,
       H!Quotient, HP!Quotient

LEMMA SameFees ==
  \A amount, m : /\ C!FeeAmount(amount, m) = FeeAmount(amount, m)
                 /\ CP!FeeAmount(amount, m) = FeeAmount(amount, m)
                 /\ C!NetAmount(amount, m) = NetAmount(amount, m)
                 /\ CP!NetAmount(amount, m) = NetAmount(amount, m)
                 /\ C!FeeCredited(amount, m) = FeeCredited(amount, m)
                 /\ CP!FeeCredited(amount, m) = FeeCredited(amount, m)
                 /\ C!Settlement(m) = Settlement(m) /\ CP!Settlement(m) = Settlement(m)
<1> TAKE amount, m
<1>1. C!FeeAmount(amount, m) = FeeAmount(amount, m) /\ CP!FeeAmount(amount, m) = FeeAmount(amount, m)
  <2>1. /\ C!FeeProduct(amount, m) = FeeProduct(amount, m)
        /\ CP!FeeProduct(amount, m) = FeeProduct(amount, m)
        /\ C!Whole = Whole /\ CP!Whole = Whole
    BY DEF C!FeeProduct, CP!FeeProduct, FeeProduct, C!Whole, CP!Whole, Whole
  <2> QED
    BY <2>1, SameWidth, Zenon DEF C!FeeAmount, CP!FeeAmount, FeeAmount
<1>2. C!NetAmount(amount, m) = NetAmount(amount, m) /\ CP!NetAmount(amount, m) = NetAmount(amount, m)
  BY <1>1, SameWidth, Zenon DEF C!NetAmount, CP!NetAmount, NetAmount
<1>3. /\ C!FeeCredited(amount, m) = FeeCredited(amount, m)
      /\ CP!FeeCredited(amount, m) = FeeCredited(amount, m)
  BY <1>1 DEF C!FeeCredited, CP!FeeCredited, FeeCredited, C!FeeDue, CP!FeeDue, FeeDue
<1> QED
  BY <1>1, <1>2, <1>3 DEF C!Settlement, CP!Settlement, Settlement

(* A row is taken only by a payment that waits for it. *)
TakenBy(p) == \A n \in Rows : rowLock'[n] \in {NoOne, rowLock[n]} \/ C!WaitsFor(p, n)

LEMMA RollbackTakesNothing ==
  ASSUME LocksTyped, NEW p \in Payments, C!Rollback(p)
  PROVE  TakenBy(p) /\ UNCHANGED accounts
<1>1. Rows = C!Rows
  BY DEF Rows, C!Rows, Accounts, C!Accounts
<1> QED
  BY <1>1 DEF C!Rollback, C!Release, TakenBy, LocksTyped, accounts, C!accounts

LEMMA CheckoutRowSteps ==
  ASSUME LocksTyped, CP!CheckoutInv, NEW p \in Payments,
         C!LockWallet(p) \/ C!CreditMerchant(p) \/ C!CreditFee(p)
  PROVE  /\ CP!PaymentStep(p) /\ UNCHANGED ChargeLock /\ LocksTyped'
         /\ TakenBy(p) /\ UNCHANGED accounts
<1> USE DEF C!Order, CP!Order
<1>1. /\ body[p].wallet \in Rows /\ Settlement(CP!Order(p).merchant) \in Rows /\ "fee" \in Rows
  <2>1. pc[p] \in CP!TxSteps
    BY DEF C!LockWallet, C!CreditMerchant, C!CreditFee, CP!TxSteps
  <2> QED
    BY <2>1, AccountsOfCheckout, NamesOfCheckout, WidthOfCheckout, InputsOfCheckout, CP!Known
    DEF Settlement, CP!Settlement, Rows, Accounts
<1>2. ASSUME NEW n \in Rows, NEW step, C!TakeRow(p, n, step), C!RowFree(p, n), C!WaitsFor(p, n)
      PROVE  /\ CP!TakeRow(p, n, step) /\ CP!RowFree(p, n) /\ UNCHANGED ChargeLock /\ LocksTyped'
             /\ TakenBy(p) /\ UNCHANGED accounts
  <2>1. \A m \in Rows : m = n \/ rowLock'[m] = rowLock[m]
    BY <1>2 DEF C!TakeRow, LocksTyped
  <2> QED
    BY <1>2, <2>1, CheckoutTakes DEF TakenBy, C!TakeRow, accounts, C!accounts
<1>3. CASE C!LockWallet(p)
  <2> DEFINE w == body[p].wallet
  <2>1. CASE C!WalletPays(p)
    <3>1. C!TakeRow(p, w, "credit_merchant") /\ C!RowFree(p, w) /\ pc[p] = "lock_wallet"
      BY <1>3, <2>1 DEF C!LockWallet
    <3>2. C!WaitsFor(p, w)
      BY <3>1 DEF C!WaitsFor
    <3> HIDE DEF w
    <3>3. /\ CP!TakeRow(p, w, "credit_merchant") /\ CP!RowFree(p, w) /\ UNCHANGED ChargeLock
          /\ LocksTyped' /\ TakenBy(p) /\ UNCHANGED accounts
      BY <1>1, <1>2, <3>1, <3>2 DEF w
    <3>4. CP!WalletPays(p)
      BY <2>1 DEF C!WalletPays, CP!WalletPays
    <3> QED
      BY <3>1, <3>3, <3>4 DEF CP!LockWallet, CP!PaymentStep, w
  <2>2. CASE ~C!WalletPays(p)
    <3>1. C!Rollback(p) /\ C!RowFree(p, w) /\ pc[p] = "lock_wallet"
      BY <1>3, <2>2 DEF C!LockWallet
    <3>2. CP!Rollback(p) /\ UNCHANGED ChargeLock /\ LocksTyped' /\ TakenBy(p) /\ UNCHANGED accounts
      BY <3>1, CheckoutRollsBack, RollbackTakesNothing
    <3>3. CP!RowFree(p, w) /\ ~CP!WalletPays(p)
      BY <1>1, <2>2, <3>1
      DEF C!RowFree, CP!RowFree, CheckoutLock, HeldBy, C!WalletPays, CP!WalletPays
    <3> QED
      BY <3>1, <3>2, <3>3 DEF CP!LockWallet, CP!PaymentStep
  <2> QED
    BY <2>1, <2>2
<1>4. ASSUME C!Rollback(p)
      PROVE  /\ CP!Rollback(p) /\ UNCHANGED ChargeLock /\ LocksTyped'
             /\ TakenBy(p) /\ UNCHANGED accounts
  BY <1>4, CheckoutRollsBack, RollbackTakesNothing
<1>5. \A n \in Rows : C!RowFree(p, n) => CP!RowFree(p, n)
  BY DEF C!RowFree, CP!RowFree, CheckoutLock, HeldBy
<1>6. CASE C!CreditMerchant(p)
  <2> DEFINE n == CP!Order(p).merchant
             m == Settlement(n)
             step == IF FeeAmount(CP!Order(p).amount, n) > 0 THEN "credit_fee" ELSE "commit"
  <2>1. C!MerchantBalance(p) = CP!MerchantBalance(p)
    BY SameFees DEF C!MerchantBalance, CP!MerchantBalance
  <2>2. C!RowFree(p, m) /\ pc[p] = "credit_merchant"
    BY <1>6, SameFees DEF C!CreditMerchant
  <2>3. C!WaitsFor(p, m)
    BY <2>2, SameFees DEF C!WaitsFor
  <2>4. CASE C!MerchantBalance(p) \in 0 .. MaxInt
    <3>1. C!TakeRow(p, m, step)
      BY <1>6, <2>4, SameFees DEF C!CreditMerchant
    <3> HIDE DEF m, step
    <3>2. /\ CP!TakeRow(p, m, step) /\ CP!RowFree(p, m) /\ UNCHANGED ChargeLock
          /\ LocksTyped' /\ TakenBy(p) /\ UNCHANGED accounts
      BY <1>1, <1>2, <2>2, <2>3, <3>1 DEF m
    <3>3. CP!CreditMerchant(p)
      BY <2>1, <2>2, <2>4, <3>2, SameFees DEF CP!CreditMerchant, m, step
    <3> QED
      BY <3>2, <3>3 DEF CP!PaymentStep
  <2>5. CASE C!MerchantBalance(p) \notin 0 .. MaxInt
    <3>1. C!Rollback(p)
      BY <1>6, <2>5 DEF C!CreditMerchant
    <3>2. CP!CreditMerchant(p)
      BY <1>1, <1>4, <1>5, <2>1, <2>2, <2>5, <3>1, SameFees DEF CP!CreditMerchant
    <3> QED
      BY <1>4, <3>1, <3>2 DEF CP!PaymentStep
  <2> QED
    BY <2>4, <2>5
<1>7. CASE C!CreditFee(p)
  <2> DEFINE total == fee + FeeAmount(CP!Order(p).amount, CP!Order(p).merchant)
  <2>1. pc[p] = "credit_fee"
    BY <1>7 DEF C!CreditFee
  <2>2. CASE "fee" \in seeded /\ total <= MaxInt /\ C!RowFree(p, "fee") /\ C!TakeRow(p, "fee", "commit")
    <3>1. C!WaitsFor(p, "fee")
      BY <2>1, <2>2 DEF C!WaitsFor
    <3>2. /\ CP!TakeRow(p, "fee", "commit") /\ CP!RowFree(p, "fee") /\ UNCHANGED ChargeLock
          /\ LocksTyped' /\ TakenBy(p) /\ UNCHANGED accounts
      BY <1>1, <1>2, <2>2, <3>1
    <3> QED
      BY <2>1, <2>2, <3>2, SameFees DEF CP!CreditFee, CP!PaymentStep
  <2>3. CASE "fee" \in seeded /\ total > MaxInt /\ C!RowFree(p, "fee") /\ C!Rollback(p)
    <3>1. CP!RowFree(p, "fee")
      BY <1>1, <1>5, <2>3
    <3> QED
      BY <1>4, <2>1, <2>3, <3>1, SameFees DEF CP!CreditFee, CP!PaymentStep
  <2>4. CASE /\ "fee" \notin seeded /\ C!Goto(p, "commit")
             /\ UNCHANGED <<C!accounts, rowLock, C!sessions, late, sessionLock, body, reply,
                            announced, crashes>>
    <3>1. UNCHANGED <<accounts, rowLock, CheckoutLock, ChargeLock>>
      BY <2>4, LocksStay DEF C!accounts, accounts
    <3>2. CP!CreditFee(p)
      BY <2>1, <2>4, <3>1 DEF CP!CreditFee, C!Goto, CP!Goto, C!accounts, CP!accounts, C!sessions,
         CP!sessions
    <3> QED
      BY <3>1, <3>2 DEF CP!PaymentStep, LocksTyped, TakenBy
  <2> QED
    BY <1>7, <2>2, <2>3, <2>4, SameFees DEF C!CreditFee
<1> QED
  BY <1>3, <1>6, <1>7

(* Money in the wallets and in the fee account. *)
Held == SumFunction(balance) + fee

(* A fee that reached its account is the fee of the payment. *)
LEMMA FeeOfApplied ==
  ASSUME CP!CheckoutInv, NEW p \in Payments, pc[p] = "commit", C!ApplyPayment(p), FeesReachAccount'
  PROVE  FeeCredited(CP!Order(p).amount, CP!Order(p).merchant)
           = FeeAmount(CP!Order(p).amount, CP!Order(p).merchant)
<1> DEFINE s == body[p].session
<1>1. s \in Sessions
  BY AccountsOfCheckout, NamesOfCheckout, WidthOfCheckout, InputsOfCheckout, CP!Known
  DEF CP!TxSteps
<1>2. status' = [status EXCEPT ![s] = "PAID"] /\ UNCHANGED <<order, seeded>>
  BY DEF C!ApplyPayment
<1>3. s \in C!PaidSessions'
  BY <1>1, <1>2 DEF C!PaidSessions, CP!CheckoutInv, CP!TypeOK
<1>4. \A amount, m : FeeCredited(amount, m)' = FeeCredited(amount, m)
  BY <1>2 DEF FeeCredited, FeeDue
<1> QED
  BY <1>2, <1>3, <1>4 DEF FeesReachAccount, CP!Order

LEMMA SameApplication ==
  ASSUME NEW p \in Payments, C!ApplyPayment(p), CP!Release(p)
  PROVE  LET m == CP!Order(p).merchant
             amount == CP!Order(p).amount
         IN  /\ CP!ApplyPayment(p)
             /\ balance' = [[balance EXCEPT ![body[p].wallet] = @ - amount]
                              EXCEPT ![Settlement(m)] = @ + NetAmount(amount, m)]
             /\ fee' = fee + FeeCredited(amount, m)
<1>1. C!Order(p) = CP!Order(p)
  BY DEF C!Order, CP!Order
<1>2. \A amount, m : /\ C!Settlement(m) = CP!Settlement(m) /\ CP!Settlement(m) = Settlement(m)
                     /\ C!NetAmount(amount, m) = CP!NetAmount(amount, m)
                     /\ CP!NetAmount(amount, m) = NetAmount(amount, m)
                     /\ C!FeeCredited(amount, m) = CP!FeeCredited(amount, m)
                     /\ CP!FeeCredited(amount, m) = FeeCredited(amount, m)
  BY SameFees
<1>3. CP!ApplyPayment(p)
  BY <1>1, <1>2 DEF C!ApplyPayment, CP!ApplyPayment
<1> QED
  BY <1>2, <1>3 DEF CP!ApplyPayment

LEMMA CheckoutApplies ==
  ASSUME LocksTyped, CP!CheckoutInv, NEW p \in Payments, pc[p] = "commit", C!ApplyPayment(p)
  PROVE  /\ CP!ApplyPayment(p) /\ UNCHANGED ChargeLock /\ LocksTyped' /\ TakenBy(p)
         /\ UNCHANGED <<open, clearing, ledger, seeded>>
         /\ \A w \in Wallets : rowLock[w] = p \/ balance'[w] = balance[w]
         /\ FeesReachAccount' => Held' = Held
<1> DEFINE w == body[p].wallet
           m == CP!Order(p).merchant
           t == Settlement(m)
           amount == CP!Order(p).amount
<1> USE AccountsOfCheckout, NamesOfCheckout, WidthOfCheckout, InputsOfCheckout DEF CP!Order, C!Order
<1>1. CP!Release(p) /\ UNCHANGED ChargeLock /\ LocksTyped'
  BY CheckoutReleases DEF C!ApplyPayment
<1>2. TakenBy(p)
  <2>1. Rows = C!Rows
    BY DEF Rows, C!Rows, Accounts, C!Accounts
  <2> QED
    BY <2>1 DEF C!ApplyPayment, C!Release, TakenBy, LocksTyped
<1>3. CP!ApplyPayment(p)
  BY <1>1, SameApplication
<1>4. \A v \in Wallets : CheckoutLock[v] # p => balance'[v] = balance[v]
  BY <1>3, CP!ApplyMoves
<1>5. \A v \in Wallets : CheckoutLock[v] = p => rowLock[v] = p
  BY NoOneIsNoRequest DEF CheckoutLock, HeldBy, Rows
<1>6. /\ w \in Wallets /\ t \in Wallets /\ amount \in Int
      /\ FeeAmount(amount, m) \in Int /\ FeeCredited(amount, m) \in Nat
      /\ FeeAmount(amount, m) >= 0 => NetAmount(amount, m) = amount - FeeAmount(amount, m)
      /\ balance \in [Wallets -> Nat] /\ fee \in Nat
  <2>1. amount \in 1 .. MaxInt /\ m \in Merchants
    BY CP!Known DEF CP!TxSteps, CP!CheckoutAssumption
  <2> QED
    BY <2>1, CP!Known, CP!FeeSplit, SameFees
    DEF CP!TxSteps, CP!CheckoutInv, CP!TypeOK, CP!AccountsTypeOK
<1>7. /\ balance' = [[balance EXCEPT ![w] = @ - amount] EXCEPT ![t] = @ + NetAmount(amount, m)]
      /\ fee' = fee + FeeCredited(amount, m)
  BY <1>1, SameApplication
<1>8. FeesReachAccount' => FeeCredited(amount, m) = FeeAmount(amount, m)
  BY FeeOfApplied
<1> HIDE DEF w, m, t, amount
<1>9. ASSUME FeesReachAccount' PROVE Held' = Held
  <2> DEFINE d == FeeAmount(amount, m)
             middle == [balance EXCEPT ![w] = @ - amount]
  <2> HIDE DEF d
  <2>1. /\ balance \in [Wallets -> Int] /\ d \in Int /\ amount - d \in Int
        /\ NetAmount(amount, m) = amount - d /\ FeeCredited(amount, m) = d
    BY <1>6, <1>8, <1>9 DEF d
  <2>2. middle \in [Wallets -> Int] /\ middle[w] = balance[w] - amount
        /\ \A v \in Wallets \ {w} : middle[v] = balance[v]
    BY <1>6, <2>1
  <2> HIDE DEF middle
  <2>3. SumFunction(balance) \in Int /\ SumFunction(middle) = SumFunction(balance) - amount
    <3>1. SumFunction(balance) \in Int
          /\ SumFunction(middle) = SumFunction(balance) + middle[w] - balance[w]
      BY SMTT(30), <1>6, <2>1, <2>2, RequestsAssumption, SumMoves
    <3> QED
      BY <1>6, <2>1, <2>2, <3>1
  <2>4. balance' \in [Wallets -> Int] /\ balance'[t] = middle[t] + (amount - d)
        /\ \A v \in Wallets \ {t} : balance'[v] = middle[v]
    <3>1. balance' = [middle EXCEPT ![t] = @ + (amount - d)]
      BY <1>7, <2>1 DEF middle
    <3> QED
      BY <1>6, <2>1, <2>2, <3>1
  <2>5. SumFunction(balance') = SumFunction(middle) + (amount - d)
    <3>1. SumFunction(middle) \in Int
          /\ SumFunction(balance') = SumFunction(middle) + balance'[t] - middle[t]
      BY SMTT(30), <1>6, <2>2, <2>4, RequestsAssumption, SumMoves
    <3> QED
      BY <1>6, <2>1, <2>2, <2>4, <3>1
  <2>6. fee' = fee + d
    BY <1>7, <2>1
  <2> QED
    BY <1>6, <2>1, <2>3, <2>5, <2>6 DEF Held
<1>10. UNCHANGED <<open, clearing, ledger, seeded>>
  BY DEF C!ApplyPayment
<1> QED
  BY <1>1, <1>2, <1>3, <1>4, <1>5, <1>9, <1>10

(* What the other parts see of a step of checkout: it keeps the charges' locks,
   takes only wallets that no card payment holds, takes money only from wallets
   that a payment holds, and passes on what it takes if the fee is whole. *)
CheckoutEffect ==
  /\ CP!Next /\ UNCHANGED ChargeLock /\ LocksTyped'
  /\ \A w \in Wallets : rowLock'[w] \in {NoOne, rowLock[w]} \/ cardLock[w] \notin CardPayments
  /\ UNCHANGED <<open, clearing, ledger, seeded>>
  /\ \A w \in Wallets : rowLock[w] \in Payments \/ balance'[w] = balance[w]
  /\ FeesReachAccount' => Held' = Held

LEMMA WaitingIsOpen ==
  ASSUME NEW p \in Payments, (\E n : C!WaitsFor(p, n)) \/ pc[p] = "commit"
  PROVE  pc[p] \in CP!TxSteps
BY DEF C!WaitsFor, CP!TxSteps

LEMMA CircleIsOpen ==
  ASSUME NEW p \in Payments, C!Deadlocked(p) \/ Deadlocked(p)
  PROVE  pc[p] \in CP!TxSteps
<1>1. CASE C!Deadlocked(p)
  <2>1. \E q : C!Blocks(q, p)
    BY <1>1 DEF C!Deadlocked
  <2> QED
    BY <2>1, WaitingIsOpen DEF C!Blocks
<1>2. CASE Deadlocked(p)
  <2>1. \E q : Blocks(q, p)
    BY <1>2 DEF Deadlocked
  <2>2. p \notin CardPayments /\ p \notin Charges
    BY RequestsAssumption
  <2> QED
    BY <2>1, <2>2, WaitingIsOpen DEF Blocks, C!Blocks, CardHolders
<1> QED
  BY <1>1, <1>2

LEMMA QuietEffect ==
  ASSUME CP!Next, UNCHANGED ChargeLock, LocksTyped', UNCHANGED accounts,
         \A w \in Wallets : rowLock'[w] \in {NoOne, rowLock[w]} \/ cardLock[w] \notin CardPayments
  PROVE  CheckoutEffect
BY DEF CheckoutEffect, accounts, Held

LEMMA RollbackEffect ==
  ASSUME LocksTyped, NEW p \in Payments, pc[p] \in CP!TxSteps, C!Rollback(p)
  PROVE  CheckoutEffect
<1>1. CP!Rollback(p) /\ UNCHANGED ChargeLock /\ LocksTyped'
  BY CheckoutRollsBack
<1>2. CP!Next
  BY <1>1 DEF CP!Next, CP!CheckoutNext, CP!Abort
<1>3. UNCHANGED accounts
  BY RollbackTakesNothing
<1>4. \A w \in Wallets : rowLock'[w] \in {NoOne, rowLock[w]}
  <2>1. Rows = C!Rows /\ Wallets \subseteq Rows
    BY DEF Rows, C!Rows, Accounts, C!Accounts
  <2> QED
    BY <2>1 DEF C!Rollback, C!Release
<1> QED
  BY <1>1, <1>2, <1>3, <1>4, QuietEffect

LEMMA ApplyEffect ==
  ASSUME LocksTyped, CP!CheckoutInv, NEW p \in Payments, C!Commit(p) \/ C!CommitUnacknowledged(p)
  PROVE  CheckoutEffect
<1>1. pc[p] = "commit" /\ C!ApplyPayment(p)
  BY DEF C!Commit, C!CommitUnacknowledged
<1>2. /\ CP!ApplyPayment(p) /\ UNCHANGED ChargeLock /\ LocksTyped' /\ TakenBy(p)
      /\ UNCHANGED <<open, clearing, ledger, seeded>>
      /\ \A w \in Wallets : rowLock[w] = p \/ balance'[w] = balance[w]
      /\ FeesReachAccount' => Held' = Held
  BY <1>1, CheckoutApplies
<1>3. CP!Commit(p) \/ CP!CommitUnacknowledged(p)
  BY <1>2 DEF C!Commit, C!CommitUnacknowledged, CP!Commit, CP!CommitUnacknowledged, C!Goto,
     CP!Goto, C!Answer, CP!Answer
<1>4. CP!Next
  BY <1>3 DEF CP!Next, CP!CheckoutNext, CP!PaymentStep
<1>5. \A w \in Wallets : rowLock'[w] \in {NoOne, rowLock[w]}
  <2>1. Rows = C!Rows /\ Wallets \subseteq Rows
    BY DEF Rows, C!Rows, Accounts, C!Accounts
  <2> QED
    BY <1>1, <2>1 DEF C!ApplyPayment, C!Release
<1> QED
  BY <1>2, <1>4, <1>5 DEF CheckoutEffect

LEMMA SameRowsEffect ==
  ASSUME LocksTyped, CP!Next, UNCHANGED <<accounts, rowLock>>
  PROVE  CheckoutEffect
<1>1. UNCHANGED ChargeLock /\ LocksTyped'
  BY LocksStay DEF LocksTyped
<1>2. \A w \in Wallets : rowLock'[w] \in {NoOne, rowLock[w]}
  OBVIOUS
<1> QED
  BY <1>1, <1>2, QuietEffect

LEMMA PayEffect ==
  ASSUME LocksTyped, CP!CheckoutInv, NEW p \in Payments, Pay(p)
  PROVE  CheckoutEffect
<1>1. CASE Deadlocked(p) /\ C!Rollback(p)
  BY <1>1, CircleIsOpen, RollbackEffect
<1>2. CASE CardHolders(p) = {} /\ C!PaymentStep(p)
  <2>1. ASSUME NEW w \in Wallets, C!WaitsFor(p, w) PROVE cardLock[w] \notin CardPayments
    BY <1>2, <2>1 DEF CardHolders
  <2>2. CASE C!LockSession(p)
    <3>1. CP!LockSession(p) /\ UNCHANGED ChargeLock /\ LocksTyped'
      BY <2>2, CheckoutLocksSession
    <3>2. CP!Next
      BY <3>1 DEF CP!Next, CP!CheckoutNext, CP!PaymentStep
    <3>3. UNCHANGED accounts /\ \A w \in Wallets : rowLock'[w] \in {NoOne, rowLock[w]}
      <4>1. Rows = C!Rows /\ Wallets \subseteq Rows
        BY DEF Rows, C!Rows, Accounts, C!Accounts
      <4> QED
        BY <2>2, <4>1 DEF C!LockSession, C!Rollback, C!Release, accounts, C!accounts
    <3> QED
      BY <3>1, <3>2, <3>3, QuietEffect
  <2>3. CASE C!LockWallet(p) \/ C!CreditMerchant(p) \/ C!CreditFee(p)
    <3>1. /\ CP!PaymentStep(p) /\ UNCHANGED ChargeLock /\ LocksTyped'
          /\ TakenBy(p) /\ UNCHANGED accounts
      BY <2>3, CheckoutRowSteps
    <3>2. CP!Next
      BY <3>1 DEF CP!Next, CP!CheckoutNext
    <3>3. \A w \in Wallets : rowLock'[w] \in {NoOne, rowLock[w]} \/ cardLock[w] \notin CardPayments
      BY <2>1, <3>1 DEF TakenBy, Rows
    <3> QED
      BY <3>1, <3>2, <3>3, QuietEffect
  <2>4. CASE C!Commit(p)
    BY <2>4, ApplyEffect
  <2>5. CASE C!Enqueue(p)
    <3>1. UNCHANGED <<accounts, rowLock>>
      BY <2>5 DEF C!Enqueue, accounts, C!accounts
    <3>2. CP!Enqueue(p)
      BY <2>5, <3>1, LocksStay DEF C!Enqueue, CP!Enqueue, C!Answer, CP!Answer, C!Goto, CP!Goto,
         C!accounts, CP!accounts, C!sessions, CP!sessions
    <3>3. CP!Next
      BY <3>2 DEF CP!Next, CP!CheckoutNext, CP!PaymentStep
    <3> QED
      BY <3>1, <3>3, SameRowsEffect
  <2>6. CASE C!DetectDeadlock(p)
    BY <2>6, CircleIsOpen, RollbackEffect DEF C!DetectDeadlock
  <2> QED
    BY <1>2, <2>2, <2>3, <2>4, <2>5, <2>6 DEF C!PaymentStep
<1> QED
  BY <1>1, <1>2 DEF Pay

LEMMA StepEffect ==
  ASSUME LocksTyped, CP!CheckoutInv, CheckoutStep
  PROVE  CheckoutEffect
<1>1. ASSUME NEW x \in Sessions, (\E in \in SessionInputs : C!CreateSession(x, in)) \/ C!PassDeadline(x)
      PROVE  CheckoutEffect
  <2>1. UNCHANGED <<accounts, rowLock>>
    BY <1>1 DEF C!CreateSession, C!PassDeadline, accounts, C!accounts
  <2>2. CP!Next
    BY <1>1, <2>1, LocksStay DEF C!CreateSession, C!PassDeadline, CP!CreateSession,
       CP!PassDeadline, C!accounts, CP!accounts, C!sessions, CP!sessions, CP!Next, CP!CheckoutNext
  <2> QED
    BY <2>1, <2>2, SameRowsEffect
<1>2. ASSUME NEW p \in Payments, NEW in \in PayInputs, C!SubmitPay(p, in) PROVE CheckoutEffect
  <2>1. UNCHANGED <<accounts, rowLock>>
    BY <1>2 DEF C!SubmitPay, accounts, C!accounts
  <2>2. CP!SubmitPay(p, in)
    BY <1>2, <2>1, LocksStay DEF C!SubmitPay, CP!SubmitPay, C!Answer, CP!Answer, C!Goto,
       CP!Goto, C!accounts, CP!accounts, C!sessions, CP!sessions
  <2>3. CP!Next
    BY <2>2 DEF CP!Next, CP!CheckoutNext
  <2> QED
    BY <2>1, <2>3, SameRowsEffect
<1>3. ASSUME NEW p \in Payments, C!CommitUnacknowledged(p) PROVE CheckoutEffect
  BY <1>3, ApplyEffect
<1>4. ASSUME NEW p \in Payments, C!Abort(p) PROVE CheckoutEffect
  <2>1. pc[p] \in CP!TxSteps /\ C!Rollback(p)
    BY <1>4 DEF C!Abort, C!TxSteps, CP!TxSteps
  <2> QED
    BY <2>1, RollbackEffect
<1> QED
  BY <1>1, <1>2, <1>3, <1>4 DEF CheckoutStep

-----------------------------------------------------------------------------
(* The steps of charges, likewise. *)

LEMMA ChargesUnlock ==
  ASSUME LocksTyped, NEW c \in Charges, H!Unlock(c)
  PROVE  /\ HP!Unlock(c) /\ UNCHANGED CheckoutLock /\ LocksTyped'
         /\ \A n \in Rows : rowLock'[n] \in {NoOne, rowLock[n]}
<1>1. Rows = H!Rows /\ Rows = HP!Rows
  BY DEF Rows, H!Rows, HP!Rows, Accounts, H!Accounts, HP!Accounts
<1>2. rowLock' = [n \in Rows |-> IF rowLock[n] = c THEN NoOne ELSE rowLock[n]]
  BY <1>1 DEF H!Unlock, H!Held
<1>3. ChargeLock' = [n \in Rows |-> IF ChargeLock[n] = c THEN NoOne ELSE ChargeLock[n]]
  BY <1>2, NoOneIsNoRequest DEF ChargeLock, HeldBy
<1>4. CheckoutLock' = CheckoutLock
  BY <1>2, NoOneIsNoRequest, RequestsAssumption DEF CheckoutLock, HeldBy
<1>5. LocksTyped' /\ \A n \in Rows : rowLock'[n] \in {NoOne, rowLock[n]}
  BY <1>2 DEF LocksTyped
<1>6. HP!Unlock(c)
  BY <1>1, <1>3 DEF HP!Unlock, HP!Held
<1> QED
  BY <1>4, <1>5, <1>6

LEMMA ChargesTake ==
  ASSUME LocksTyped, NEW c \in Charges, NEW n \in Rows, NEW step, H!TakeAccount(c, n, step)
  PROVE  /\ HP!TakeAccount(c, n, step) /\ UNCHANGED CheckoutLock /\ LocksTyped'
         /\ \A m \in Rows : m = n \/ rowLock'[m] = rowLock[m]
         /\ UNCHANGED accounts
<1>1. rowLock' = [rowLock EXCEPT ![n] = c] /\ H!RowFree(c, n)
  BY DEF H!TakeAccount
<1>2. ChargeLock' = [ChargeLock EXCEPT ![n] = c]
  BY <1>1 DEF ChargeLock, HeldBy, LocksTyped
<1>3. UNCHANGED CheckoutLock
  BY <1>1, NoOneIsNoRequest, RequestsAssumption DEF CheckoutLock, HeldBy, LocksTyped, H!RowFree
<1>4. LocksTyped' /\ \A m \in Rows : m = n \/ rowLock'[m] = rowLock[m]
  BY <1>1 DEF LocksTyped
<1>5. HP!RowFree(c, n)
  BY <1>1 DEF H!RowFree, HP!RowFree, ChargeLock, HeldBy
<1>6. HP!TakeAccount(c, n, step)
  BY <1>2, <1>5 DEF H!TakeAccount, HP!TakeAccount, H!Proceed, HP!Proceed, H!accounts, HP!accounts
<1> QED
  BY <1>3, <1>4, <1>6 DEF H!TakeAccount, accounts, H!accounts

SameCharges(c) ==
  /\ H!Fee(c) = HP!Fee(c) /\ H!Net(c) = HP!Net(c) /\ H!Valid(c) = HP!Valid(c)
  /\ H!Settlement(request[c].merchant) = HP!Settlement(request[c].merchant)
  /\ H!Entries(c) = HP!Entries(c) /\ H!Outcome(c) = HP!Outcome(c)
  /\ H!NoResponse = HP!NoResponse /\ H!Failed = HP!Failed /\ H!Cached(c) = HP!Cached(c)
  /\ H!Row(c, "SUCCEEDED") = HP!Row(c, "SUCCEEDED") /\ H!Row(c, "FAILED") = HP!Row(c, "FAILED")
  /\ H!TooShort(c) = HP!TooShort(c) /\ H!Accounts = HP!Accounts
  /\ LET in == request[c]
     IN  H!FeeDue(in.amount, in.merchant) = HP!FeeDue(in.amount, in.merchant)

(* The verdict on a card is the same in both instances of Charge. *)
LEMMA SameNumbers == \A n : H!Accepted(n) = HP!Accepted(n)
<1>1. /\ \A x : H!Places(x) = HP!Places(x) /\ H!Cardinality(x) = HP!Cardinality(x)
      /\ \A x : H!Doubled(x) = HP!Doubled(x) /\ H!SumFunction(x) = HP!SumFunction(x)
  BY DEF H!Places, HP!Places, H!Digits, HP!Digits, H!Cardinality, HP!Cardinality, H!IsFiniteSet,
     HP!IsFiniteSet, H!Doubled, HP!Doubled, H!SumFunction, HP!SumFunction, H!SumFunctionOnSet,
     HP!SumFunctionOnSet, H!FoldFunctionOnSet, HP!FoldFunctionOnSet, H!MapThenFoldSet,
     HP!MapThenFoldSet
<1>2. \A x : H!ValidLuhn(x) = HP!ValidLuhn(x)
  <2>1. \A x, i : H!After(x, i) = HP!After(x, i)
    BY <1>1 DEF H!After, HP!After
  <2>2. \A x, y : H!LuhnSum(x, y) = HP!LuhnSum(x, y)
    BY <1>1, <2>1 DEF H!LuhnSum, HP!LuhnSum
  <2> QED
    BY <1>1, <2>2 DEF H!ValidLuhn, HP!ValidLuhn, H!Lengths, HP!Lengths
<1>3. \A x, y : H!EndsIn(x, y) = HP!EndsIn(x, y)
  BY DEF H!EndsIn, HP!EndsIn, H!IsSuffix, HP!IsSuffix, H!IsPrefix, HP!IsPrefix, H!Reverse,
     HP!Reverse
<1>4. \A x : H!RefusedEnding(x) = HP!RefusedEnding(x) /\ H!AcceptedEnding(x) = HP!AcceptedEnding(x)
  BY <1>3 DEF H!RefusedEnding, HP!RefusedEnding, H!AcceptedEnding, HP!AcceptedEnding
<1>5. \A x : H!Expired(x) = HP!Expired(x)
  BY DEF H!Expired, HP!Expired
<1> QED
  BY <1>2, <1>4, <1>5 DEF H!Accepted, HP!Accepted, H!Lengths, HP!Lengths

LEMMA ChargesAreSame == \A c : SameCharges(c)
<1> TAKE c
<1>0. \A amount, m : /\ H!FeeAmount(amount, m) = HP!FeeAmount(amount, m)
                     /\ H!NetAmount(amount, m) = HP!NetAmount(amount, m)
                     /\ H!FeeDue(amount, m) = HP!FeeDue(amount, m)
  <2> TAKE amount, m
  <2>1. H!FeeProduct(amount, m) = HP!FeeProduct(amount, m) /\ H!Whole = HP!Whole
    BY DEF H!FeeProduct, HP!FeeProduct, H!Whole, HP!Whole
  <2>2. H!FeeAmount(amount, m) = HP!FeeAmount(amount, m)
    BY <2>1, SameWidth, Zenon DEF H!FeeAmount, HP!FeeAmount
  <2>3. H!NetAmount(amount, m) = HP!NetAmount(amount, m)
    BY <2>2, SameWidth, Zenon DEF H!NetAmount, HP!NetAmount
  <2> QED
    BY <2>2, <2>3 DEF H!FeeDue, HP!FeeDue
<1>1. H!Fee(c) = HP!Fee(c) /\ H!Net(c) = HP!Net(c)
  BY <1>0 DEF H!Fee, HP!Fee, H!Net, HP!Net
<1>2. H!Settlement(request[c].merchant) = HP!Settlement(request[c].merchant)
  BY DEF H!Settlement, HP!Settlement
<1>3. H!Valid(c) = HP!Valid(c)
  BY SameNumbers DEF H!Valid, HP!Valid
<1>4. H!Entries(c) = HP!Entries(c)
  BY <1>1, <1>2 DEF H!Entries, HP!Entries, H!Entry, HP!Entry
<1>5. /\ H!NoResponse = HP!NoResponse /\ H!Failed = HP!Failed /\ H!Cached(c) = HP!Cached(c)
  BY DEF H!NoResponse, HP!NoResponse, H!Failed, HP!Failed, H!Cached, HP!Cached
<1>6. H!Outcome(c) = HP!Outcome(c)
  BY <1>3 DEF H!Outcome, HP!Outcome, H!Succeeded, HP!Succeeded, H!Declined, HP!Declined
<1>7. H!Row(c, "SUCCEEDED") = HP!Row(c, "SUCCEEDED") /\ H!Row(c, "FAILED") = HP!Row(c, "FAILED")
  BY <1>1 DEF H!Row, HP!Row
<1>8. H!TooShort(c) = HP!TooShort(c) /\ H!Accounts = HP!Accounts
  BY DEF H!TooShort, HP!TooShort, H!Accounts, HP!Accounts
<1> QED
  BY <1>0, <1>1, <1>2, <1>3, <1>4, <1>5, <1>6, <1>7, <1>8 DEF SameCharges

LEMMA ChargesRollBack ==
  ASSUME LocksTyped, NEW c \in Charges, H!RollbackSettlement(c)
  PROVE  /\ HP!RollbackSettlement(c) /\ UNCHANGED CheckoutLock /\ LocksTyped'
         /\ \A n \in Rows : rowLock'[n] \in {NoOne, rowLock[n]}
         /\ UNCHANGED accounts
<1>1. /\ HP!Unlock(c) /\ UNCHANGED CheckoutLock /\ LocksTyped'
      /\ \A n \in Rows : rowLock'[n] \in {NoOne, rowLock[n]}
  BY ChargesUnlock DEF H!RollbackSettlement
<1>2. HP!RollbackSettlement(c)
  BY <1>1, ChargesAreSame DEF SameCharges, H!RollbackSettlement, HP!RollbackSettlement, H!Respond,
     HP!Respond, H!Proceed, HP!Proceed, H!accounts, HP!accounts
<1> QED
  BY <1>1, <1>2 DEF H!RollbackSettlement, accounts, H!accounts

LEMMA ChargeKnown ==
  ASSUME HP!ChargeInv, NEW c \in Charges, stage[c] # "idle"
  PROVE  /\ HP!Settlement(request[c].merchant) \in Wallets
         /\ HP!Fee(c) \in Int /\ HP!Net(c) \in Int /\ request[c].amount \in Nat
         /\ HP!Fee(c) >= 0 => HP!Net(c) = request[c].amount - HP!Fee(c)
         /\ stage[c] = "commit" => HP!Net(c) > 0
<1>1. HP!SharesKnown
  BY AccountsOfCharges, NamesOfCharges, WidthOfCharges, InputsOfCharges, DateOfCharges, DrawnOfCharges,
     HP!SharesAreKnown
<1> QED
  BY <1>1 DEF HP!SharesKnown

LEMMA ChargesSettle ==
  ASSUME LocksTyped, HP!ChargeInv, NEW c \in Charges, stage[c] = "commit", H!Settle(c)
  PROVE  /\ HP!Settle(c) /\ UNCHANGED CheckoutLock /\ LocksTyped'
         /\ \A n \in Rows : rowLock'[n] \in {NoOne, rowLock[n]}
         /\ UNCHANGED <<open, seeded>> /\ charges \subseteq charges'
         /\ \A w \in Wallets : balance'[w] >= balance[w]
         /\ FeesReachAccount' => Held' + clearing = Held + clearing'
<1> DEFINE t == Settlement(request[c].merchant)
           net == HP!Net(c)
           cut == HP!Fee(c)
           amount == request[c].amount
<1>1. /\ HP!Unlock(c) /\ UNCHANGED CheckoutLock /\ LocksTyped'
      /\ \A n \in Rows : rowLock'[n] \in {NoOne, rowLock[n]}
  BY ChargesUnlock DEF H!Settle
<1>2. /\ t \in Wallets /\ net \in Int /\ net > 0 /\ cut \in Int /\ amount \in Nat
      /\ cut >= 0 => net = amount - cut
      /\ balance \in [Wallets -> Nat] /\ fee \in Nat /\ clearing \in Nat
  BY ChargeKnown DEF HP!Settlement, Settlement, HP!ChargeInv, HP!TypeOK, HP!AccountsTypeOK
<1>3. /\ balance' = [balance EXCEPT ![t] = @ + net]
      /\ fee' = fee + HP!FeeDue(amount, request[c].merchant)
      /\ clearing' = clearing + amount /\ UNCHANGED <<open, seeded>>
      /\ charges' = charges \cup {HP!Row(c, "SUCCEEDED")}
  BY ChargesAreSame DEF SameCharges, H!Settle, H!Settlement, Settlement
<1>4. HP!Settle(c)
  BY <1>1, ChargesAreSame DEF SameCharges, H!Settle, HP!Settle
<1>5. FeesReachAccount' => cut >= 0
  <2>1. HP!Row(c, "SUCCEEDED").fee = cut
    BY DEF HP!Row
  <2> QED
    BY <1>3, <2>1 DEF FeesReachAccount
<1>6. HP!FeeDue(amount, request[c].merchant) = IF cut > 0 THEN cut ELSE 0
  BY DEF HP!FeeDue, HP!Fee
<1> HIDE DEF t, net, cut, amount
<1>7. \A w \in Wallets : balance'[w] >= balance[w]
  BY <1>2, <1>3
<1>8. ASSUME FeesReachAccount' PROVE Held' + clearing = Held + clearing'
  <2>1. /\ balance \in [Wallets -> Int] /\ balance' \in [Wallets -> Int]
        /\ balance'[t] = balance[t] + net
        /\ \A w \in Wallets \ {t} : balance'[w] = balance[w]
    BY <1>2, <1>3
  <2>2. SumFunction(balance) \in Int
        /\ SumFunction(balance') = SumFunction(balance) + balance'[t] - balance[t]
    BY <1>2, <2>1, RequestsAssumption, SumMoves
  <2>3. net = amount - cut /\ fee' = fee + cut /\ clearing' = clearing + amount
    BY <1>2, <1>3, <1>5, <1>6, <1>8
  <2> QED
    BY <1>2, <2>1, <2>2, <2>3 DEF Held
<1> QED
  BY <1>1, <1>3, <1>4, <1>7, <1>8

(* What the other parts see of a step of a charge: it keeps the locks of
   checkout, takes only a wallet that no card payment holds, takes money from
   no wallet, forgets no charge, and hands out what the card network paid in if
   the fee is whole. *)
ChargeEffect ==
  /\ HP!Next /\ UNCHANGED CheckoutLock /\ LocksTyped'
  /\ \A w \in Wallets : rowLock'[w] \in {NoOne, rowLock[w]} \/ cardLock[w] \notin CardPayments
  /\ UNCHANGED <<open, seeded>> /\ charges \subseteq charges'
  /\ \A w \in Wallets : balance'[w] >= balance[w]
  /\ FeesReachAccount' => Held' + clearing = Held + clearing'

LEMMA ChargeQuietEffect ==
  ASSUME HP!ChargeInv, HP!Next, UNCHANGED CheckoutLock, LocksTyped', UNCHANGED accounts,
         charges \subseteq charges',
         \A w \in Wallets : rowLock'[w] \in {NoOne, rowLock[w]} \/ cardLock[w] \notin CardPayments
  PROVE  ChargeEffect
<1>1. balance \in [Wallets -> Nat]
  BY DEF HP!ChargeInv, HP!TypeOK, HP!AccountsTypeOK
<1>2. UNCHANGED <<open, balance, fee, clearing, seeded>>
  BY DEF accounts
<1>3. Held' + clearing = Held + clearing'
  BY <1>2 DEF Held
<1>4. \A w \in Wallets : balance'[w] >= balance[w]
  BY <1>1, <1>2
<1> QED
  BY <1>2, <1>3, <1>4 DEF ChargeEffect

LEMMA ChargeRollbackEffect ==
  ASSUME LocksTyped, HP!ChargeInv, NEW c \in Charges, HP!Next, H!RollbackSettlement(c)
  PROVE  ChargeEffect
<1>1. /\ UNCHANGED CheckoutLock /\ LocksTyped' /\ UNCHANGED accounts
      /\ \A n \in Rows : rowLock'[n] \in {NoOne, rowLock[n]}
  BY ChargesRollBack
<1>2. UNCHANGED charges
  BY DEF H!RollbackSettlement
<1> QED
  BY <1>1, <1>2, ChargeQuietEffect DEF Rows

LEMMA SettleEffect ==
  ASSUME LocksTyped, HP!ChargeInv, NEW c \in Charges,
         H!CommitSettlement(c) \/ H!SettlementUnacknowledged(c)
  PROVE  ChargeEffect
<1>1. stage[c] = "commit" /\ H!Settle(c)
  BY DEF H!CommitSettlement, H!SettlementUnacknowledged
<1>2. /\ HP!Settle(c) /\ UNCHANGED CheckoutLock /\ LocksTyped'
      /\ \A n \in Rows : rowLock'[n] \in {NoOne, rowLock[n]}
      /\ UNCHANGED <<open, seeded>> /\ charges \subseteq charges'
      /\ \A w \in Wallets : balance'[w] >= balance[w]
      /\ FeesReachAccount' => Held' + clearing = Held + clearing'
  BY <1>1, ChargesSettle
<1>3. HP!CommitSettlement(c) \/ HP!SettlementUnacknowledged(c)
  BY <1>2, ChargesAreSame DEF SameCharges, H!CommitSettlement, H!SettlementUnacknowledged,
     HP!CommitSettlement, HP!SettlementUnacknowledged, H!Respond, HP!Respond, H!Proceed,
     HP!Proceed
<1>4. HP!Next
  BY <1>3 DEF HP!Next, HP!ChargeNext, HP!ChargeStep, HP!MissRecord
<1> QED
  BY <1>2, <1>4 DEF ChargeEffect, Rows

(* The steps of charge c that leave the shared rows alone. *)
ChargeOffRows(c) ==
  \/ \E in \in ChargeInputs : H!SubmitCharge(c, in)
  \/ H!Lookup(c) \/ H!LookupFails(c) \/ H!Validate(c)
  \/ H!Save(c) \/ H!SaveFails(c) \/ H!Reply(c)

LEMMA OffRowsEffect ==
  ASSUME LocksTyped, HP!ChargeInv, NEW c \in Charges, ChargeOffRows(c)
  PROVE  ChargeEffect
<1>1. UNCHANGED <<accounts, rowLock>>
  BY DEF ChargeOffRows, H!SubmitCharge, H!Lookup, H!LookupFails, H!Validate, H!Save, H!SaveFails,
     H!Reply, accounts, H!accounts
<1>2. UNCHANGED <<CheckoutLock, ChargeLock>> /\ LocksTyped'
  BY <1>1, LocksStay DEF LocksTyped
<1> USE <1>1, <1>2, ChargesAreSame
    DEF SameCharges, H!Proceed, HP!Proceed, H!Respond, HP!Respond, H!accounts, HP!accounts
<1>3. ASSUME NEW in \in ChargeInputs, H!SubmitCharge(c, in) PROVE HP!SubmitCharge(c, in)
  BY <1>3 DEF H!SubmitCharge, HP!SubmitCharge
<1>4. H!Lookup(c) => HP!Lookup(c)
  BY DEF H!Lookup, HP!Lookup
<1>5. H!LookupFails(c) => HP!LookupFails(c)
  BY DEF H!LookupFails, HP!LookupFails
<1>6. H!Validate(c) => HP!Validate(c)
  BY DEF H!Validate, HP!Validate
<1>7. H!Save(c) => HP!Save(c)
  BY DEF H!Save, HP!Save
<1>8. H!SaveFails(c) => HP!SaveFails(c)
  BY DEF H!SaveFails, HP!SaveFails
<1>9. H!Reply(c) => HP!Reply(c)
  BY DEF H!Reply, HP!Reply
<1>10. HP!Next
  BY <1>3, <1>4, <1>5, <1>6, <1>7, <1>8, <1>9
  DEF ChargeOffRows, HP!Next, HP!ChargeNext, HP!ChargeStep, HP!MissRecord
<1>11. \A w \in Wallets : rowLock'[w] \in {NoOne, rowLock[w]}
  BY <1>1
<1>12. charges \subseteq charges'
  BY DEF ChargeOffRows, H!SubmitCharge, H!Lookup, H!LookupFails, H!Validate, H!Save, H!SaveFails,
     H!Reply
<1> QED
  BY <1>1, <1>2, <1>10, <1>11, <1>12, ChargeQuietEffect

LEMMA ChargeRowsEffect ==
  ASSUME LocksTyped, HP!ChargeInv, NEW c \in Charges,
         H!CreditWallet(c) \/ H!DebitClearing(c) \/ H!CreditRevenue(c),
         \A w \in Wallets : H!WaitsFor(c, w) => cardLock[w] \notin CardPayments
  PROVE  ChargeEffect
<1> DEFINE t == Settlement(request[c].merchant)
<1>1. t \in Rows /\ {"clearing", "fee"} \subseteq Rows
  <2>1. stage[c] # "idle"
    BY DEF H!CreditWallet, H!DebitClearing, H!CreditRevenue
  <2>2. HP!Settlement(request[c].merchant) \in Wallets
    BY <2>1, ChargeKnown
  <2> QED
    BY <2>2 DEF Rows, Accounts, HP!Settlement, Settlement
<1>2. H!Settlement(request[c].merchant) = t /\ HP!Settlement(request[c].merchant) = t
  BY DEF H!Settlement, HP!Settlement, Settlement
<1> HIDE DEF t
<1>3. ASSUME NEW n \in Rows, NEW total, NEW step, H!Increase(c, n, total, step), H!WaitsFor(c, n),
             HP!Increase(c, n, total, step) => HP!Next
      PROVE  ChargeEffect
  <2>1. CASE total <= MaxInt /\ H!TakeAccount(c, n, step)
    <3>1. /\ HP!TakeAccount(c, n, step) /\ UNCHANGED CheckoutLock /\ LocksTyped'
          /\ \A m \in Rows : m = n \/ rowLock'[m] = rowLock[m]
          /\ UNCHANGED accounts
      BY <2>1, ChargesTake
    <3>2. \A w \in Wallets : rowLock'[w] \in {NoOne, rowLock[w]} \/ cardLock[w] \notin CardPayments
      BY <1>3, <3>1 DEF Rows
    <3>3. HP!Next
      BY <1>3, <2>1, <3>1 DEF HP!Increase
    <3>4. UNCHANGED charges
      BY <2>1 DEF H!TakeAccount
    <3> QED
      BY <3>1, <3>2, <3>3, <3>4, ChargeQuietEffect
  <2>2. CASE total > MaxInt /\ H!RowFree(c, n) /\ H!RollbackSettlement(c)
    <3>1. HP!RollbackSettlement(c)
      BY <2>2, ChargesRollBack
    <3>2. HP!RowFree(c, n)
      BY <2>2 DEF H!RowFree, HP!RowFree, ChargeLock, HeldBy
    <3>3. HP!Next
      BY <1>3, <2>2, <3>1, <3>2 DEF HP!Increase
    <3> QED
      BY <2>2, <3>3, ChargeRollbackEffect
  <2> QED
    BY <1>3, <2>1, <2>2 DEF H!Increase
<1>4. HP!ChargeStep(c) => HP!Next
  BY DEF HP!Next, HP!ChargeNext
<1>5. CASE H!CreditWallet(c) /\ \A e \in H!Entries(c) : e.amount > 0
  <2> DEFINE total == balance[t] + H!Net(c)
  <2>1. /\ stage[c] = "credit_wallet" /\ H!Increase(c, t, total, "debit_clearing")
        /\ \A e \in H!Entries(c) : e.amount > 0
    <3>1. \A e \in H!Entries(c) : ~(e.amount <= 0)
      <4>1. H!Net(c) \in Int /\ H!Fee(c) \in Int /\ request[c].amount \in Int
        BY <1>5, ChargeKnown, ChargesAreSame DEF SameCharges, H!CreditWallet
      <4>2. \A e \in H!Entries(c) : e.amount \in Int
        BY <4>1 DEF H!Entries, H!Entry
      <4> QED
        BY <1>5, <4>2
    <3> QED
      BY <1>2, <1>5, <3>1 DEF H!CreditWallet
  <2>2. H!WaitsFor(c, t)
    BY <1>2, <2>1 DEF H!WaitsFor
  <2>3. HP!Increase(c, t, total, "debit_clearing") => HP!CreditWallet(c)
    BY <1>2, <2>1, ChargesAreSame DEF SameCharges, HP!CreditWallet
  <2> HIDE DEF total
  <2>4. HP!CreditWallet(c) => HP!Next
    BY <1>4 DEF HP!ChargeStep
  <2> QED
    BY <1>1, <1>3, <2>1, <2>2, <2>3, <2>4
<1>6. CASE H!CreditWallet(c) /\ H!RollbackSettlement(c) /\ \E e \in H!Entries(c) : e.amount <= 0
  <2>1. HP!RollbackSettlement(c)
    BY <1>6, ChargesRollBack
  <2>2. HP!CreditWallet(c)
    BY <1>6, <2>1, ChargesAreSame DEF SameCharges, HP!CreditWallet, H!CreditWallet
  <2>3. HP!Next
    BY <1>4, <2>2 DEF HP!ChargeStep
  <2> QED
    BY <1>6, <2>3, ChargeRollbackEffect
<1>7. CASE H!DebitClearing(c)
  <2> DEFINE step == IF H!Fee(c) > 0 THEN "credit_revenue" ELSE "commit"
             total == clearing + request[c].amount
  <2>1. stage[c] = "debit_clearing" /\ H!Increase(c, "clearing", total, step)
    BY <1>7 DEF H!DebitClearing
  <2>2. HP!Increase(c, "clearing", total, step) => HP!DebitClearing(c)
    BY <2>1, ChargesAreSame DEF SameCharges, HP!DebitClearing
  <2>3. H!WaitsFor(c, "clearing")
    BY <2>1 DEF H!WaitsFor
  <2> HIDE DEF step, total
  <2>4. HP!DebitClearing(c) => HP!Next
    BY <1>4 DEF HP!ChargeStep
  <2> QED
    BY <1>1, <1>3, <2>1, <2>2, <2>3, <2>4
<1>8. CASE H!CreditRevenue(c)
  <2> DEFINE total == fee + H!Fee(c)
  <2>1. stage[c] = "credit_revenue" /\ H!Increase(c, "fee", total, "commit")
    BY <1>8 DEF H!CreditRevenue
  <2>2. HP!Increase(c, "fee", total, "commit") => HP!CreditRevenue(c)
    BY <2>1, ChargesAreSame DEF SameCharges, HP!CreditRevenue
  <2>3. H!WaitsFor(c, "fee")
    BY <2>1 DEF H!WaitsFor
  <2> HIDE DEF total
  <2>4. HP!CreditRevenue(c) => HP!Next
    BY <1>4 DEF HP!ChargeStep
  <2> QED
    BY <1>1, <1>3, <2>1, <2>2, <2>3, <2>4
<1> QED
  BY <1>5, <1>6, <1>7, <1>8 DEF H!CreditWallet

(* Every step of a charge has this effect. *)
LEMMA ChargesEffect ==
  ASSUME LocksTyped, HP!ChargeInv, ChargeStep \/ \E c \in Charges : ChargeCard(c)
  PROVE  ChargeEffect
<1>1. ASSUME NEW c \in Charges, ChargeOffRows(c) PROVE ChargeEffect
  BY <1>1, OffRowsEffect
<1>2. ASSUME NEW c \in Charges, H!AbortSettlement(c) PROVE ChargeEffect
  <2>1. H!RollbackSettlement(c)
    BY <1>2 DEF H!AbortSettlement
  <2>2. HP!AbortSettlement(c)
    BY <1>2, <2>1, ChargesRollBack
    DEF H!AbortSettlement, HP!AbortSettlement, H!SettlementSteps, HP!SettlementSteps
  <2> QED
    BY <2>1, <2>2, ChargeRollbackEffect DEF HP!Next, HP!ChargeNext
<1>3. ASSUME NEW c \in Charges, H!CommitSettlement(c) \/ H!SettlementUnacknowledged(c)
      PROVE  ChargeEffect
  BY <1>3, SettleEffect
<1>4. CASE ChargeStep
  BY <1>1, <1>2, <1>3, <1>4 DEF ChargeStep, ChargeOffRows, H!MissRecord
<1>5. ASSUME NEW c \in Charges, ChargeCard(c) PROVE ChargeEffect
  <2>1. CASE CreditHolders(c) = {} /\ H!ChargeStep(c)
    <3>1. \A w \in Wallets : H!WaitsFor(c, w) => cardLock[w] \notin CardPayments
      BY <2>1 DEF CreditHolders
    <3>2. \/ ChargeOffRows(c)
          \/ H!CreditWallet(c) \/ H!DebitClearing(c) \/ H!CreditRevenue(c)
          \/ H!CommitSettlement(c)
      BY <2>1 DEF H!ChargeStep, ChargeOffRows
    <3> QED
      BY <1>1, <1>3, <3>1, <3>2, ChargeRowsEffect
  <2>2. CASE Waits(c) /\ H!RollbackSettlement(c)
    <3>1. \E q : Blocks(q, c)
      BY <2>2 DEF Waits
    <3>2. \E n : H!WaitsFor(c, n)
      BY <3>1, RequestsAssumption DEF Blocks, H!Blocks, CreditHolders
    <3>3. stage[c] \in HP!SettlementSteps
      BY <3>2 DEF H!WaitsFor, HP!SettlementSteps
    <3>4. HP!AbortSettlement(c)
      BY <2>2, <3>3, ChargesRollBack DEF HP!AbortSettlement
    <3> QED
      BY <2>2, <3>4, ChargeRollbackEffect DEF HP!Next, HP!ChargeNext
  <2> QED
    BY <1>5, <2>1, <2>2 DEF ChargeCard
<1> QED
  BY <1>4, <1>5

-----------------------------------------------------------------------------
(* The steps of cards are the same in both instances of Cards. *)

LEMMA SumsAreSame == \A f : DP!SumFunction(f) = SumFunction(f)
BY DEF SumFunction, DP!SumFunction, SumFunctionOnSet, DP!SumFunctionOnSet, FoldFunctionOnSet,
   DP!FoldFunctionOnSet, MapThenFoldSet, DP!MapThenFoldSet

LEMMA WalletsAreApart == DP!WalletsApart
BY RequestsAssumption DEF DP!WalletsApart, DP!IsFiniteSet, IsFiniteSet

LEMMA CountsAreSame == \A w : D!CountOpen(w) = DP!CountOpen(w)
BY DEF D!CountOpen, DP!CountOpen, D!Open, DP!Open, D!Cardinality, DP!Cardinality

LEMMA RollbackIsSame == \A p : D!Rollback(p) <=> DP!Rollback(p)
BY DEF D!Rollback, DP!Rollback, D!Release, DP!Release, D!Rows, DP!Rows, D!Answer, DP!Answer,
   D!Goto, DP!Goto, D!tables, DP!tables, D!history, DP!history

LEMMA PaymentIsSame ==
  ASSUME NEW p \in CardPayments
  PROVE  /\ D!PaymentStep(p) => DP!PaymentStep(p)
         /\ D!CommitUnacknowledged(p) => DP!CommitUnacknowledged(p)
<1> USE RollbackIsSame DEF D!TakeRow, DP!TakeRow, D!Goto, DP!Goto, D!Answer, DP!Answer,
        D!tables, DP!tables, D!history, DP!history, D!Wallet, DP!Wallet
<1>1. D!LockCard(p) => DP!LockCard(p)
  BY DEF D!LockCard, DP!LockCard
<1>2. D!LockUser(p) => DP!LockUser(p)
  BY DEF D!LockUser, DP!LockUser, D!CardPays, DP!CardPays
<1>3. D!LockWallet(p) => DP!LockWallet(p)
  BY DEF D!LockWallet, DP!LockWallet
<1>4. D!ApplyPayment(p) => DP!ApplyPayment(p)
  BY DEF D!ApplyPayment, DP!ApplyPayment, D!Row, DP!Row, D!Release, DP!Release, D!Rows, DP!Rows
<1>5. D!Commit(p) => DP!Commit(p)
  BY <1>4 DEF D!Commit, DP!Commit
<1>6. D!CommitUnacknowledged(p) => DP!CommitUnacknowledged(p)
  BY <1>4 DEF D!CommitUnacknowledged, DP!CommitUnacknowledged
<1>7. D!Reply(p) => DP!Reply(p)
  BY DEF D!Reply, DP!Reply
<1> QED
  BY <1>1, <1>2, <1>3, <1>5, <1>6, <1>7 DEF D!PaymentStep, DP!PaymentStep

LEMMA CreationIsSame ==
  ASSUME NEW c \in Cards
  PROVE  /\ \A in \in CardInputs : D!CountCards(c, in) => DP!CountCards(c, in)
         /\ D!InsertCard(c) => DP!InsertCard(c)
         /\ D!InsertFails(c) => DP!InsertFails(c)
         /\ \A to : D!UpdateStatus(c, to) => DP!UpdateStatus(c, to)
<1> USE DEF D!tables, DP!tables, D!history, DP!history
<1>1. ASSUME NEW in \in CardInputs, D!CountCards(c, in) PROVE DP!CountCards(c, in)
  BY <1>1, CountsAreSame DEF D!CountCards, DP!CountCards
<1>2. D!InsertCard(c) => DP!InsertCard(c)
  BY DEF D!InsertCard, DP!InsertCard
<1>3. D!InsertFails(c) => DP!InsertFails(c)
  BY DEF D!InsertFails, DP!InsertFails
<1>4. \A to : D!UpdateStatus(c, to) => DP!UpdateStatus(c, to)
  BY DEF D!UpdateStatus, DP!UpdateStatus
<1> QED
  BY <1>1, <1>2, <1>3, <1>4

(* What the other parts see of a step of cards: it locks only wallets that no
   payment or charge holds, takes money only from wallets that a card payment
   holds, and counts it as spent. *)
CardsEffect ==
  /\ DP!Next
  /\ \A w \in Wallets :
       cardLock'[w] \in {NoOne, cardLock[w]} \/ rowLock[w] \notin Payments \cup Charges
  /\ UNCHANGED <<open, clearing, fee, ledger, seeded, rowLock, checkoutVars, chargeVars>>

LEMMA KeptLocks ==
  ASSUME NEW p \in CardPayments, UNCHANGED cardLock \/ D!Rollback(p) \/ D!ApplyPayment(p)
  PROVE  \A w \in Wallets : cardLock'[w] \in {NoOne, cardLock[w]}
<1>1. Wallets \subseteq D!Rows
  BY DEF D!Rows
<1> QED
  BY <1>1 DEF D!Rollback, D!ApplyPayment, D!Release

LEMMA PayByCardEffect ==
  ASSUME DP!CardsInv, NEW p \in CardPayments, PayByCard(p)
  PROVE  CardsEffect
<1>1. UNCHANGED <<open, clearing, fee, ledger, seeded, rowLock, checkoutVars, chargeVars>>
  BY DEF PayByCard, CardsOnly
<1>2. CASE WalletHolders(p) = {} /\ D!PaymentStep(p)
  <2>1. DP!PaymentStep(p)
    BY <1>2, PaymentIsSame
  <2>2. DP!Locks(p)
    BY <2>1, WalletsAreApart, InputsOfCards, DP!PaymentLocks
  <2>3. \A w \in Wallets :
          cardLock'[w] \in {NoOne, cardLock[w]} \/ (cardPc[p] = "lock_wallet" /\ w = D!Wallet(p))
    BY <2>2 DEF DP!Locks, DP!Wallet, D!Wallet
  <2>4. cardPc[p] = "lock_wallet" => rowLock[D!Wallet(p)] \notin Payments \cup Charges
    BY <1>2 DEF WalletHolders
  <2> QED
    BY <1>1, <2>1, <2>3, <2>4 DEF CardsEffect, DP!Next
<1>3. CASE Deadlocked(p) /\ D!Rollback(p)
  <2>1. p \notin Payments /\ p \notin Charges /\ \E q : Blocks(q, p)
    BY <1>3, RequestsAssumption DEF Deadlocked
  <2>2. cardPc[p] = "lock_wallet"
    BY <2>1 DEF Blocks, WalletHolders
  <2>3. DP!Abort(p)
    BY <1>3, <2>2, RollbackIsSame DEF DP!Abort, DP!TxSteps
  <2>4. \A w \in Wallets : cardLock'[w] \in {NoOne, cardLock[w]}
    BY <1>3, KeptLocks
  <2> QED
    BY <1>1, <2>3, <2>4 DEF CardsEffect, DP!Next
<1> QED
  BY <1>2, <1>3 DEF PayByCard

LEMMA CardStepEffect ==
  ASSUME CardStep \/ \E c \in Cards : IssueCard(c)
  PROVE  CardsEffect
<1>1. UNCHANGED <<open, clearing, fee, ledger, seeded, rowLock, checkoutVars, chargeVars>>
  BY DEF CardStep, IssueCard, CardsOnly
<1>2. ASSUME DP!Next, \A w \in Wallets : cardLock'[w] \in {NoOne, cardLock[w]}
      PROVE  CardsEffect
  BY <1>1, <1>2 DEF CardsEffect
<1>3. ASSUME NEW c \in Cards,
             \/ \E in \in CardInputs : D!CountCards(c, in)
             \/ D!InsertCard(c) \/ D!InsertFails(c)
             \/ \E to \in {"ACTIVE", "FROZEN", "CLOSED"} : D!UpdateStatus(c, to)
      PROVE  CardsEffect
  <2>1. DP!Next
    BY <1>3, CreationIsSame DEF DP!Next
  <2>2. UNCHANGED cardLock
    BY <1>3 DEF D!CountCards, D!InsertCard, D!InsertFails, D!UpdateStatus
  <2> QED
    BY <1>2, <2>1, <2>2
<1>4. ASSUME NEW p \in CardPayments, NEW in \in CardPayInputs, D!Submit(p, in)
      PROVE  CardsEffect
  <2>1. DP!Submit(p, in)
    BY <1>4 DEF D!Submit, DP!Submit, D!Goto, DP!Goto, D!tables, DP!tables, D!history, DP!history
  <2>2. UNCHANGED cardLock
    BY <1>4 DEF D!Submit
  <2> QED
    BY <1>2, <2>1, <2>2 DEF DP!Next
<1>5. ASSUME NEW p \in CardPayments, D!CommitUnacknowledged(p) PROVE CardsEffect
  <2>1. DP!Next
    BY <1>5, PaymentIsSame DEF DP!Next
  <2>2. D!ApplyPayment(p)
    BY <1>5 DEF D!CommitUnacknowledged
  <2> QED
    BY <1>2, <2>1, <2>2, KeptLocks
<1>6. ASSUME NEW p \in CardPayments, D!Abort(p) PROVE CardsEffect
  <2>1. DP!Abort(p) /\ D!Rollback(p)
    BY <1>6, RollbackIsSame DEF D!Abort, DP!Abort, D!TxSteps, DP!TxSteps
  <2>2. DP!Next
    BY <2>1 DEF DP!Next
  <2> QED
    BY <1>2, <2>1, <2>2, KeptLocks
<1>7. CASE \E c \in Cards : IssueCard(c)
  BY <1>3, <1>7 DEF IssueCard
<1>8. CASE CardStep
  BY <1>3, <1>4, <1>5, <1>6, <1>8 DEF CardStep
<1> QED
  BY <1>7, <1>8

-----------------------------------------------------------------------------
(* The invariant: each part's own, on the locks of its own requests; a wallet
   is not locked on both sides; and the money is there. *)
LocksApart == \A w \in Wallets : NoOne \in {rowLock[w], cardLock[w]}

GatewayInv ==
  /\ LocksTyped /\ LocksApart
  /\ CP!CheckoutInv /\ HP!ChargeInv /\ DP!CardsInv
  /\ MoneyConserved

LEMMA CheckoutKeeps == CP!CheckoutInv /\ CP!Next => CP!CheckoutInv'
BY AccountsOfCheckout, NamesOfCheckout, WidthOfCheckout, InputsOfCheckout, CP!StepKeeps

LEMMA ChargesKeep == HP!ChargeInv /\ HP!Next => HP!ChargeInv'
BY AccountsOfCharges, NamesOfCharges, WidthOfCharges, InputsOfCharges, DateOfCharges, DrawnOfCharges,
   HP!StepKeeps

LEMMA CardsKeep == DP!CardsInv /\ DP!Next => DP!CardsInv'
BY InputsOfCards, DP!StepKeeps

LEMMA CheckoutBears == CP!CheckoutInv /\ CP!OthersStep => CP!CheckoutInv'
BY AccountsOfCheckout, NamesOfCheckout, WidthOfCheckout, InputsOfCheckout, CP!OthersKeep

LEMMA ChargesBear == HP!ChargeInv /\ HP!OthersStep => HP!ChargeInv'
BY AccountsOfCharges, NamesOfCharges, WidthOfCharges, InputsOfCharges, DateOfCharges, DrawnOfCharges,
   HP!OthersKeep

LEMMA CardsBear == DP!CardsInv /\ DP!OthersStep => DP!CardsInv'
BY InputsOfCards, DP!OthersKeep

(* The amounts that MoneyConserved adds up are numbers. *)
LEMMA AmountsKnown ==
  ASSUME DP!CardsInv, CP!CheckoutInv
  PROVE  /\ SumFunction(balance) \in Int /\ SumFunction(spent) \in Int
         /\ SumFunction([w \in Wallets |-> WalletRow[w].balance]) \in Int
         /\ balance \in [Wallets -> Nat] /\ fee \in Nat /\ clearing \in Nat /\ Held \in Int
<1>1. balance \in [Wallets -> Nat] /\ fee \in Nat /\ clearing \in Nat
  BY DEF CP!CheckoutInv, CP!TypeOK, CP!AccountsTypeOK
<1>2. spent \in [Cards -> Nat] /\ IsFiniteSet(Cards)
  <2>1. IsFiniteSet(Cards)
    BY PartsAssumption DEF D!CardsAssumption, D!IsFiniteSet, IsFiniteSet
  <2> QED
    BY <2>1 DEF DP!CardsInv, DP!TypeOK
<1>3. SumFunction(balance) \in Int
  <2>1. SumFunction(balance) = SumFunctionOnSet(balance, Wallets)
    BY <1>1 DEF SumFunction
  <2> QED
    BY <1>1, <2>1, RequestsAssumption, SumType
<1>4. SumFunction(spent) \in Int
  <2>1. SumFunction(spent) = SumFunctionOnSet(spent, Cards)
    BY <1>2 DEF SumFunction
  <2> QED
    BY <1>2, <2>1, SumType
<1>5. SumFunction([w \in Wallets |-> WalletRow[w].balance]) \in Int
  <2> DEFINE start == [w \in Wallets |-> WalletRow[w].balance]
  <2>1. \A w \in Wallets : start[w] \in Int
    BY AccountsAssumption
  <2>2. DOMAIN start = Wallets
    OBVIOUS
  <2> HIDE DEF start
  <2>3. SumFunctionOnSet(start, Wallets) \in Int
    BY <2>1, RequestsAssumption, SumType
  <2>4. SumFunction(start) \in Int
    BY <2>2, <2>3 DEF SumFunction
  <2> QED
    BY <2>4 DEF start
<1> QED
  BY <1>1, <1>3, <1>4, <1>5 DEF Held

(* What checkout and charges find in the accounts is of the right type. *)
LEMMA CardLocksTyped ==
  ASSUME DP!CardsInv
  PROVE  \A w \in Wallets : cardLock[w] \in CardPayments \cup {NoOne}
BY DEF DP!CardsInv, DP!TypeOK, DP!Rows

LEMMA AccountsAreSame == CP!AccountsTypeOK' <=> HP!AccountsTypeOK'
BY DEF CP!AccountsTypeOK, HP!AccountsTypeOK

(* Fees that are whole were whole before. *)
LEMMA FeesWereWhole ==
  ASSUME charges \subseteq charges', UNCHANGED seeded, C!PaidSessions \subseteq C!PaidSessions',
         \A s \in C!PaidSessions : order'[s] = order[s], FeesReachAccount'
  PROVE  FeesReachAccount
<1>1. \A amount, m : FeeCredited(amount, m)' = FeeCredited(amount, m)
  BY DEF FeeCredited, FeeDue
<1>2. ASSUME NEW s \in C!PaidSessions
      PROVE  FeeCredited(order[s].amount, order[s].merchant)
               = FeeAmount(order[s].amount, order[s].merchant)
  <2>1. s \in C!PaidSessions' /\ order'[s] = order[s]
    BY <1>2
  <2> QED
    BY <1>1, <2>1 DEF FeesReachAccount
<1> QED
  BY <1>2 DEF FeesReachAccount

LEMMA MoneyStays ==
  ASSUME GatewayInv, CP!CheckoutInv', DP!CardsInv', UNCHANGED spent,
         FeesReachAccount' => FeesReachAccount,
         FeesReachAccount' => Held' + clearing = Held + clearing'
  PROVE  MoneyConserved'
<1> SUFFICES ASSUME FeesReachAccount'
             PROVE  SumFunction(balance') + fee' + SumFunction(spent')
                      = SumFunction([w \in Wallets |-> WalletRow[w].balance]) + clearing'
  BY DEF MoneyConserved
<1> DEFINE start == SumFunction([w \in Wallets |-> WalletRow[w].balance])
<1>1. /\ SumFunction(balance) + fee + SumFunction(spent) = start + clearing
      /\ SumFunction(balance) \in Int /\ SumFunction(spent) \in Int /\ start \in Int
      /\ fee \in Nat /\ clearing \in Nat
  BY AmountsKnown DEF GatewayInv, MoneyConserved
<1>2. /\ SumFunction(balance') \in Int /\ fee' \in Nat /\ clearing' \in Nat
      /\ SumFunction(spent') = SumFunction(spent)
  <2>1. balance' \in [Wallets -> Nat] /\ fee' \in Nat /\ clearing' \in Nat
    BY DEF CP!CheckoutInv, CP!TypeOK, CP!AccountsTypeOK
  <2>2. SumFunction(balance') = SumFunctionOnSet(balance', Wallets)
    BY <2>1 DEF SumFunction
  <2>3. SumFunction(balance') \in Int
    BY <2>1, <2>2, RequestsAssumption, SumType
  <2> QED
    BY <2>1, <2>3
<1> HIDE DEF start
<1>3. SumFunction(balance') + fee' + SumFunction(spent') = start + clearing'
  <2> DEFINE b == SumFunction(balance)
             c == SumFunction(balance')
             s == SumFunction(spent)
  <2>1. /\ b \in Int /\ c \in Int /\ s \in Int /\ start \in Int
        /\ fee \in Int /\ clearing \in Int /\ fee' \in Int /\ clearing' \in Int
        /\ b + fee + s = start + clearing /\ SumFunction(spent') = s
    BY <1>1, <1>2
  <2>2. (c + fee') + clearing = (b + fee) + clearing'
    BY DEF Held
  <2> HIDE DEF b, c, s
  <2>3. c + fee' + clearing + s = b + fee + clearing' + s
    BY <2>2
  <2>4. c + fee' + clearing + s = start + clearing + clearing'
    BY <2>1, <2>3
  <2>5. c + fee' + s = start + clearing'
    BY <2>1, <2>4
  <2> QED
    BY <2>1, <2>5 DEF c, s
<1> QED
  BY <1>3 DEF start

LEMMA CheckoutStepKeeps ==
  ASSUME GatewayInv, CheckoutEffect, CheckoutOnly
  PROVE  GatewayInv'
<1> USE DEF GatewayInv
<1>1. CP!CheckoutInv'
  BY CheckoutKeeps DEF CheckoutEffect
<1>2. /\ UNCHANGED <<charges, cache, stage, request, answer>>
      /\ UNCHANGED <<cardStatus, card, spent, cardTransactions, cardLock, making, cardPc,
                     cardBody, cardReply, seen, reopened>>
  BY DEF CheckoutOnly, chargeVars, cardVars
<1>3. HP!ChargeInv'
  <2>1. HP!AccountsTypeOK'
    BY <1>1, AccountsAreSame DEF CP!CheckoutInv, CP!TypeOK
  <2>2. HP!OthersStep
    BY <1>2, <2>1 DEF HP!OthersStep, HP!chargeVars, CheckoutEffect
  <2> QED
    BY <2>2, ChargesBear
<1>4. DP!CardsInv'
  <2>1. balance' \in [Wallets -> Nat] /\ crashes' \in 0 .. MaxCrashes
    BY <1>1 DEF CP!CheckoutInv, CP!TypeOK, CP!AccountsTypeOK
  <2>2. \A w \in Wallets : cardLock[w] # NoOne => balance'[w] >= balance[w]
    <3>1. \A w \in Wallets : cardLock[w] # NoOne => balance'[w] = balance[w]
      BY NoOneIsNoRequest DEF CheckoutEffect, LocksApart
    <3> QED
      BY <2>1, <3>1
  <2>3. DP!OthersStep
    BY <1>2, <2>1, <2>2 DEF DP!OthersStep, DP!history
  <2> QED
    BY <2>3, CardsBear
<1>5. LocksTyped' /\ LocksApart'
  BY <1>2, CardLocksTyped DEF CheckoutEffect, LocksApart
<1>6. FeesReachAccount' => Held' + clearing = Held + clearing'
  BY DEF CheckoutEffect
<1>7. FeesReachAccount' => FeesReachAccount
  <2>1. CP!PaidSessions = C!PaidSessions /\ CP!PaidSessions' = C!PaidSessions'
    BY DEF CP!PaidSessions, C!PaidSessions
  <2>2. C!PaidSessions \subseteq C!PaidSessions' /\ \A s \in C!PaidSessions : order'[s] = order[s]
    <3>1. CASE CP!Bystanding
      BY <2>1, <3>1 DEF CP!Bystanding
    <3>2. ASSUME NEW p \in Payments, CP!ApplyPayment(p)
          PROVE  /\ C!PaidSessions \subseteq C!PaidSessions'
                 /\ \A s \in C!PaidSessions : order'[s] = order[s]
      <4>1. status' = [status EXCEPT ![body[p].session] = "PAID"] /\ UNCHANGED order
        BY <3>2 DEF CP!ApplyPayment
      <4> QED
        BY <4>1 DEF C!PaidSessions, CP!CheckoutInv, CP!TypeOK
    <3> QED
      BY <3>1, <3>2, AccountsOfCheckout, NamesOfCheckout, WidthOfCheckout, InputsOfCheckout,
         CP!PaysOrStandsBy DEF CheckoutEffect
  <2> QED
    BY <1>2, <2>2, FeesWereWhole DEF CheckoutEffect
<1> QED
  BY <1>1, <1>2, <1>3, <1>4, <1>5, <1>6, <1>7, MoneyStays

LEMMA ChargeStepKeeps ==
  ASSUME GatewayInv, ChargeEffect, ChargeOnly
  PROVE  GatewayInv'
<1> USE DEF GatewayInv
<1>1. HP!ChargeInv'
  BY ChargesKeep DEF ChargeEffect
<1>2. /\ UNCHANGED <<order, status, payer, txID, late, transactions, sessionLock, pc, body,
                     reply, announced>>
      /\ UNCHANGED <<cardStatus, card, spent, cardTransactions, cardLock, making, cardPc,
                     cardBody, cardReply, seen, reopened>>
  BY DEF ChargeOnly, checkoutVars, cardVars
<1>3. CP!CheckoutInv'
  <2>1. CP!AccountsTypeOK'
    BY <1>1, AccountsAreSame DEF HP!ChargeInv, HP!TypeOK
  <2>2. CP!OthersStep
    BY <1>2, <2>1 DEF CP!OthersStep, CP!checkoutVars, ChargeEffect
  <2> QED
    BY <2>2, CheckoutBears
<1>4. DP!CardsInv'
  <2>1. balance' \in [Wallets -> Nat] /\ crashes' \in 0 .. MaxCrashes
    BY <1>1 DEF HP!ChargeInv, HP!TypeOK, HP!AccountsTypeOK
  <2>2. DP!OthersStep
    BY <1>2, <2>1 DEF DP!OthersStep, DP!history, ChargeEffect
  <2> QED
    BY <2>2, CardsBear
<1>5. LocksTyped' /\ LocksApart'
  BY <1>2, CardLocksTyped DEF ChargeEffect, LocksApart
<1>6. FeesReachAccount' => FeesReachAccount
  <2>1. UNCHANGED C!PaidSessions
    BY <1>2 DEF C!PaidSessions
  <2> QED
    BY <1>2, <2>1, FeesWereWhole DEF ChargeEffect
<1> QED
  BY <1>1, <1>2, <1>3, <1>4, <1>5, <1>6, MoneyStays DEF ChargeEffect

LEMMA CardsStepKeeps ==
  ASSUME GatewayInv, CardsEffect
  PROVE  GatewayInv'
<1> USE DEF GatewayInv
<1>1. DP!CardsInv'
  BY CardsKeep DEF CardsEffect
<1>2. /\ UNCHANGED <<open, clearing, fee, ledger, seeded, rowLock>>
      /\ UNCHANGED <<order, status, payer, txID, late, transactions, sessionLock, pc, body,
                     reply, announced>>
      /\ UNCHANGED <<charges, cache, stage, request, answer>>
      /\ UNCHANGED <<CheckoutLock, ChargeLock>>
  BY LocksStay DEF CardsEffect, checkoutVars, chargeVars
<1>3. /\ \A w \in Wallets : cardLock[w] # NoOne \/ balance'[w] = balance[w]
      /\ SumFunction(balance') + SumFunction(spent') = SumFunction(balance) + SumFunction(spent)
  <2>1. DP!MoneyMoves
    BY WalletsAreApart, InputsOfCards, DP!StepMovesMoney DEF CardsEffect
  <2> QED
    BY <2>1, SumsAreSame DEF DP!MoneyMoves
<1>4. CP!AccountsTypeOK' /\ HP!AccountsTypeOK'
  <2>1. balance' \in [Wallets -> Nat] /\ crashes' \in 0 .. MaxCrashes
    BY <1>1 DEF DP!CardsInv, DP!TypeOK
  <2> QED
    BY <1>2, <2>1 DEF CP!AccountsTypeOK, HP!AccountsTypeOK, CP!CheckoutInv, CP!TypeOK
<1>5. CP!CheckoutInv'
  <2>1. \A w \in Wallets : CheckoutLock[w] # NoOne => balance'[w] >= balance[w]
    <3>1. \A w \in Wallets : CheckoutLock[w] # NoOne => rowLock[w] # NoOne
      BY DEF CheckoutLock, HeldBy, Rows
    <3>2. \A w \in Wallets : CheckoutLock[w] # NoOne => balance'[w] = balance[w]
      BY <1>3, <3>1 DEF LocksApart
    <3>3. balance' \in [Wallets -> Nat]
      BY <1>4 DEF CP!AccountsTypeOK
    <3> QED
      BY <3>2, <3>3
  <2>2. CP!OthersStep
    BY <1>2, <1>4, <2>1 DEF CP!OthersStep, CP!checkoutVars
  <2> QED
    BY <2>2, CheckoutBears
<1>6. HP!ChargeInv'
  <2>1. HP!OthersStep
    BY <1>2, <1>4 DEF HP!OthersStep, HP!chargeVars
  <2> QED
    BY <2>1, ChargesBear
<1>7. LocksTyped' /\ LocksApart'
  <2>1. \A w \in Wallets : rowLock[w] \in Payments \cup Charges \cup {NoOne}
    BY DEF LocksTyped, Rows
  <2> QED
    BY <1>2, <2>1 DEF CardsEffect, LocksTyped, LocksApart
<1>8. MoneyConserved'
  <2>0. FeesReachAccount' => FeesReachAccount
    <3>1. UNCHANGED C!PaidSessions
      BY <1>2 DEF C!PaidSessions
    <3> QED
      BY <1>2, <3>1, FeesWereWhole
  <2> SUFFICES ASSUME FeesReachAccount'
               PROVE  SumFunction(balance') + fee' + SumFunction(spent')
                        = SumFunction([w \in Wallets |-> WalletRow[w].balance]) + clearing'
    BY DEF MoneyConserved
  <2> DEFINE start == SumFunction([w \in Wallets |-> WalletRow[w].balance])
  <2>1. /\ SumFunction(balance) + fee + SumFunction(spent) = start + clearing
        /\ SumFunction(balance) \in Int /\ SumFunction(spent) \in Int /\ start \in Int
        /\ fee \in Nat /\ clearing \in Nat
    BY <2>0, AmountsKnown DEF MoneyConserved
  <2>2. SumFunction(balance') \in Int /\ SumFunction(spent') \in Int
    <3>1. balance' \in [Wallets -> Nat] /\ spent' \in [Cards -> Nat] /\ IsFiniteSet(Cards)
      <4>1. IsFiniteSet(Cards)
        BY PartsAssumption DEF D!CardsAssumption, D!IsFiniteSet, IsFiniteSet
      <4> QED
        BY <1>1, <4>1 DEF DP!CardsInv, DP!TypeOK
    <3>2. /\ SumFunction(balance') = SumFunctionOnSet(balance', Wallets)
          /\ SumFunction(spent') = SumFunctionOnSet(spent', Cards)
      BY <3>1 DEF SumFunction
    <3>3. SumFunctionOnSet(balance', Wallets) \in Int
      BY <3>1, RequestsAssumption, SumType
    <3>4. SumFunctionOnSet(spent', Cards) \in Int
      BY <3>1, SumType
    <3> QED
      BY <3>2, <3>3, <3>4
  <2> HIDE DEF start
  <2>3. SumFunction(balance') + fee' + SumFunction(spent') = start + clearing'
    BY <1>2, <1>3, <2>1, <2>2
  <2> QED
    BY <2>3 DEF start
<1> QED
  BY <1>1, <1>5, <1>6, <1>7, <1>8

LEMMA DeleteKeeps ==
  ASSUME GatewayInv, NEW w \in Wallets, DeleteWallet(w)
  PROVE  GatewayInv'
<1> USE DEF GatewayInv
<1>1. /\ w \in open /\ rowLock[w] = NoOne /\ balance[w] = 0 /\ open' = open \ {w}
      /\ UNCHANGED <<balance, clearing, fee, ledger, seeded, rowLock, crashes>>
      /\ UNCHANGED <<checkoutVars, chargeVars, cardVars>>
  BY DEF DeleteWallet, CloseWallet
<1>2. UNCHANGED <<CheckoutLock, ChargeLock>> /\ CheckoutLock[w] = NoOne
  BY <1>1, LocksStay DEF CheckoutLock, HeldBy, Rows
<1>3. CP!CheckoutInv'
  <2>1. CP!CloseWallet(w)
    BY <1>1, <1>2 DEF CP!CloseWallet
  <2>2. UNCHANGED CP!checkoutVars
    BY <1>1 DEF CP!checkoutVars, checkoutVars
  <2> QED
    BY <2>1, <2>2, CheckoutKeeps DEF CP!Next
<1>4. HP!ChargeInv'
  <2>1. HP!AccountsTypeOK'
    BY <1>3, AccountsAreSame DEF CP!CheckoutInv, CP!TypeOK
  <2>2. HP!OthersStep
    BY <1>1, <1>2, <2>1 DEF HP!OthersStep, HP!chargeVars, chargeVars
  <2> QED
    BY <2>2, ChargesBear
<1>5. DP!CardsInv'
  <2>1. balance' \in [Wallets -> Nat] /\ crashes' \in 0 .. MaxCrashes
    BY <1>3 DEF CP!CheckoutInv, CP!TypeOK, CP!AccountsTypeOK
  <2>2. \A v \in Wallets : balance'[v] >= balance[v]
    BY <1>1, <2>1
  <2>3. DP!OthersStep
    BY <1>1, <2>1, <2>2 DEF DP!OthersStep, DP!history, cardVars
  <2> QED
    BY <2>3, CardsBear
<1>6. LocksTyped' /\ LocksApart'
  BY <1>1 DEF LocksTyped, LocksApart, cardVars
<1>7. UNCHANGED spent /\ Held' + clearing = Held + clearing'
  BY <1>1 DEF cardVars, Held
<1>8. FeesReachAccount' => FeesReachAccount
  <2>1. UNCHANGED <<order, charges, C!PaidSessions>>
    BY <1>1 DEF checkoutVars, chargeVars, C!PaidSessions
  <2> QED
    BY <1>1, <2>1, FeesWereWhole
<1> QED
  BY <1>3, <1>4, <1>5, <1>6, <1>7, <1>8, MoneyStays

LEMMA CrashKeeps ==
  ASSUME GatewayInv, Crash
  PROVE  GatewayInv'
<1> USE DEF GatewayInv
<1>1. /\ crashes < MaxCrashes /\ crashes' = crashes + 1
      /\ rowLock' = [n \in Rows |-> NoOne] /\ UNCHANGED accounts
      /\ C!EndPayments /\ H!EndCharges /\ D!Crash
  BY DEF Crash, Restart
<1>2. CheckoutLock' = [n \in Rows |-> NoOne] /\ ChargeLock' = [n \in Rows |-> NoOne]
  BY <1>1 DEF CheckoutLock, ChargeLock, HeldBy
<1>3. CP!CheckoutInv'
  <2>1. CP!Rows = Rows
    BY DEF Rows, CP!Rows, Accounts, CP!Accounts
  <2>2. CP!Restart
    BY <1>1, <1>2, <2>1 DEF CP!Restart, CP!accounts, accounts
  <2>3. CP!EndPayments
    BY <1>1 DEF C!EndPayments, CP!EndPayments, C!sessions, CP!sessions
  <2> QED
    BY <2>2, <2>3, CheckoutKeeps DEF CP!Next, CP!Crash
<1>4. HP!ChargeInv'
  <2>1. HP!Rows = Rows
    BY DEF Rows, HP!Rows, Accounts, HP!Accounts
  <2>2. HP!Restart
    BY <1>1, <1>2, <2>1 DEF HP!Restart, HP!accounts, accounts
  <2>3. HP!EndCharges
    BY <1>1 DEF H!EndCharges, HP!EndCharges
  <2> QED
    BY <2>2, <2>3, ChargesKeep DEF HP!Next, HP!Crash
<1>5. DP!CardsInv'
  <2>1. DP!Crash
    BY <1>1 DEF D!Crash, DP!Crash, D!tables, DP!tables, D!history, DP!history, D!Rows, DP!Rows
  <2> QED
    BY <2>1, CardsKeep DEF DP!Next
<1>6. LocksTyped' /\ LocksApart'
  BY <1>1 DEF LocksTyped, LocksApart, Rows
<1>7. UNCHANGED spent /\ Held' + clearing = Held + clearing'
  BY <1>1 DEF D!Crash, D!tables, Held, accounts
<1>8. FeesReachAccount' => FeesReachAccount
  <2>1. UNCHANGED <<order, charges, seeded, C!PaidSessions>>
    BY <1>1 DEF C!EndPayments, C!sessions, H!EndCharges, accounts, C!PaidSessions
  <2> QED
    BY <2>1, FeesWereWhole
<1> QED
  BY <1>3, <1>4, <1>5, <1>6, <1>7, <1>8, MoneyStays

LEMMA StutterKeeps ==
  ASSUME GatewayInv, UNCHANGED vars
  PROVE  GatewayInv'
<1> USE DEF GatewayInv
<1>1. /\ UNCHANGED <<accounts, rowLock, crashes>>
      /\ UNCHANGED <<checkoutVars, chargeVars, cardVars>>
      /\ UNCHANGED <<CheckoutLock, ChargeLock>>
  BY LocksStay DEF vars
<1>2. CP!CheckoutInv'
  <2>1. UNCHANGED CP!vars
    BY <1>1 DEF CP!vars, CP!accounts, accounts, CP!checkoutVars, checkoutVars
  <2> QED
    BY <2>1, AccountsOfCheckout, NamesOfCheckout, WidthOfCheckout, InputsOfCheckout, CP!StepKeeps
<1>3. HP!ChargeInv'
  <2>1. UNCHANGED HP!vars
    BY <1>1 DEF HP!vars, HP!accounts, accounts, HP!chargeVars, chargeVars
  <2> QED
    BY <2>1, AccountsOfCharges, NamesOfCharges, WidthOfCharges, InputsOfCharges, DateOfCharges, DrawnOfCharges,
       HP!StepKeeps
<1>4. DP!CardsInv'
  <2>1. UNCHANGED DP!vars
    BY <1>1 DEF DP!vars, DP!tables, DP!history, accounts, cardVars
  <2> QED
    BY <2>1, InputsOfCards, DP!StepKeeps
<1>5. LocksTyped' /\ LocksApart'
  BY <1>1 DEF LocksTyped, LocksApart, cardVars
<1>6. UNCHANGED spent /\ Held' + clearing = Held + clearing'
  BY <1>1 DEF cardVars, Held, accounts
<1>7. FeesReachAccount' => FeesReachAccount
  <2>1. UNCHANGED <<order, charges, seeded, C!PaidSessions>>
    BY <1>1 DEF checkoutVars, chargeVars, accounts, C!PaidSessions
  <2> QED
    BY <2>1, FeesWereWhole
<1> QED
  BY <1>2, <1>3, <1>4, <1>5, <1>6, <1>7, MoneyStays

LEMMA InitInv == Init => GatewayInv
<1> SUFFICES ASSUME Init PROVE GatewayInv
  OBVIOUS
<1>1. /\ open = Wallets /\ balance = [w \in Wallets |-> WalletRow[w].balance]
      /\ clearing = 0 /\ fee = 0 /\ ledger = {} /\ crashes = 0 /\ seeded \in Seedings
      /\ rowLock = [n \in Rows |-> NoOne]
      /\ C!CheckoutInit /\ H!ChargeInit /\ D!Init
  BY DEF Init, AccountsInit
<1>2. CheckoutLock = [n \in Rows |-> NoOne] /\ ChargeLock = [n \in Rows |-> NoOne]
  BY <1>1 DEF CheckoutLock, ChargeLock, HeldBy
<1>3. CP!CheckoutInv
  <2>1. CP!Rows = Rows
    BY DEF Rows, CP!Rows, Accounts, CP!Accounts
  <2>2. CP!AccountsInit
    BY <1>1, <1>2, <2>1 DEF CP!AccountsInit
  <2>3. CP!CheckoutInit
    BY <1>1 DEF C!CheckoutInit, CP!CheckoutInit, C!NoOrder, CP!NoOrder, C!NoBody, CP!NoBody
  <2> QED
    BY <2>2, <2>3, AccountsOfCheckout, NamesOfCheckout, WidthOfCheckout, InputsOfCheckout, CP!InitInv
    DEF CP!Init
<1>4. HP!ChargeInv
  <2>1. HP!Rows = Rows
    BY DEF Rows, HP!Rows, Accounts, HP!Accounts
  <2>2. HP!AccountsInit
    BY <1>1, <1>2, <2>1 DEF HP!AccountsInit
  <2>3. HP!ChargeInit
    BY <1>1 DEF H!ChargeInit, HP!ChargeInit, H!NoResponse, HP!NoResponse, H!NoRequest,
       HP!NoRequest
  <2> QED
    BY <2>2, <2>3, AccountsOfCharges, NamesOfCharges, WidthOfCharges, InputsOfCharges, DateOfCharges, DrawnOfCharges,
       HP!InitInv
    DEF HP!Init
<1>5. DP!CardsInv
  <2>1. DP!Init
    BY <1>1 DEF D!Init, DP!Init, D!NoCard, DP!NoCard, D!NoBody, DP!NoBody, D!Rows, DP!Rows
  <2> QED
    BY <2>1, InputsOfCards, DP!InitInv
<1>6. LocksTyped /\ LocksApart
  BY <1>1 DEF LocksTyped, LocksApart, Rows
<1>7. MoneyConserved
  <2>1. spent = [c \in Cards |-> 0] /\ IsFiniteSet(Cards)
    <3>1. IsFiniteSet(Cards)
      BY PartsAssumption DEF D!CardsAssumption, D!IsFiniteSet, IsFiniteSet
    <3> QED
      BY <1>1, <3>1 DEF D!Init
  <2>2. SumFunction(spent) = 0
    <3>1. SumFunction(spent) = SumFunctionOnSet(spent, Cards) /\ \A c \in Cards : spent[c] = 0
      BY <2>1 DEF SumFunction
    <3> QED
      BY <2>1, <3>1, SumZero
  <2>3. SumFunction(balance) \in Int
    BY <1>3, <1>5, AmountsKnown
  <2> QED
    BY <1>1, <2>2, <2>3 DEF MoneyConserved
<1> QED
  BY <1>3, <1>4, <1>5, <1>6, <1>7 DEF GatewayInv

LEMMA StepKeeps == GatewayInv /\ [Next]_vars => GatewayInv'
<1> SUFFICES ASSUME GatewayInv, [Next]_vars PROVE GatewayInv'
  OBVIOUS
<1>1. CASE CheckoutStep \/ \E p \in Payments : Pay(p)
  <2>1. CheckoutEffect
    BY <1>1, StepEffect, PayEffect DEF GatewayInv
  <2>2. CheckoutOnly
    BY <1>1 DEF CheckoutStep, Pay
  <2> QED
    BY <2>1, <2>2, CheckoutStepKeeps
<1>2. CASE ChargeStep \/ \E c \in Charges : ChargeCard(c)
  <2>1. ChargeEffect
    BY <1>2, ChargesEffect DEF GatewayInv
  <2>2. ChargeOnly
    BY <1>2 DEF ChargeStep, ChargeCard
  <2> QED
    BY <2>1, <2>2, ChargeStepKeeps
<1>3. CASE \/ CardStep \/ \E c \in Cards : IssueCard(c)
           \/ \E p \in CardPayments : PayByCard(p)
  BY <1>3, CardStepEffect, PayByCardEffect, CardsStepKeeps DEF GatewayInv
<1>4. CASE \E w \in Wallets : DeleteWallet(w)
  BY <1>4, DeleteKeeps
<1>5. CASE Crash
  BY <1>5, CrashKeeps
<1>6. CASE UNCHANGED vars
  BY <1>6, StutterKeeps
<1> QED
  BY <1>1, <1>2, <1>3, <1>4, <1>5, <1>6 DEF Next, Quiet

-----------------------------------------------------------------------------
(* What a payment of either kind checked still stands when it commits. *)
LEMMA ChecksOfParts ==
  ASSUME GatewayInv
  PROVE  C!ChecksHoldAtCommit /\ D!ChecksHoldAtCommit
<1> USE DEF GatewayInv
<1>1. CP!ChecksHoldAtCommit
  BY DEF CP!CheckoutInv, CP!LocksHeld, CP!ChecksHoldAtCommit
<1>2. DP!ChecksHoldAtCommit
  BY DEF DP!CardsInv, DP!LocksHeld, DP!ChecksHoldAtCommit
<1>3. \A p : CP!WalletPays(p) = C!WalletPays(p)
  BY DEF CP!WalletPays, C!WalletPays, CP!Order, C!Order
<1>4. \A p : DP!CardPays(p) = D!CardPays(p) /\ DP!Wallet(p) = D!Wallet(p)
  BY DEF DP!CardPays, D!CardPays, DP!Wallet, D!Wallet
<1>5. C!ChecksHoldAtCommit
  BY <1>1, <1>3 DEF C!ChecksHoldAtCommit, CP!ChecksHoldAtCommit
<1>6. D!ChecksHoldAtCommit
  BY <1>2, <1>4 DEF D!ChecksHoldAtCommit, DP!ChecksHoldAtCommit
<1> QED
  BY <1>5, <1>6

(* Requests of all kinds together create and destroy no money: what is in the
   wallets, in the fee account and spent with cards is what was there and what
   the card network paid in; no wallet is locked by two of them, and what each
   has checked of a wallet holds when it takes the money, although the others
   spend from the same wallet, delete it and restart the server. *)
THEOREM MoneyIsSafe == Spec => []MoneySafe
<1>1. Spec => []GatewayInv
  BY InitInv, StepKeeps, PTL DEF Spec
<1>2. GatewayInv => MoneySafe
  BY ChecksOfParts DEF GatewayInv, MoneySafe, WalletsShared, LocksApart
<1> QED
  BY <1>1, <1>2, PTL
=============================================================================
