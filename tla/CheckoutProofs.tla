--------------------------- MODULE CheckoutProofs ---------------------------
(***************************************************************************)
(* Proofs about Checkout, for any number of sessions, payments, wallets    *)
(* and restarts, amounts up to the largest int64 and fees up to the whole  *)
(* amount, also where the product of a fee wraps and where no fee account  *)
(* exists.                                                                 *)
(***************************************************************************)
EXTENDS Checkout, Sums, FiniteSetTheorems, TLAPS

LEMMA Product ==
  ASSUME NEW x \in Nat, NEW y \in Nat, NEW z \in Nat, y <= z
  PROVE  x * y \in Nat /\ x * y <= x * z
<1>1. x * y \in Nat /\ x * (z - y) \in Nat
  OBVIOUS
<1>2. x * z = x * y + x * (z - y)
  OBVIOUS
<1> QED
  BY <1>1, <1>2

(* What fits is kept, and what is a little too large turns negative. *)
LEMMA WrappedFacts ==
  /\ \A x \in Int : Wrapped(x) \in Int64
  /\ \A x \in Int64 : Wrapped(x) = x
  /\ \A x \in MaxInt + 1 .. 2 * MaxInt + 1 : Wrapped(x) < 0
<1> USE MaxIntAssumption
<1>1. ASSUME NEW x \in Int PROVE Wrapped(x) \in Int64
  BY Wrapping DEF Wrapped, Width, Int64
<1>2. ASSUME NEW x \in MaxInt + 1 .. 2 * MaxInt + 1 PROVE Wrapped(x) < 0
  BY Wrapping DEF Wrapped, Width, Int64
<1> QED
  BY <1>1, <1>2 DEF Wrapped

LEMMA Fraction ==
  ASSUME NEW x \in Nat
  PROVE  /\ x \div Whole \in Nat
         /\ \A y \in Nat : x <= y * Whole => x \div Whole <= y
         /\ x \div Whole <= x
BY DEF Whole

(* The shares of an amount: the fee may be negative if its product wraps, and the
   net amount then is too large, or wraps in turn; whenever the fee is not
   negative, the two shares are the amount. *)
LEMMA FeeSplit ==
  ASSUME NEW amount \in 1 .. MaxInt, NEW m \in Merchants
  PROVE  LET whole == FeeAmount(amount, m)
             net == NetAmount(amount, m)
         IN  /\ whole \in Int64 /\ net \in Int64
             /\ FeeProduct(amount, m) <= MaxInt => whole >= 0
             /\ whole >= 0 => net >= 0
             /\ whole >= 0 \/ net > 0 => net = amount - whole
<1> USE MaxIntAssumption
<1> DEFINE b == MerchantRow[m].bps
           part == amount * b
           low == Wrapped(part)
           whole == Quotient(low, Whole)
           net == Wrapped(amount - whole)
<1>1. b \in 0 .. Whole /\ Whole \in Nat
  <2>1. b \in 0 .. Whole
    BY AccountsAssumption
  <2>2. Whole \in Nat
    BY DEF Whole
  <2> QED
    BY <2>1, <2>2
<1> HIDE DEF b
<1>2. part \in Nat /\ part <= amount * Whole
  <2>1. amount \in Nat /\ b \in Nat /\ b <= Whole
    BY <1>1
  <2> QED
    BY <1>1, <2>1, Product
<1> HIDE DEF part
<1>3. low \in Int64 /\ (part <= MaxInt => low = part) /\ low <= part
  <2>1. low \in -(MaxInt + 1) .. MaxInt
    BY <1>2, WrappedFacts DEF Int64
  <2>2. part <= MaxInt => low = part
    BY <1>2, WrappedFacts DEF Int64
  <2> HIDE DEF low
  <2> QED
    BY <1>2, <2>1, <2>2 DEF Int64
<1> HIDE DEF low
<1>4. low >= 0 => whole \in 0 .. amount
  <2>1. CASE low >= 0
    <3>1. low \in Nat /\ low <= amount * Whole
      BY <1>1, <1>2, <1>3, <2>1 DEF Int64
    <3>2. low \div Whole \in Nat /\ low \div Whole <= amount
      BY <3>1, Fraction
    <3> QED
      BY <2>1, <3>2 DEF Quotient
  <2> QED
    BY <2>1
<1>5. low < 0 => whole \in -(MaxInt + 1) .. 0
  <2>1. CASE low < 0
    <3>1. -low \in Nat /\ -low <= MaxInt + 1
      BY <1>3, <2>1 DEF Int64
    <3>2. (-low) \div Whole \in Nat /\ (-low) \div Whole <= -low
      BY <3>1, Fraction
    <3>3. whole = -((-low) \div Whole)
      BY <1>3, <2>1 DEF Quotient, Int64
    <3> HIDE DEF whole
    <3> QED
      BY <3>1, <3>2, <3>3
  <2> QED
    BY <2>1
<1> HIDE DEF whole
<1>6. low \in Int
  BY <1>3 DEF Int64
<1>7. whole \in Int64
  BY <1>4, <1>5, <1>6 DEF Int64
<1>8. net \in Int64
  BY <1>7, WrappedFacts DEF Int64
<1>9. whole >= 0 => net = amount - whole /\ net >= 0
  <2>1. whole >= 0 => amount - whole \in 0 .. MaxInt
    BY <1>4, <1>5, <1>6
  <2> QED
    BY <2>1, WrappedFacts DEF Int64
<1>10. whole < 0 /\ net > 0 => net = amount - whole
  <2>1. whole < 0 => amount - whole \in 0 .. 2 * MaxInt + 1
    BY <1>4, <1>5, <1>6
  <2>2. amount - whole > MaxInt => ~(whole < 0 /\ net > 0)
    BY <1>8, <2>1, WrappedFacts DEF Int64
  <2> QED
    BY <2>1, <2>2, WrappedFacts DEF Int64
<1>11. part <= MaxInt => whole >= 0
  BY <1>2, <1>3, <1>4
<1> HIDE DEF net
<1>12. whole >= 0 \/ whole < 0
  BY <1>7 DEF Int64
<1> QED
  BY <1>7, <1>8, <1>9, <1>10, <1>11, <1>12 DEF FeeAmount, NetAmount, FeeProduct, net, whole, low, part, b

LEMMA FeeTypes ==
  ASSUME NEW amount \in 1 .. MaxInt, NEW m \in Merchants
  PROVE  /\ FeeAmount(amount, m) \in Int /\ NetAmount(amount, m) \in Int
         /\ FeeCredited(amount, m) \in Nat
<1>1. FeeAmount(amount, m) \in Int /\ NetAmount(amount, m) \in Int
  BY FeeSplit, MaxIntAssumption DEF Int64
<1> QED
  BY <1>1 DEF FeeCredited, FeeDue

-----------------------------------------------------------------------------
SessionsKnown == \A s \in Sessions : status[s] # "absent" => order[s] \in SessionInputs

PaymentsKnown ==
  \A p \in Payments :
    pc[p] \in TxSteps \cup {"enqueue"} =>
      body[p] \in PayInputs /\ status[body[p].session] # "absent"

(* A payment at a given step holds its session, its wallet and the merchant's
   wallet, and what it has checked of them is still so. *)
LocksHeld ==
  \A p \in Payments :
    /\ pc[p] \in {"lock_wallet", "credit_merchant", "credit_fee", "commit"} =>
         sessionLock[body[p].session] = p /\ status[body[p].session] = "PENDING"
    /\ pc[p] \in {"credit_merchant", "credit_fee", "commit"} =>
         rowLock[body[p].wallet] = p /\ WalletPays(p)
    /\ pc[p] \in {"credit_fee", "commit"} =>
         rowLock[Settlement(Order(p).merchant)] = p /\ MerchantBalance(p) >= 0

Paid(s, p) == status[s] = "PAID" /\ txID[s] = p

(* Whoever says that a session is paid is its transaction. *)
PaidKnown ==
  /\ \A p \in Payments : reply[p] = "paid" => pc[p] = "done"
  /\ \A p \in Payments : pc[p] = "enqueue" \/ reply[p] = "paid" => Paid(body[p].session, p)
  /\ \A e \in announced : Paid(e[1], e[2])

CheckoutInv == TypeOK /\ SessionsKnown /\ PaymentsKnown /\ LocksHeld /\ PaidKnown

LEMMA InitInv == Init => CheckoutInv
<1> SUFFICES ASSUME Init PROVE CheckoutInv
  OBVIOUS
<1> USE AccountsAssumption, CheckoutAssumption DEF Init, AccountsInit, CheckoutInit
<1>1. TypeOK
  BY DEF TypeOK, AccountsTypeOK, Rows, Accounts
<1>2. SessionsKnown /\ PaymentsKnown /\ LocksHeld /\ PaidKnown
  BY DEF SessionsKnown, PaymentsKnown, LocksHeld, PaidKnown, TxSteps
<1> QED
  BY <1>1, <1>2 DEF CheckoutInv

(* What is known of a payment that is on its way. *)
LEMMA Known ==
  ASSUME CheckoutInv, NEW p \in Payments, pc[p] \in TxSteps
  PROVE  /\ body[p] \in PayInputs /\ body[p].session \in Sessions
         /\ body[p].user \in Users /\ body[p].wallet \in Wallets
         /\ Order(p) \in SessionInputs /\ Order(p).amount \in Nat \ {0}
         /\ Order(p).merchant \in Merchants /\ Settlement(Order(p).merchant) \in Wallets
         /\ FeeAmount(Order(p).amount, Order(p).merchant) \in Int
         /\ NetAmount(Order(p).amount, Order(p).merchant) \in Int
         /\ FeeCredited(Order(p).amount, Order(p).merchant) \in Nat
<1>1. /\ body[p] \in PayInputs /\ body[p].session \in Sessions
      /\ body[p].user \in Users /\ body[p].wallet \in Wallets
  BY CheckoutAssumption DEF CheckoutInv, PaymentsKnown
<1>2. Order(p) \in SessionInputs
  BY <1>1 DEF CheckoutInv, PaymentsKnown, SessionsKnown, Order
<1>3. Order(p).amount \in 1 .. MaxInt /\ Order(p).merchant \in Merchants
  BY <1>2, CheckoutAssumption
<1>4. Settlement(Order(p).merchant) \in Wallets
  BY <1>3, AccountsAssumption DEF Settlement
<1>5. Order(p).amount \in Nat \ {0}
  BY <1>3, MaxIntAssumption
<1> QED
  BY <1>1, <1>2, <1>3, <1>4, <1>5, FeeTypes

(* The merchant's balance after a payment is about its order and its wallet. *)
LEMMA SameMerchantBalance ==
  ASSUME NEW p, Order(p)' = Order(p), body'[p] = body[p],
         balance'[Settlement(Order(p).merchant)] = balance[Settlement(Order(p).merchant)]
  PROVE  MerchantBalance(p)' = MerchantBalance(p)
BY DEF MerchantBalance, Settlement, NetAmount, FeeAmount

LEMMA CreateKeeps ==
  ASSUME CheckoutInv, NEW s \in Sessions, NEW in \in SessionInputs, CreateSession(s, in)
  PROVE  CheckoutInv'
<1> USE DEF CheckoutInv
<1>1. /\ status[s] = "absent"
      /\ order' = [order EXCEPT ![s] = in] /\ status' = [status EXCEPT ![s] = "PENDING"]
      /\ UNCHANGED <<accounts, rowLock, payer, txID, late, transactions, sessionLock,
                     pc, body, reply, announced, crashes>>
  BY DEF CreateSession
<1>2. TypeOK'
  BY <1>1 DEF TypeOK, AccountsTypeOK, accounts
<1>3. SessionsKnown' /\ PaymentsKnown'
  BY <1>1, CheckoutAssumption DEF TypeOK, SessionsKnown, PaymentsKnown
<1>4. \A p \in Payments : pc[p] \in TxSteps => body[p].session # s /\ Order(p)' = Order(p)
  BY <1>1, Known DEF TypeOK, PaymentsKnown, Order
<1>5. LocksHeld'
  BY <1>1, <1>4, Known
  DEF TypeOK, LocksHeld, TxSteps, WalletPays, MerchantBalance, accounts
<1>6. PaidKnown'
  BY <1>1 DEF TypeOK, PaidKnown, Paid
<1> QED
  BY <1>2, <1>3, <1>5, <1>6

LEMMA DeadlineKeeps ==
  ASSUME CheckoutInv, NEW s \in Sessions, PassDeadline(s)
  PROVE  CheckoutInv'
BY DEF PassDeadline, CheckoutInv, TypeOK, AccountsTypeOK, SessionsKnown, PaymentsKnown,
       LocksHeld, PaidKnown, Paid, WalletPays, MerchantBalance, Order, accounts, sessions

LEMMA SubmitKeeps ==
  ASSUME CheckoutInv, NEW p \in Payments, NEW in \in PayInputs, SubmitPay(p, in)
  PROVE  CheckoutInv'
<1> USE DEF CheckoutInv
<1>1. /\ pc[p] = "idle" /\ body' = [body EXCEPT ![p] = in]
      /\ \/ Answer(p, "error")
         \/ status[in.session] # "absent" /\ Goto(p, "lock_session") /\ UNCHANGED reply
      /\ UNCHANGED <<accounts, rowLock, sessions, late, sessionLock, announced, crashes>>
  BY DEF SubmitPay
<1>2. TypeOK'
  BY <1>1 DEF TypeOK, AccountsTypeOK, accounts, sessions, Answer, Goto, TxSteps
<1>3. \A q \in Payments \ {p} : pc'[q] = pc[q] /\ body'[q] = body[q] /\ reply'[q] = reply[q]
  BY <1>1 DEF TypeOK, Answer, Goto
<1>4. /\ body'[p] = in /\ pc'[p] \in {"done", "lock_session"}
      /\ reply'[p] # "paid"
      /\ pc'[p] = "lock_session" => status[in.session] # "absent"
  BY <1>1 DEF TypeOK, Answer, Goto, PaidKnown
<1>5. SessionsKnown' /\ PaymentsKnown'
  BY <1>1, <1>3, <1>4 DEF SessionsKnown, PaymentsKnown, sessions, TxSteps
<1>6. LocksHeld'
  BY <1>1, <1>3, <1>4 DEF LocksHeld, WalletPays, MerchantBalance, Order, sessions, accounts
<1>7. PaidKnown'
  BY <1>1, <1>3, <1>4 DEF PaidKnown, Paid, sessions
<1> QED
  BY <1>2, <1>5, <1>6, <1>7

(* A payment that gives up frees its locks and nobody else's. *)
LEMMA RollbackKeeps ==
  ASSUME CheckoutInv, NEW p \in Payments, pc[p] \in TxSteps, Rollback(p)
  PROVE  CheckoutInv'
<1> USE DEF CheckoutInv
<1>1. /\ rowLock' = [n \in Rows |-> IF rowLock[n] = p THEN NoOne ELSE rowLock[n]]
      /\ sessionLock' = [s \in Sessions |-> IF sessionLock[s] = p THEN NoOne
                                             ELSE sessionLock[s]]
      /\ pc' = [pc EXCEPT ![p] = "done"] /\ reply' = [reply EXCEPT ![p] = "error"]
      /\ UNCHANGED <<accounts, sessions, late, body, announced, crashes>>
  BY DEF Rollback, Release, Answer, Goto
<1>2. TypeOK'
  BY <1>1 DEF TypeOK, AccountsTypeOK, accounts, sessions
<1>3. SessionsKnown' /\ PaymentsKnown'
  BY <1>1 DEF TypeOK, SessionsKnown, PaymentsKnown, sessions, TxSteps
<1>4. LocksHeld'
  <2> SUFFICES ASSUME NEW q \in Payments, q # p, pc[q] \in TxSteps
               PROVE  /\ sessionLock[body[q].session] = q
                           => sessionLock'[body[q].session] = q
                      /\ rowLock[body[q].wallet] = q => rowLock'[body[q].wallet] = q
                      /\ rowLock[Settlement(Order(q).merchant)] = q
                           => rowLock'[Settlement(Order(q).merchant)] = q
    BY <1>1 DEF TypeOK, LocksHeld, WalletPays, MerchantBalance, Order, sessions, accounts, TxSteps
  <2> QED
    BY <1>1, Known DEF Rows
<1>5. PaidKnown'
  BY <1>1 DEF TypeOK, PaidKnown, Paid, sessions, TxSteps
<1> QED
  BY <1>2, <1>3, <1>4, <1>5

LEMMA LockSessionKeeps ==
  ASSUME CheckoutInv, NEW p \in Payments, LockSession(p)
  PROVE  CheckoutInv'
<1> USE DEF CheckoutInv
<1> DEFINE s == body[p].session
<1>1. pc[p] = "lock_session" /\ pc[p] \in TxSteps /\ sessionLock[s] = NoOne
  BY DEF LockSession, TxSteps
<1>2. CASE Rollback(p)
  BY <1>1, <1>2, RollbackKeeps
<1>3. CASE /\ status[s] = "PENDING"
           /\ sessionLock' = [sessionLock EXCEPT ![s] = p]
           /\ pc' = [pc EXCEPT ![p] = "lock_wallet"]
           /\ UNCHANGED <<accounts, rowLock, sessions, late, body, reply, announced, crashes>>
  <2>1. s \in Sessions
    BY <1>1, Known
  <2>2. TypeOK'
    BY <1>3, <2>1 DEF TypeOK, AccountsTypeOK, accounts, sessions, TxSteps
  <2>3. SessionsKnown' /\ PaymentsKnown'
    BY <1>1, <1>3 DEF TypeOK, SessionsKnown, PaymentsKnown, sessions, TxSteps
  <2>4. LocksHeld'
    BY <1>1, <1>3, <2>1, CheckoutAssumption
    DEF TypeOK, LocksHeld, WalletPays, MerchantBalance, Order, sessions, accounts
  <2>5. PaidKnown'
    BY <1>1, <1>3 DEF TypeOK, PaidKnown, Paid, sessions
  <2> QED
    BY <2>2, <2>3, <2>4, <2>5
<1> QED
  BY <1>2, <1>3 DEF LockSession, Goto

(* A payment takes a row that is free to it and goes on. *)
LEMMA TakeRowKeeps ==
  ASSUME CheckoutInv, NEW p \in Payments, NEW n \in Rows, RowFree(p, n),
         NEW step \in {"credit_merchant", "credit_fee", "commit"}, TakeRow(p, n, step),
         pc[p] \in {"lock_wallet", "credit_merchant", "credit_fee"},
         n = body[p].wallet \/ rowLock[body[p].wallet] = p,
         WalletPays(p),
         step # "credit_merchant" => \/ n = Settlement(Order(p).merchant)
                                    \/ rowLock[Settlement(Order(p).merchant)] = p,
         step # "credit_merchant" => MerchantBalance(p) >= 0
  PROVE  CheckoutInv'
<1> USE DEF CheckoutInv
<1>1. /\ rowLock' = [rowLock EXCEPT ![n] = p] /\ pc' = [pc EXCEPT ![p] = step]
      /\ UNCHANGED <<accounts, sessions, late, sessionLock, body, reply, announced, crashes>>
  BY DEF TakeRow, Goto
<1>2. TypeOK'
  BY <1>1 DEF TypeOK, AccountsTypeOK, accounts, sessions, TxSteps
<1>3. SessionsKnown' /\ PaymentsKnown'
  BY <1>1 DEF TypeOK, SessionsKnown, PaymentsKnown, sessions, TxSteps
<1>4. ASSUME NEW q \in Payments, NEW r \in Rows, rowLock[r] = q
      PROVE  rowLock'[r] = q
  BY <1>1, <1>4, CheckoutAssumption DEF TypeOK, RowFree
<1>5. \A q \in Payments : pc[q] \in TxSteps =>
        body[q].wallet \in Rows /\ Settlement(Order(q).merchant) \in Rows
  BY Known DEF Rows
<1>6. rowLock'[n] = p
  BY <1>1 DEF TypeOK
<1>7. ASSUME NEW q \in Payments
      PROVE  /\ Order(q)' = Order(q) /\ (WalletPays(q)' <=> WalletPays(q))
             /\ MerchantBalance(q)' = MerchantBalance(q)
  <2>1. Order(q)' = Order(q) /\ body'[q] = body[q] /\ balance' = balance /\ open' = open
    BY <1>1 DEF Order, sessions, accounts
  <2> QED
    BY <2>1, SameMerchantBalance DEF WalletPays
<1>8. LocksHeld'
  <2> SUFFICES ASSUME NEW q \in Payments
               PROVE  /\ pc'[q] \in {"lock_wallet", "credit_merchant", "credit_fee", "commit"}
                           => sessionLock[body[q].session] = q
                              /\ status[body[q].session] = "PENDING"
                      /\ pc'[q] \in {"credit_merchant", "credit_fee", "commit"}
                           => rowLock'[body[q].wallet] = q /\ WalletPays(q)
                      /\ pc'[q] \in {"credit_fee", "commit"}
                           => rowLock'[Settlement(Order(q).merchant)] = q
                              /\ MerchantBalance(q) >= 0
    BY <1>1, <1>7 DEF LocksHeld, sessions
  <2>1. CASE q = p
    BY <1>1, <1>4, <1>5, <1>6, <2>1 DEF TypeOK, LocksHeld, TxSteps
  <2>2. CASE q # p
    BY <1>1, <1>4, <1>5, <2>2 DEF TypeOK, LocksHeld, TxSteps
  <2> QED
    BY <2>1, <2>2
<1>9. PaidKnown'
  BY <1>1 DEF TypeOK, PaidKnown, Paid, sessions
<1> QED
  BY <1>2, <1>3, <1>8, <1>9

(* Nothing is locked for the fee where its account does not exist. *)
LEMMA NoFeeRowKeeps ==
  ASSUME CheckoutInv, NEW p \in Payments, pc[p] = "credit_fee", Goto(p, "commit"),
         UNCHANGED <<accounts, rowLock, sessions, late, sessionLock, body, reply, announced,
                     crashes>>
  PROVE  CheckoutInv'
<1> USE DEF CheckoutInv
<1>1. pc' = [pc EXCEPT ![p] = "commit"]
  BY DEF Goto
<1>2. TypeOK'
  BY <1>1 DEF TypeOK, AccountsTypeOK, accounts, sessions, TxSteps
<1>3. SessionsKnown' /\ PaymentsKnown'
  BY <1>1 DEF TypeOK, SessionsKnown, PaymentsKnown, sessions, TxSteps
<1>4. LocksHeld'
  BY <1>1 DEF TypeOK, LocksHeld, WalletPays, MerchantBalance, Order, sessions, accounts
<1>5. PaidKnown'
  BY <1>1 DEF TypeOK, PaidKnown, Paid, sessions
<1> QED
  BY <1>2, <1>3, <1>4, <1>5

LEMMA RowStepsKeep ==
  ASSUME CheckoutInv, NEW p \in Payments,
         LockWallet(p) \/ CreditMerchant(p) \/ CreditFee(p)
  PROVE  CheckoutInv'
<1> DEFINE w == body[p].wallet
           m == Order(p).merchant
<1>1. pc[p] \in TxSteps
  BY DEF LockWallet, CreditMerchant, CreditFee, TxSteps
<1>2. w \in Rows /\ Settlement(m) \in Rows /\ "fee" \in Rows
  BY <1>1, Known DEF Rows, Accounts
<1>3. CASE LockWallet(p)
  BY <1>1, <1>2, <1>3, TakeRowKeeps, RollbackKeeps DEF LockWallet
<1>4. CASE CreditMerchant(p)
  <2>1. rowLock[w] = p /\ WalletPays(p)
    BY <1>4 DEF CreditMerchant, CheckoutInv, LocksHeld
  <2>2. CASE Rollback(p)
    BY <1>1, <2>2, RollbackKeeps
  <2>3. CASE ~Rollback(p)
    <3>1. MerchantBalance(p) >= 0
      BY <1>4, <2>3, MaxIntAssumption DEF CreditMerchant
    <3> QED
      BY <1>2, <1>4, <2>1, <2>3, <3>1, TakeRowKeeps DEF CreditMerchant
  <2> QED
    BY <2>2, <2>3
<1>5. CASE CreditFee(p)
  <2>1. /\ rowLock[w] = p /\ WalletPays(p) /\ rowLock[Settlement(m)] = p
        /\ MerchantBalance(p) >= 0
    BY <1>5 DEF CreditFee, CheckoutInv, LocksHeld
  <2>2. CASE RowFree(p, "fee") /\ TakeRow(p, "fee", "commit")
    BY <1>2, <1>5, <2>1, <2>2, TakeRowKeeps DEF CreditFee
  <2>3. CASE Rollback(p)
    BY <1>1, <2>3, RollbackKeeps
  <2> QED
    BY <1>5, <2>2, <2>3, NoFeeRowKeeps DEF CreditFee
<1> QED
  BY <1>3, <1>4, <1>5

-----------------------------------------------------------------------------
LEMMA TwoRows ==
  ASSUME NEW S, NEW f \in [S -> Nat], NEW w \in S, NEW t \in S,
         NEW a \in Nat, NEW n \in Int, f[w] >= a,
         f[t] + n - (IF w = t THEN a ELSE 0) >= 0
  PROVE  LET g == [[f EXCEPT ![w] = @ - a] EXCEPT ![t] = @ + n]
         IN  g \in [S -> Nat] /\ \A v \in S : v # w /\ v # t => g[v] = f[v]
<1> DEFINE g == [f EXCEPT ![w] = @ - a]
<1>1. g \in [S -> Nat] /\ \A v \in S : v # w => g[v] = f[v]
  OBVIOUS
<1> QED
  BY <1>1

(* The commit moves the money of one session between rows that the payment
   holds. *)
LEMMA ApplyMoves ==
  ASSUME CheckoutInv, NEW p \in Payments, pc[p] = "commit", ApplyPayment(p)
  PROVE  /\ balance' \in [Wallets -> Nat]
         /\ \A w \in Wallets : rowLock[w] # p => balance'[w] = balance[w]
<1> DEFINE w == body[p].wallet
           t == Settlement(Order(p).merchant)
           amount == Order(p).amount
           net == NetAmount(amount, Order(p).merchant)
<1>1. /\ w \in Wallets /\ t \in Wallets /\ amount \in Nat /\ net \in Int
      /\ balance \in [Wallets -> Nat] /\ balance[w] >= amount
      /\ rowLock[w] = p /\ rowLock[t] = p /\ MerchantBalance(p) >= 0
  BY Known DEF CheckoutInv, TypeOK, AccountsTypeOK, LocksHeld, WalletPays, TxSteps
<1>2. balance' = [[balance EXCEPT ![w] = @ - amount] EXCEPT ![t] = @ + net]
  BY DEF ApplyPayment
<1>3. balance[t] + net - (IF w = t THEN amount ELSE 0) >= 0
  BY <1>1 DEF MerchantBalance
<1> HIDE DEF w, t, amount, net
<1> QED
  BY <1>1, <1>2, <1>3, TwoRows

LEMMA ApplyKeeps ==
  ASSUME CheckoutInv, NEW p \in Payments, pc[p] = "commit", ApplyPayment(p),
         \/ Goto(p, "enqueue") /\ UNCHANGED reply
         \/ Answer(p, "error")
  PROVE  CheckoutInv'
<1> USE DEF CheckoutInv
<1> DEFINE s == body[p].session
           t == [id |-> p, from |-> body[p].wallet, to |-> Settlement(Order(p).merchant),
                 amount |-> Order(p).amount]
<1>1. /\ s \in Sessions /\ body[p].user \in Users
      /\ t \in [id : Payments, from : Wallets, to : Wallets, amount : Nat]
      /\ FeeCredited(Order(p).amount, Order(p).merchant) \in Nat
      /\ status[s] = "PENDING" /\ sessionLock[s] = p
  BY Known DEF LocksHeld, TxSteps
<1>2. /\ fee' = fee + FeeCredited(Order(p).amount, Order(p).merchant)
      /\ transactions' = transactions \cup {t}
      /\ status' = [status EXCEPT ![s] = "PAID"]
      /\ payer' = [payer EXCEPT ![s] = body[p].user] /\ txID' = [txID EXCEPT ![s] = p]
      /\ rowLock' = [n \in Rows |-> IF rowLock[n] = p THEN NoOne ELSE rowLock[n]]
      /\ sessionLock' = [r \in Sessions |-> IF sessionLock[r] = p THEN NoOne
                                             ELSE sessionLock[r]]
      /\ UNCHANGED <<open, clearing, ledger, seeded, order, late, body, announced, crashes>>
  BY DEF ApplyPayment, Release, Order
<1>3. /\ pc'[p] \in {"enqueue", "done"} /\ pc' \in [Payments -> TxSteps \cup {"idle", "enqueue", "done"}]
      /\ reply'[p] # "paid" /\ reply' \in [Payments -> {"none", "paid", "error"}]
      /\ \A q \in Payments \ {p} : pc'[q] = pc[q] /\ reply'[q] = reply[q]
  BY DEF Goto, Answer, TypeOK, PaidKnown
<1> HIDE DEF t
<1>4. TypeOK'
  <2>1. AccountsTypeOK'
    BY <1>1, <1>2, ApplyMoves DEF TypeOK, AccountsTypeOK
  <2> QED
    BY <1>1, <1>2, <1>3, <2>1 DEF TypeOK
<1>5. SessionsKnown' /\ PaymentsKnown'
  BY <1>1, <1>2, <1>3 DEF TypeOK, SessionsKnown, PaymentsKnown, TxSteps
<1>6. LocksHeld'
  <2> SUFFICES ASSUME NEW q \in Payments, pc'[q] \in TxSteps
               PROVE  /\ pc'[q] \in {"lock_wallet", "credit_merchant", "credit_fee", "commit"}
                           => sessionLock'[body[q].session] = q
                              /\ status'[body[q].session] = "PENDING"
                      /\ pc'[q] \in {"credit_merchant", "credit_fee", "commit"}
                           => rowLock'[body[q].wallet] = q /\ WalletPays(q)'
                      /\ pc'[q] \in {"credit_fee", "commit"}
                           => rowLock'[Settlement(Order(q).merchant)] = q
                              /\ MerchantBalance(q)' >= 0
    BY SMTT(30), <1>2 DEF LocksHeld, TxSteps, Order
  <2>1. q # p /\ pc'[q] = pc[q]
    BY <1>3 DEF TxSteps
  <2>2. /\ body[q].session \in Sessions /\ body[q].wallet \in Wallets
        /\ body[q].wallet \in Rows /\ Settlement(Order(q).merchant) \in Rows
    BY <2>1, Known DEF Rows
  <2>3. ASSUME pc[q] \in {"lock_wallet", "credit_merchant", "credit_fee", "commit"}
        PROVE  sessionLock'[body[q].session] = q /\ status'[body[q].session] = "PENDING"
    BY <1>1, <1>2, <2>1, <2>2, <2>3 DEF TypeOK, LocksHeld
  <2>4. ASSUME pc[q] \in {"credit_merchant", "credit_fee", "commit"}
        PROVE  rowLock'[body[q].wallet] = q /\ WalletPays(q)'
    <3>1. rowLock[body[q].wallet] = q /\ WalletPays(q)
      BY <2>4 DEF LocksHeld
    <3>2. balance'[body[q].wallet] = balance[body[q].wallet]
      BY <2>1, <2>2, <3>1, ApplyMoves
    <3> QED
      BY <1>2, <2>1, <2>2, <3>1, <3>2 DEF WalletPays, Order
  <2>5. ASSUME pc[q] \in {"credit_fee", "commit"}
        PROVE  rowLock'[Settlement(Order(q).merchant)] = q /\ MerchantBalance(q)' >= 0
    <3>1. rowLock[Settlement(Order(q).merchant)] = q /\ MerchantBalance(q) >= 0
      BY <2>5 DEF LocksHeld
    <3>2. Settlement(Order(q).merchant) \in Wallets
      BY <2>1, Known
    <3>3. Order(q)' = Order(q) /\ body'[q] = body[q]
      BY <1>2 DEF Order
    <3>4. MerchantBalance(q)' = MerchantBalance(q)
      BY <2>1, <3>1, <3>2, <3>3, ApplyMoves, SameMerchantBalance
    <3> QED
      BY <1>2, <2>1, <2>2, <3>1, <3>4
  <2> QED
    BY <2>1, <2>3, <2>4, <2>5
<1>7. PaidKnown'
  BY <1>1, <1>2, <1>3 DEF TypeOK, PaidKnown, Paid
<1> QED
  BY <1>4, <1>5, <1>6, <1>7

LEMMA EnqueueKeeps ==
  ASSUME CheckoutInv, NEW p \in Payments, Enqueue(p)
  PROVE  CheckoutInv'
<1> USE DEF CheckoutInv
<1>1. /\ pc[p] = "enqueue" /\ announced' = announced \cup {<<body[p].session, p>>}
      /\ pc' = [pc EXCEPT ![p] = "done"] /\ reply' = [reply EXCEPT ![p] = "paid"]
      /\ UNCHANGED <<accounts, rowLock, sessions, late, sessionLock, body, crashes>>
  BY DEF Enqueue, Answer, Goto
<1>2. Paid(body[p].session, p) /\ body[p].session \in Sessions
  BY <1>1, CheckoutAssumption DEF PaidKnown, PaymentsKnown
<1>3. TypeOK'
  BY <1>1, <1>2 DEF TypeOK, AccountsTypeOK, accounts, sessions
<1>4. SessionsKnown' /\ PaymentsKnown' /\ LocksHeld'
  BY <1>1 DEF TypeOK, SessionsKnown, PaymentsKnown, LocksHeld, WalletPays, MerchantBalance, Order, sessions,
              accounts, TxSteps
<1>5. PaidKnown'
  BY <1>1, <1>2 DEF TypeOK, PaidKnown, Paid, sessions
<1> QED
  BY <1>3, <1>4, <1>5

LEMMA CrashKeeps ==
  ASSUME CheckoutInv, Crash
  PROVE  CheckoutInv'
<1> USE DEF CheckoutInv
<1>1. /\ crashes < MaxCrashes /\ crashes' = crashes + 1
      /\ rowLock' = [n \in Rows |-> NoOne] /\ sessionLock' = [s \in Sessions |-> NoOne]
      /\ pc' = [p \in Payments |-> IF pc[p] = "idle" THEN "idle" ELSE "done"]
      /\ UNCHANGED <<accounts, sessions, late, body, reply, announced>>
  BY DEF Crash, Restart, EndPayments
<1>2. TypeOK'
  BY <1>1, AccountsAssumption DEF TypeOK, AccountsTypeOK, accounts, sessions
<1>3. SessionsKnown' /\ PaymentsKnown' /\ LocksHeld'
  BY <1>1 DEF SessionsKnown, PaymentsKnown, LocksHeld, sessions, TxSteps
<1>4. PaidKnown'
  BY <1>1 DEF PaidKnown, Paid, sessions
<1> QED
  BY <1>2, <1>3, <1>4

(* A wallet that a payment has checked is not deleted under it: it is locked. *)
LEMMA CloseKeeps ==
  ASSUME CheckoutInv, NEW w \in Wallets, CloseWallet(w), UNCHANGED checkoutVars
  PROVE  CheckoutInv'
<1> USE DEF CheckoutInv
<1>1. /\ rowLock[w] = NoOne /\ open' = open \ {w}
      /\ UNCHANGED <<balance, clearing, fee, ledger, seeded, rowLock, crashes>>
      /\ UNCHANGED <<order, status, payer, txID, late, transactions, sessionLock,
                     pc, body, reply, announced>>
  BY DEF CloseWallet, checkoutVars
<1>2. TypeOK'
  BY <1>1 DEF TypeOK, AccountsTypeOK
<1>3. SessionsKnown' /\ PaymentsKnown' /\ PaidKnown'
  BY <1>1 DEF SessionsKnown, PaymentsKnown, PaidKnown, Paid
<1>4. LocksHeld'
  BY <1>1, CheckoutAssumption DEF LocksHeld, WalletPays, MerchantBalance, Order
<1> QED
  BY <1>2, <1>3, <1>4

LEMMA UnchangedKeeps ==
  ASSUME CheckoutInv, UNCHANGED vars
  PROVE  CheckoutInv'
BY DEF vars, checkoutVars, accounts, CheckoutInv, TypeOK, AccountsTypeOK, SessionsKnown,
       PaymentsKnown, LocksHeld, PaidKnown, Paid, WalletPays, MerchantBalance, Order

LEMMA StepKeeps == CheckoutInv /\ [Next]_vars => CheckoutInv'
<1> SUFFICES ASSUME CheckoutInv, [Next]_vars PROVE CheckoutInv'
  OBVIOUS
<1>1. ASSUME NEW s \in Sessions, NEW in \in SessionInputs, CreateSession(s, in)
      PROVE  CheckoutInv'
  BY <1>1, CreateKeeps
<1>2. ASSUME NEW s \in Sessions, PassDeadline(s) PROVE CheckoutInv'
  BY <1>2, DeadlineKeeps
<1>3. ASSUME NEW p \in Payments, NEW in \in PayInputs, SubmitPay(p, in) PROVE CheckoutInv'
  BY <1>3, SubmitKeeps
<1>4. ASSUME NEW p \in Payments, LockSession(p) PROVE CheckoutInv'
  BY <1>4, LockSessionKeeps
<1>5. ASSUME NEW p \in Payments, LockWallet(p) \/ CreditMerchant(p) \/ CreditFee(p)
      PROVE  CheckoutInv'
  BY <1>5, RowStepsKeep
<1>6. ASSUME NEW p \in Payments, Commit(p) \/ CommitUnacknowledged(p) PROVE CheckoutInv'
  BY <1>6, ApplyKeeps DEF Commit, CommitUnacknowledged
<1>7. ASSUME NEW p \in Payments, Enqueue(p) PROVE CheckoutInv'
  BY <1>7, EnqueueKeeps
<1>8. ASSUME NEW p \in Payments, DetectDeadlock(p) \/ Abort(p) PROVE CheckoutInv'
  <2>1. Rollback(p)
    BY <1>8 DEF DetectDeadlock, Abort
  <2>2. CASE pc[p] \in TxSteps
    BY <2>1, <2>2, RollbackKeeps
  <2>3. CASE DetectDeadlock(p)
    <3>1. \E q \in Payments : Blocks(p, q) \/ Blocks(q, p)
      BY <2>3 DEF DetectDeadlock, Deadlocked
    <3>2. pc[p] \in TxSteps
      BY <2>3 DEF DetectDeadlock, Deadlocked, Blocks, WaitsFor, TxSteps
    <3> QED
      BY <2>1, <3>2, RollbackKeeps
  <2> QED
    BY <1>8, <2>2, <2>3 DEF Abort
<1>9. CASE Crash
  BY <1>9, CrashKeeps
<1>10. ASSUME NEW w \in Wallets, CloseWallet(w), UNCHANGED checkoutVars PROVE CheckoutInv'
  BY <1>10, CloseKeeps
<1>11. CASE UNCHANGED vars
  BY <1>11, UnchangedKeeps
<1> QED
  BY <1>1, <1>2, <1>3, <1>4, <1>5, <1>6, <1>7, <1>8, <1>9, <1>10, <1>11
  DEF Next, CheckoutNext, PaymentStep, Quiet

(* What others may do to the accounts while payments run: they take no money
   from a wallet that a payment has locked, and leave its locks alone. *)
OthersStep ==
  /\ UNCHANGED <<checkoutVars, open, seeded, rowLock>> /\ AccountsTypeOK'
  /\ \A w \in Wallets : rowLock[w] # NoOne => balance'[w] >= balance[w]

LEMMA OthersKeep == CheckoutInv /\ OthersStep => CheckoutInv'
<1> SUFFICES ASSUME CheckoutInv, OthersStep PROVE CheckoutInv'
  OBVIOUS
<1> USE DEF CheckoutInv, OthersStep
<1>1. UNCHANGED <<order, status, payer, txID, late, transactions, sessionLock,
                  pc, body, reply, announced>>
  BY DEF checkoutVars
<1>2. TypeOK'
  BY <1>1 DEF TypeOK
<1>3. SessionsKnown' /\ PaymentsKnown' /\ PaidKnown'
  BY <1>1 DEF SessionsKnown, PaymentsKnown, PaidKnown, Paid
<1>4. LocksHeld'
  <2> SUFFICES ASSUME NEW p \in Payments, pc[p] \in {"credit_merchant", "credit_fee", "commit"}
               PROVE  /\ WalletPays(p)'
                      /\ pc[p] # "credit_merchant" => MerchantBalance(p)' >= 0
    BY <1>1 DEF LocksHeld, Order
  <2>1. /\ body[p].wallet \in Wallets /\ rowLock[body[p].wallet] = p /\ WalletPays(p)
        /\ Order(p).amount \in Nat /\ Order(p)' = Order(p)
    BY <1>1, Known DEF LocksHeld, TxSteps, Order
  <2>2. balance'[body[p].wallet] >= balance[body[p].wallet]
    BY <2>1, CheckoutAssumption
  <2>3. balance'[body[p].wallet] \in Nat /\ balance[body[p].wallet] \in Nat
    BY <1>2, <2>1 DEF TypeOK, AccountsTypeOK
  <2>4. WalletPays(p)'
    BY <1>1, <2>1, <2>2, <2>3 DEF WalletPays
  <2>5. ASSUME pc[p] # "credit_merchant" PROVE MerchantBalance(p)' >= 0
    <3> DEFINE t == Settlement(Order(p).merchant)
               net == NetAmount(Order(p).amount, Order(p).merchant)
               out == IF body[p].wallet = t THEN Order(p).amount ELSE 0
    <3>1. t \in Wallets /\ net \in Int /\ out \in Int /\ body'[p] = body[p]
      BY <1>1, <2>1, Known DEF TxSteps
    <3>2. rowLock[t] = p /\ balance[t] + net - out >= 0
      BY <2>5 DEF LocksHeld, MerchantBalance
    <3>3. balance'[t] >= balance[t] /\ balance'[t] \in Int /\ balance[t] \in Int
      BY <1>2, <3>1, <3>2, CheckoutAssumption DEF TypeOK, AccountsTypeOK
    <3>4. MerchantBalance(p)' = balance'[t] + net - out
      BY <2>1, <3>1 DEF MerchantBalance, Settlement, NetAmount, FeeAmount
    <3> HIDE DEF t, net, out
    <3> QED
      BY <3>1, <3>2, <3>3, <3>4
  <2> QED
    BY <2>4, <2>5
<1> QED
  BY <1>2, <1>3, <1>4

LEMMA Invariance == Spec => []CheckoutInv
BY InitInv, StepKeeps, PTL DEF Spec

-----------------------------------------------------------------------------
(* Every reachable state is well-typed: in particular no payment, however it
   meets the others, takes a wallet below zero. *)
THEOREM CheckoutTypeCorrect == Spec => []TypeOK
<1>1. CheckoutInv => TypeOK
  BY DEF CheckoutInv
<1> QED
  BY <1>1, Invariance, PTL

(* At most the payment that a session records says that it is paid, to its
   client or to the merchant. *)
THEOREM SuccessMeansPaidHolds == Spec => []SuccessMeansPaid
<1>1. CheckoutInv => SuccessMeansPaid
  BY DEF CheckoutInv, SuccessMeansPaid, PaidKnown, Paid
<1> QED
  BY <1>1, Invariance, PTL

(* What a payment checked before it waited for other rows still stands when
   it commits. *)
THEOREM ChecksStand == Spec => []ChecksHoldAtCommit
<1>1. CheckoutInv => ChecksHoldAtCommit
  BY DEF CheckoutInv, ChecksHoldAtCommit, LocksHeld
<1> QED
  BY <1>1, Invariance, PTL

(* A paid session stays paid, by the same user and transaction. *)
THEOREM PaidStaysPaid == Spec => PaidIsFinal
<1> DEFINE Stays == \A s \in Sessions : status[s] = "PAID" =>
                      /\ status'[s] = "PAID" /\ txID'[s] = txID[s]
                      /\ payer'[s] = payer[s] /\ order'[s] = order[s]
<1>1. ASSUME CheckoutInv, [Next]_vars
      PROVE  Stays
  <2>1. CASE UNCHANGED <<order, status, payer, txID>>
    BY <2>1
  <2>2. ASSUME NEW s \in Sessions, NEW in \in SessionInputs, CreateSession(s, in)
        PROVE  Stays
    BY <1>1, <2>2 DEF CreateSession, CheckoutInv, TypeOK
  <2>3. ASSUME NEW p \in Payments, pc[p] = "commit", ApplyPayment(p)
        PROVE  Stays
    <3>1. body[p].session \in Sessions /\ status[body[p].session] = "PENDING"
      BY <1>1, <2>3, Known DEF CheckoutInv, LocksHeld, TxSteps
    <3> QED
      BY <1>1, <2>3, <3>1 DEF ApplyPayment, CheckoutInv, TypeOK
  <2>4. ASSUME NEW p \in Payments, PaymentStep(p) \/ CommitUnacknowledged(p) \/ Abort(p)
        PROVE  Stays
    <3>1. CASE UNCHANGED sessions
      BY <2>1, <3>1 DEF sessions
    <3>2. CASE Commit(p) \/ CommitUnacknowledged(p)
      BY <2>3, <3>2 DEF Commit, CommitUnacknowledged
    <3> QED
      BY <2>4, <3>1, <3>2
      DEF PaymentStep, LockSession, LockWallet, CreditMerchant, CreditFee, Enqueue,
          DetectDeadlock, Abort, Rollback, TakeRow
  <2> QED
    BY <1>1, <2>1, <2>2, <2>4
    DEF Next, CheckoutNext, PassDeadline, SubmitPay, sessions, Crash, EndPayments,
        checkoutVars, Quiet, vars
<1>2. CheckoutInv /\ [Next]_vars => [Stays]_vars
  BY <1>1
<1> QED
  BY <1>2, Invariance, PTL DEF Spec, PaidIsFinal

-----------------------------------------------------------------------------
(* One transaction per paid session. *)

HasTransaction(s) ==
  \E t \in transactions :
    /\ t.id = txID[s]
    /\ t.amount = order[s].amount
    /\ t.to = Settlement(order[s].merchant)
    /\ WalletRow[t.from].user = payer[s]

(* The transactions are those of payments past their commit, one for each
   paid session. *)
OneEach ==
  /\ IsFiniteSet(transactions) /\ IsFiniteSet(PaidSessions)
  /\ Cardinality(transactions) = Cardinality(PaidSessions)
  /\ {t.id : t \in transactions} = {txID[s] : s \in PaidSessions}
  /\ \A s \in PaidSessions : HasTransaction(s)
  /\ \A t \in transactions : pc[t.id] \in {"enqueue", "done"}

LEMMA OneEachKept ==
  ASSUME CheckoutInv, OneEach, UNCHANGED <<transactions, PaidSessions, payer, txID>>,
         \A s \in PaidSessions : order'[s] = order[s],
         \A p \in Payments : pc[p] \in {"enqueue", "done"} => pc'[p] \in {"enqueue", "done"}
  PROVE  OneEach'
<1>1. \A t \in transactions : t.id \in Payments
  BY DEF CheckoutInv, TypeOK
<1> QED
  BY <1>1 DEF OneEach, HasTransaction

LEMMA OneMore ==
  ASSUME CheckoutInv, OneEach, NEW p \in Payments, pc[p] = "commit", ApplyPayment(p),
         pc' = [pc EXCEPT ![p] = "enqueue"] \/ pc' = [pc EXCEPT ![p] = "done"]
  PROVE  OneEach'
<1> DEFINE s == body[p].session
           t == [id |-> p, from |-> body[p].wallet, to |-> Settlement(Order(p).merchant),
                 amount |-> Order(p).amount]
<1>1. /\ s \in Sessions /\ status[s] = "PENDING" /\ Order(p) = order[s]
      /\ WalletRow[body[p].wallet].user = body[p].user
  BY Known DEF CheckoutInv, LocksHeld, WalletPays, TxSteps, Order
<1>2. /\ transactions' = transactions \cup {t} /\ t \notin transactions
      /\ status' = [status EXCEPT ![s] = "PAID"] /\ order' = order
      /\ payer' = [payer EXCEPT ![s] = body[p].user] /\ txID' = [txID EXCEPT ![s] = p]
  BY DEF ApplyPayment, OneEach, Order
<1>3. PaidSessions' = PaidSessions \cup {s} /\ s \notin PaidSessions
  BY <1>1, <1>2 DEF PaidSessions, CheckoutInv, TypeOK
<1>4. /\ IsFiniteSet(transactions') /\ IsFiniteSet(PaidSessions')
      /\ Cardinality(transactions') = Cardinality(PaidSessions')
  <2>1. transactions' = transactions \cup {t} /\ t \notin transactions
    BY <1>2
  <2> HIDE DEF t
  <2>2. /\ IsFiniteSet(transactions')
        /\ Cardinality(transactions') = Cardinality(transactions) + 1
    BY <2>1, FS_AddElement DEF OneEach
  <2>3. /\ IsFiniteSet(PaidSessions')
        /\ Cardinality(PaidSessions') = Cardinality(PaidSessions) + 1
    BY <1>3, FS_AddElement DEF OneEach
  <2> QED
    BY <2>2, <2>3 DEF OneEach
<1>5. {x.id : x \in transactions'} = {txID'[r] : r \in PaidSessions'}
  <2>1. {x.id : x \in transactions} = {txID[r] : r \in PaidSessions}
    BY DEF OneEach
  <2>2. txID'[s] = p /\ \A r \in PaidSessions : txID'[r] = txID[r]
    BY <1>1, <1>2, <1>3 DEF CheckoutInv, TypeOK, PaidSessions
  <2>3. {x.id : x \in transactions'} = {x.id : x \in transactions} \cup {p}
    BY <1>2
  <2> QED
    BY <1>3, <2>1, <2>2, <2>3
<1>6. ASSUME NEW r \in PaidSessions'
      PROVE  HasTransaction(r)'
  <2>1. CASE r = s
    <3>1. txID'[r] = p /\ payer'[r] = body[p].user
      BY <1>1, <1>2, <2>1 DEF CheckoutInv, TypeOK
    <3> QED
      BY <1>1, <1>2, <2>1, <3>1 DEF HasTransaction
  <2>2. CASE r # s
    <3>1. r \in PaidSessions /\ txID'[r] = txID[r] /\ payer'[r] = payer[r]
      BY <1>1, <1>2, <1>3, <1>6, <2>2 DEF CheckoutInv, TypeOK, PaidSessions
    <3> QED
      BY <1>2, <3>1 DEF OneEach, HasTransaction
  <2> QED
    BY <2>1, <2>2
<1>7. \A x \in transactions' : pc'[x.id] \in {"enqueue", "done"}
  BY <1>2 DEF OneEach, CheckoutInv, TypeOK
<1> QED
  BY <1>4, <1>5, <1>6, <1>7 DEF OneEach

(* A step that pays no session. *)
Bystanding ==
  /\ UNCHANGED <<balance, fee, seeded, transactions, payer, txID, PaidSessions>>
  /\ \A s \in PaidSessions : order'[s] = order[s]
  /\ \A p \in Payments : pc[p] \in {"enqueue", "done"} => pc'[p] \in {"enqueue", "done"}

LEMMA StandsBy ==
  ASSUME UNCHANGED <<balance, fee, seeded, sessions>>,
         \A q \in Payments : pc[q] \in {"enqueue", "done"} => pc'[q] \in {"enqueue", "done"}
  PROVE  Bystanding
BY DEF sessions, PaidSessions, Bystanding

(* A step of the checkout pays a session, or is none of its business. *)
LEMMA PaysOrStandsBy ==
  ASSUME CheckoutInv, [Next]_vars
  PROVE  \/ Bystanding
         \/ \E p \in Payments :
              /\ pc[p] = "commit" /\ ApplyPayment(p)
              /\ pc' = [pc EXCEPT ![p] = "enqueue"] \/ pc' = [pc EXCEPT ![p] = "done"]
<1>1. ASSUME NEW s \in Sessions, NEW in \in SessionInputs, CreateSession(s, in)
      PROVE  Bystanding
  BY <1>1 DEF CreateSession, CheckoutInv, TypeOK, PaidSessions, Bystanding, accounts
<1>2. ASSUME NEW p \in Payments, NEW in \in PayInputs, SubmitPay(p, in)
      PROVE  Bystanding
  BY <1>2, StandsBy DEF SubmitPay, Answer, Goto, CheckoutInv, TypeOK, accounts
<1>3. ASSUME NEW p \in Payments, Rollback(p)
      PROVE  Bystanding
  <2>1. UNCHANGED <<balance, fee, seeded, sessions>>
    BY <1>3 DEF Rollback, accounts
  <2>2. \A q \in Payments : pc[q] \in {"enqueue", "done"} => pc'[q] \in {"enqueue", "done"}
    BY <1>3 DEF Rollback, Answer, Goto, CheckoutInv, TypeOK
  <2> QED
    BY <2>1, <2>2, StandsBy
<1>4. ASSUME NEW p \in Payments,
             \/ LockSession(p) \/ LockWallet(p) \/ CreditMerchant(p)
             \/ CreditFee(p) \/ Enqueue(p) \/ DetectDeadlock(p) \/ Abort(p)
      PROVE  Bystanding
  BY <1>3, <1>4, StandsBy
  DEF LockSession, LockWallet, CreditMerchant, CreditFee, Enqueue, DetectDeadlock, Abort,
      TakeRow, Goto, Answer, CheckoutInv, TypeOK, accounts
<1>5. CASE Crash
  BY <1>5, StandsBy DEF Crash, EndPayments, Restart, accounts
<1>6. CASE UNCHANGED <<balance, fee, seeded, sessions, pc>>
  BY <1>6, StandsBy
<1> QED
  BY <1>1, <1>2, <1>4, <1>5, <1>6
  DEF Next, CheckoutNext, PaymentStep, PassDeadline, checkoutVars, sessions, accounts,
      Quiet, vars, Commit, CommitUnacknowledged, Goto, Answer, CloseWallet

-----------------------------------------------------------------------------
(* The balances are what the paid sessions moved. *)

LEMMA MovementType ==
  ASSUME CheckoutInv, NEW w
  PROVE  /\ DOMAIN Movement(w) = PaidSessions /\ DOMAIN Cut = PaidSessions
         /\ \A s \in PaidSessions : Movement(w)[s] \in Int /\ Cut[s] \in Int
<1>1. DOMAIN Movement(w) = PaidSessions /\ DOMAIN Cut = PaidSessions
  BY DEF Movement, Cut
<1>2. ASSUME NEW s \in PaidSessions
      PROVE  Movement(w)[s] \in Int /\ Cut[s] \in Int
  <2> DEFINE a == order[s].amount
             m == order[s].merchant
  <2>1. a \in 1 .. MaxInt /\ a \in Int /\ m \in Merchants
    BY CheckoutAssumption, MaxIntAssumption DEF PaidSessions, CheckoutInv, SessionsKnown
  <2>2. FeeCredited(a, m) \in Int /\ NetAmount(a, m) \in Int
    BY <2>1, FeeTypes
  <2>3. Movement(w)[s] = (IF Settlement(m) = w THEN NetAmount(a, m) ELSE 0)
                         - (IF PaidFrom(s, w) THEN a ELSE 0)
    BY DEF Movement
  <2>4. Cut[s] = FeeCredited(a, m)
    BY DEF Cut
  <2> QED
    BY <2>1, <2>2, <2>3, <2>4
<1> QED
  BY <1>1, <1>2

LEMMA InitMoved == Init => AccountsMatchSessions
<1> SUFFICES ASSUME Init PROVE AccountsMatchSessions
  OBVIOUS
<1>1. CheckoutInv
  BY InitInv
<1>2. PaidSessions = {} /\ IsFiniteSet(PaidSessions)
  BY FS_EmptySet DEF Init, CheckoutInit, PaidSessions
<1>3. \A w : SumFunction(Movement(w)) = 0 /\ SumFunction(Cut) = 0
  BY <1>1, <1>2, MovementType, SumZero DEF SumFunction
<1>4. fee = 0 /\ \A w \in Wallets : balance[w] = WalletRow[w].balance /\ balance[w] \in Int
  BY AccountsAssumption DEF Init, AccountsInit
<1> QED
  BY <1>3, <1>4 DEF AccountsMatchSessions

LEMMA MovedKept ==
  ASSUME AccountsMatchSessions, Bystanding
  PROVE  AccountsMatchSessions'
<1>1. Cut' = Cut /\ \A w : Movement(w)' = Movement(w)
  BY DEF Bystanding, Cut, Movement, PaidFrom, FeeCredited, FeeDue
<1> QED
  BY <1>1 DEF AccountsMatchSessions, Bystanding

(* A payment moves what the session it pays adds to the sums. *)
LEMMA MovedOnce ==
  ASSUME CheckoutInv, OneEach, AccountsMatchSessions,
         NEW p \in Payments, pc[p] = "commit", ApplyPayment(p)
  PROVE  AccountsMatchSessions'
<1> DEFINE s == body[p].session
           a == order[s].amount
           m == order[s].merchant
           from == body[p].wallet
           to == Settlement(m)
<1>1. /\ s \in Sessions /\ status[s] = "PENDING" /\ Order(p) = order[s]
      /\ from \in Wallets /\ to \in Wallets /\ a \in Int
      /\ FeeCredited(a, m) \in Int /\ NetAmount(a, m) \in Int
  BY Known DEF CheckoutInv, LocksHeld, TxSteps, Order
<1>2. /\ PaidSessions' = PaidSessions \cup {s} /\ s \notin PaidSessions
      /\ order' = order /\ txID'[s] = p /\ \A r \in PaidSessions : txID'[r] = txID[r]
  BY <1>1 DEF ApplyPayment, CheckoutInv, TypeOK, PaidSessions
<1>3. \A t \in transactions : t.id # p
  BY DEF OneEach
<1>4. \A r \in PaidSessions : txID[r] # p
  BY <1>3 DEF OneEach
<1>5. transactions' = transactions \cup {[id |-> p, from |-> from, to |-> to, amount |-> a]}
  BY <1>1 DEF ApplyPayment
<1>6. ASSUME NEW w, NEW r \in PaidSessions'
      PROVE  PaidFrom(r, w)' <=> IF r = s THEN from = w ELSE PaidFrom(r, w)
  <2> DEFINE t == [id |-> p, from |-> from, to |-> to, amount |-> a]
  <2>1. PaidFrom(r, w)' <=> \E x \in transactions' : x.id = txID'[r] /\ x.from = w
    BY DEF PaidFrom
  <2>2. t.id = p /\ t.from = from /\ transactions' = transactions \cup {t}
    BY <1>5
  <2> HIDE DEF t, from
  <2>3. CASE r = s
    BY <1>2, <1>3, <2>1, <2>2, <2>3
  <2>4. CASE r # s
    <3>1. r \in PaidSessions /\ txID'[r] = txID[r] /\ txID[r] # p
      BY <1>2, <1>4, <2>4
    <3> QED
      BY <2>1, <2>2, <2>4, <3>1 DEF PaidFrom
  <2> QED
    BY <2>3, <2>4
<1>7. IsFiniteSet(PaidSessions)
  BY DEF OneEach
<1>8. fee' = SumFunction(Cut')
  <2> DEFINE f == Cut
             g == Cut'
  <2>1. /\ DOMAIN f = PaidSessions /\ DOMAIN g = PaidSessions \cup {s}
        /\ g[s] = FeeCredited(a, m)
        /\ \A r \in PaidSessions : g[r] = f[r]
    <3>1. seeded' = seeded
      BY DEF ApplyPayment
    <3> QED
      BY <1>2, <3>1 DEF Cut, FeeCredited, FeeDue
  <2>2. \A r \in PaidSessions : f[r] \in Int
    BY MovementType
  <2>3. fee' = fee + FeeCredited(a, m) /\ fee = SumFunction(f)
    BY <1>1 DEF ApplyPayment, AccountsMatchSessions
  <2> HIDE DEF f, g
  <2>4. SumFunctionOnSet(g, PaidSessions \cup {s}) = SumFunctionOnSet(f, PaidSessions) + g[s]
    BY <1>1, <1>2, <1>7, <2>1, <2>2, SumGrows
  <2> QED
    BY <2>1, <2>3, <2>4 DEF SumFunction, g
<1>9. ASSUME NEW w \in Wallets
      PROVE  balance'[w] = WalletRow[w].balance + SumFunction(Movement(w)')
  <2> DEFINE f == Movement(w)
             g == Movement(w)'
             in == IF to = w THEN NetAmount(a, m) ELSE 0
             out == IF from = w THEN a ELSE 0
  <2>1. /\ DOMAIN f = PaidSessions /\ DOMAIN g = PaidSessions \cup {s}
        /\ g[s] = in - out
        /\ \A r \in PaidSessions : g[r] = f[r]
    <3>1. g = [r \in PaidSessions' |->
                (IF Settlement(order'[r].merchant) = w
                   THEN NetAmount(order'[r].amount, order'[r].merchant) ELSE 0)
                - (IF PaidFrom(r, w)' THEN order'[r].amount ELSE 0)]
      BY DEF Movement, Settlement, NetAmount, FeeAmount
    <3>2. s \in PaidSessions' /\ PaidSessions' = PaidSessions \cup {s} /\ order' = order
      BY <1>2
    <3>3. g[s] = in - out
      BY <1>6, <3>1, <3>2
    <3>4. \A r \in PaidSessions : g[r] = f[r]
      BY <1>2, <1>6, <3>1, <3>2 DEF Movement
    <3> QED
      BY <3>1, <3>2, <3>3, <3>4 DEF Movement
  <2>2. \A r \in PaidSessions : f[r] \in Int
    BY MovementType
  <2>3. in \in Int /\ out \in Int /\ balance[w] \in Int /\ WalletRow[w].balance \in Int
    BY <1>1, AccountsAssumption DEF CheckoutInv, TypeOK, AccountsTypeOK
  <2>4. balance'[w] = balance[w] + in - out
    BY SMTT(30), <1>1 DEF ApplyPayment, CheckoutInv, TypeOK, AccountsTypeOK
  <2>5. balance[w] = WalletRow[w].balance + SumFunction(f)
    BY DEF AccountsMatchSessions
  <2> HIDE DEF f, g, in, out
  <2>6. SumFunctionOnSet(g, PaidSessions \cup {s}) = SumFunctionOnSet(f, PaidSessions) + g[s]
    BY <1>2, <1>7, <2>1, <2>2, <2>3, SumGrows
  <2>7. SumFunctionOnSet(f, PaidSessions) \in Int
    BY <1>7, <2>2, SumType
  <2>8. balance'[w] = WalletRow[w].balance + SumFunction(g)
    BY <2>1, <2>3, <2>4, <2>5, <2>6, <2>7 DEF SumFunction
  <2> QED
    BY <2>8 DEF g
<1> QED
  BY <1>8, <1>9 DEF AccountsMatchSessions

(* Each paid session has exactly one transaction, there are no others, and
   the balances are what they moved, however payments of one session meet,
   fail and are retried. *)
THEOREM PaymentsAreSettled == Spec => []PaymentsSettled
<1> DEFINE Settled == OneEach /\ AccountsMatchSessions
<1>1. Init => Settled
  <2> SUFFICES ASSUME Init PROVE OneEach
    BY InitMoved
  <2>1. transactions = {} /\ PaidSessions = {}
    BY DEF Init, CheckoutInit, PaidSessions
  <2> QED
    BY <2>1, FS_EmptySet DEF OneEach
<1>2. CheckoutInv /\ Settled /\ [Next]_vars => Settled'
  <2> SUFFICES ASSUME CheckoutInv, OneEach, AccountsMatchSessions, [Next]_vars
               PROVE  OneEach' /\ AccountsMatchSessions'
    OBVIOUS
  <2>1. CASE Bystanding
    BY <2>1, OneEachKept, MovedKept DEF Bystanding
  <2>2. CASE ~Bystanding
    BY <2>2, PaysOrStandsBy, OneMore, MovedOnce
  <2> QED
    BY <2>1, <2>2
<1>3. Settled => PaymentsSettled
  BY DEF OneEach, HasTransaction, PaidOnce, PaymentsSettled
<1> QED
  BY <1>1, <1>2, <1>3, Invariance, PTL DEF Spec
=============================================================================
