---------------------------- MODULE ChargeProofs -----------------------------
(***************************************************************************)
(* Proofs about Charge, for any number of charges, merchants, wallets and  *)
(* restarts, any keys and cards, amounts up to the largest int64 and fees  *)
(* up to the whole amount, also where the product of a fee wraps; of       *)
(* the keys that are used in order, and of the numbers of virtual cards.   *)
(***************************************************************************)
EXTENDS OrderlyCharge, CardIssue, Sums, FiniteSetTheorems, SequenceTheorems, TLAPS

LEMMA Product ==
  ASSUME NEW x \in Nat, NEW y \in Nat, NEW z \in Nat, y <= z
  PROVE  x * y \in Nat /\ x * y <= x * z
<1>1. x * y \in Nat /\ x * (z - y) \in Nat
  OBVIOUS
<1>2. x * z = x * y + x * (z - y)
  OBVIOUS
<1> QED
  BY <1>1, <1>2

(* What fits is kept, and what is a little too large turns negative. *)
LEMMA WrappedFacts ==
  /\ \A x \in Int : Wrapped(x) \in Int64
  /\ \A x \in Int64 : Wrapped(x) = x
  /\ \A x \in MaxInt + 1 .. 2 * MaxInt + 1 : Wrapped(x) < 0
<1> USE MaxIntAssumption
<1>1. ASSUME NEW x \in Int PROVE Wrapped(x) \in Int64
  BY Wrapping DEF Wrapped, Width, Int64
<1>2. ASSUME NEW x \in MaxInt + 1 .. 2 * MaxInt + 1 PROVE Wrapped(x) < 0
  BY Wrapping DEF Wrapped, Width, Int64
<1> QED
  BY <1>1, <1>2 DEF Wrapped

LEMMA Fraction ==
  ASSUME NEW x \in Nat
  PROVE  /\ x \div Whole \in Nat
         /\ \A y \in Nat : x <= y * Whole => x \div Whole <= y
         /\ x \div Whole <= x
BY DEF Whole

(* The shares of an amount: the fee may be negative if its product wraps, and the
   net amount then is too large, or wraps in turn; whenever the fee is not
   negative, the two shares are the amount. *)
LEMMA FeeSplit ==
  ASSUME NEW amount \in 1 .. MaxInt, NEW m \in Merchants
  PROVE  LET whole == FeeAmount(amount, m)
             net == NetAmount(amount, m)
         IN  /\ whole \in Int64 /\ net \in Int64
             /\ FeeProduct(amount, m) <= MaxInt => whole >= 0
             /\ whole >= 0 => net >= 0
             /\ whole >= 0 \/ net > 0 => net = amount - whole
<1> USE MaxIntAssumption
<1> DEFINE b == MerchantRow[m].bps
           part == amount * b
           low == Wrapped(part)
           whole == Quotient(low, Whole)
           net == Wrapped(amount - whole)
<1>1. b \in 0 .. Whole /\ Whole \in Nat
  <2>1. b \in 0 .. Whole
    BY AccountsAssumption
  <2>2. Whole \in Nat
    BY DEF Whole
  <2> QED
    BY <2>1, <2>2
<1> HIDE DEF b
<1>2. part \in Nat /\ part <= amount * Whole
  <2>1. amount \in Nat /\ b \in Nat /\ b <= Whole
    BY <1>1
  <2> QED
    BY <1>1, <2>1, Product
<1> HIDE DEF part
<1>3. low \in Int64 /\ (part <= MaxInt => low = part) /\ low <= part
  <2>1. low \in -(MaxInt + 1) .. MaxInt
    BY <1>2, WrappedFacts DEF Int64
  <2>2. part <= MaxInt => low = part
    BY <1>2, WrappedFacts DEF Int64
  <2> HIDE DEF low
  <2> QED
    BY <1>2, <2>1, <2>2 DEF Int64
<1> HIDE DEF low
<1>4. low >= 0 => whole \in 0 .. amount
  <2>1. CASE low >= 0
    <3>1. low \in Nat /\ low <= amount * Whole
      BY <1>1, <1>2, <1>3, <2>1 DEF Int64
    <3>2. low \div Whole \in Nat /\ low \div Whole <= amount
      BY <3>1, Fraction
    <3> QED
      BY <2>1, <3>2 DEF Quotient
  <2> QED
    BY <2>1
<1>5. low < 0 => whole \in -(MaxInt + 1) .. 0
  <2>1. CASE low < 0
    <3>1. -low \in Nat /\ -low <= MaxInt + 1
      BY <1>3, <2>1 DEF Int64
    <3>2. (-low) \div Whole \in Nat /\ (-low) \div Whole <= -low
      BY <3>1, Fraction
    <3>3. whole = -((-low) \div Whole)
      BY <1>3, <2>1 DEF Quotient, Int64
    <3> HIDE DEF whole
    <3> QED
      BY <3>1, <3>2, <3>3
  <2> QED
    BY <2>1
<1> HIDE DEF whole
<1>6. low \in Int
  BY <1>3 DEF Int64
<1>7. whole \in Int64
  BY <1>4, <1>5, <1>6 DEF Int64
<1>8. net \in Int64
  BY <1>7, WrappedFacts DEF Int64
<1>9. whole >= 0 => net = amount - whole /\ net >= 0
  <2>1. whole >= 0 => amount - whole \in 0 .. MaxInt
    BY <1>4, <1>5, <1>6
  <2> QED
    BY <2>1, WrappedFacts DEF Int64
<1>10. whole < 0 /\ net > 0 => net = amount - whole
  <2>1. whole < 0 => amount - whole \in 0 .. 2 * MaxInt + 1
    BY <1>4, <1>5, <1>6
  <2>2. amount - whole > MaxInt => ~(whole < 0 /\ net > 0)
    BY <1>8, <2>1, WrappedFacts DEF Int64
  <2> QED
    BY <2>1, <2>2, WrappedFacts DEF Int64
<1>11. part <= MaxInt => whole >= 0
  BY <1>2, <1>3, <1>4
<1> HIDE DEF net
<1>12. whole >= 0 \/ whole < 0
  BY <1>7 DEF Int64
<1> QED
  BY <1>7, <1>8, <1>9, <1>10, <1>11, <1>12 DEF FeeAmount, NetAmount, FeeProduct, net, whole, low, part, b

-----------------------------------------------------------------------------
Finishing == {"save", "reply", "done"}

(* What a request asks for is known once it is on its way; it goes to the
   settlement with a valid card only, and past the CHECKs with legs that all
   carry money. *)
RequestsKnown ==
  \A c \in Charges :
    /\ stage[c] # "idle" => request[c] \in ChargeInputs
    /\ stage[c] = "idle" => answer[c] = NoResponse
    /\ stage[c] \in {"lookup", "save"} => request[c].key # NoKey
    /\ stage[c] \in SettlementSteps => Valid(c)
    /\ stage[c] \in {"debit_clearing", "credit_revenue", "commit"} =>
         \A e \in Entries(c) : e.amount > 0

Settled(c) == Row(c, "SUCCEEDED") \in charges

(* A row of charges is about a request past its validation or settlement, as
   it was asked, and says what became of its card. *)
RowsStand ==
  /\ \A r \in charges :
       /\ stage[r.id] \in Finishing
       /\ r = Row(r.id, IF Valid(r.id) THEN "SUCCEEDED" ELSE "FAILED")
  /\ \A c \in Charges : stage[c] \in {"save", "reply"} /\ Valid(c) => Settled(c)

(* The response names a settled charge of merchant m. *)
Covered(m, response) ==
  response.kind = "succeeded" =>
    \E r \in charges : r.id = response.id /\ r.merchant = m /\ r.status = "SUCCEEDED"

AnswersStand ==
  /\ \A c \in Charges : Covered(request[c].merchant, answer[c])
  /\ \A m \in Merchants : \A k \in Keys : Covered(m, cache[m][k])

(* The ledger has the legs of each settled charge and of no other. *)
LegsComplete ==
  /\ \A e \in ledger : Settled(e.charge) /\ e \in Entries(e.charge)
  /\ \A c \in Charges : Settled(c) => Entries(c) \subseteq ledger

ChargeInv == TypeOK /\ RequestsKnown /\ RowsStand /\ AnswersStand /\ LegsComplete

LEMMA InitInv == Init => ChargeInv
<1> SUFFICES ASSUME Init PROVE ChargeInv
  OBVIOUS
<1> USE AccountsAssumption, ChargeAssumption DEF Init, AccountsInit, ChargeInit
<1>1. TypeOK
  BY DEF TypeOK, AccountsTypeOK, Rows, Accounts, Responses
<1>2. RequestsKnown /\ RowsStand /\ LegsComplete
  BY DEF RequestsKnown, RowsStand, LegsComplete, Settled, SettlementSteps
<1>3. AnswersStand
  BY DEF AnswersStand, Covered, NoResponse
<1> QED
  BY <1>1, <1>2, <1>3 DEF ChargeInv

(* What is known of a request. *)
LEMMA Known ==
  ASSUME ChargeInv, NEW c \in Charges, stage[c] # "idle"
  PROVE  /\ request[c].merchant \in Merchants /\ request[c].amount \in Nat \ {0}
         /\ request[c].key \in Keys \cup {NoKey}
         /\ Settlement(request[c].merchant) \in Wallets
         /\ Fee(c) \in Int64 /\ Net(c) \in Int64 /\ Fee(c) \in Int /\ Net(c) \in Int
         /\ Fee(c) >= 0 \/ Net(c) > 0 => Net(c) = request[c].amount - Fee(c)
         /\ Fee(c) < 0 => FeeProduct(request[c].amount, request[c].merchant) > MaxInt
<1>1. /\ request[c].merchant \in Merchants /\ request[c].amount \in 1 .. MaxInt
      /\ request[c].key \in Keys \cup {NoKey}
  BY ChargeAssumption DEF ChargeInv, RequestsKnown
<1>2. Settlement(request[c].merchant) \in Wallets
  BY <1>1, AccountsAssumption DEF Settlement
<1>3. MerchantRow[request[c].merchant].bps \in Int
  BY <1>1, AccountsAssumption
<1>4. FeeProduct(request[c].amount, request[c].merchant) \in Int
  BY <1>1, <1>3 DEF FeeProduct
<1>5. /\ Fee(c) \in Int64 /\ Net(c) \in Int64
      /\ Fee(c) >= 0 \/ Net(c) > 0 => Net(c) = request[c].amount - Fee(c)
      /\ FeeProduct(request[c].amount, request[c].merchant) <= MaxInt => Fee(c) >= 0
  BY <1>1, FeeSplit DEF Fee, Net
<1>6. Fee(c) \in Int /\ Net(c) \in Int /\ MaxInt \in Int
  BY <1>5, MaxIntAssumption DEF Int64
<1>7. Fee(c) < 0 => FeeProduct(request[c].amount, request[c].merchant) > MaxInt
  BY <1>4, <1>5, <1>6
<1>8. request[c].amount \in Nat \ {0}
  BY <1>1, <1>6
<1> QED
  BY <1>1, <1>2, <1>5, <1>6, <1>7, <1>8

(* The CHECK on the entries keeps a settlement from taking money. *)
LEMMA NetAtCommit ==
  ASSUME ChargeInv, NEW c \in Charges, stage[c] = "commit"
  PROVE  Net(c) > 0
<1> DEFINE e == Entry(c, Settlement(request[c].merchant), "CREDIT", Net(c))
<1>1. e \in Entries(c) /\ e.amount = Net(c)
  BY DEF Entries, Entry
<1>2. \A x \in Entries(c) : x.amount > 0
  BY DEF ChargeInv, RequestsKnown
<1> QED
  BY <1>1, <1>2

(* What a settlement credits, as other modules cite it. *)
SharesKnown ==
  \A c \in Charges : stage[c] # "idle" =>
    /\ Settlement(request[c].merchant) \in Wallets
    /\ Fee(c) \in Int /\ Net(c) \in Int /\ request[c].amount \in Nat
    /\ Fee(c) >= 0 => Net(c) = request[c].amount - Fee(c)
    /\ stage[c] = "commit" => Net(c) > 0

LEMMA SharesAreKnown == ChargeInv => SharesKnown
BY Known, NetAtCommit DEF SharesKnown

LEMMA RowType ==
  ASSUME ChargeInv, NEW c \in Charges, stage[c] # "idle",
         NEW outcome \in {"SUCCEEDED", "FAILED"}
  PROVE  Row(c, outcome) \in [id : Charges, merchant : Merchants, amount : Nat, fee : Int64,
                              net : Int64, status : {"SUCCEEDED", "FAILED"}]
<1>1. 0 \in Int64
  BY MaxIntAssumption DEF Int64
<1> QED
  BY <1>1, Known DEF Row

LEMMA EntriesType ==
  ASSUME ChargeInv, NEW c \in Charges, stage[c] # "idle", \A e \in Entries(c) : e.amount > 0
  PROVE  Entries(c) \subseteq [charge : Charges, account : Rows, type : {"DEBIT", "CREDIT"},
                               amount : Nat \ {0}]
<1>1. /\ Settlement(request[c].merchant) \in Wallets /\ request[c].amount \in Int
      /\ Fee(c) \in Int /\ Net(c) \in Int
  BY Known
<1>2. \A e \in Entries(c) : \E n \in Rows, t \in {"DEBIT", "CREDIT"}, a \in Int :
        e = Entry(c, n, t, a)
  BY <1>1 DEF Entries, Rows, Accounts
<1> QED
  BY <1>2 DEF Entry

-----------------------------------------------------------------------------
(* Steps that write neither charges nor the ledger: the request c moves on,
   with an answer and a record that name settled charges. *)
LEMMA MoveKeeps ==
  ASSUME ChargeInv, NEW c \in Charges, stage[c] # "idle",
         UNCHANGED <<accounts, crashes, charges, request>>,
         rowLock' \in [Rows -> Charges \cup {NoOne}],
         NEW step \in SettlementSteps \cup {"validate", "save", "reply", "done"},
         stage' = [stage EXCEPT ![c] = step],
         stage[c] \in Finishing => step \in Finishing,
         step = "save" => request[c].key # NoKey,
         step \in SettlementSteps => Valid(c),
         step \in {"debit_clearing", "credit_revenue", "commit"} =>
           \A e \in Entries(c) : e.amount > 0,
         step \in {"save", "reply"} /\ Valid(c) => Settled(c),
         NEW response \in Responses, answer' = [answer EXCEPT ![c] = response],
         Covered(request[c].merchant, response),
         cache' \in [Merchants -> [Keys -> Responses]],
         \A m \in Merchants : \A k \in Keys : Covered(m, cache'[m][k])
  PROVE  ChargeInv'
<1> USE DEF ChargeInv
<1>1. TypeOK'
  BY DEF TypeOK, AccountsTypeOK, accounts
<1>2. \A d \in Charges : d # c => stage'[d] = stage[d] /\ answer'[d] = answer[d]
  BY DEF TypeOK
<1>3. stage'[c] = step /\ answer'[c] = response
  BY DEF TypeOK
<1>4. \A d \in Charges : /\ Valid(d)' = Valid(d) /\ Entries(d)' = Entries(d)
                         /\ \A o : Row(d, o)' = Row(d, o)
  BY DEF Valid, Entries, Row, Fee, Net
<1>5. RequestsKnown'
  BY <1>2, <1>3, <1>4 DEF RequestsKnown, SettlementSteps
<1>6. RowsStand'
  <2>1. \A r \in charges : r.id \in Charges
    BY DEF TypeOK
  <2> QED
    BY <1>2, <1>3, <1>4, <2>1 DEF RowsStand, Settled, Finishing
<1>7. AnswersStand'
  BY <1>2, <1>3 DEF AnswersStand, Covered
<1>8. LegsComplete'
  <2>1. \A e \in ledger : e.charge \in Charges
    BY DEF TypeOK
  <2> QED
    BY <1>4, <2>1 DEF LegsComplete, Settled, accounts
<1> QED
  BY <1>1, <1>5, <1>6, <1>7, <1>8

LEMMA AnswersType ==
  ASSUME ChargeInv, NEW c \in Charges
  PROVE  /\ answer[c] \in Responses /\ answer = [answer EXCEPT ![c] = answer[c]]
         /\ Covered(request[c].merchant, answer[c])
         /\ cache \in [Merchants -> [Keys -> Responses]]
         /\ \A m \in Merchants : \A k \in Keys : Covered(m, cache[m][k])
         /\ rowLock \in [Rows -> Charges \cup {NoOne}]
BY DEF ChargeInv, TypeOK, AnswersStand

LEMMA FailedIsCovered == Failed \in Responses /\ \A m : Covered(m, Failed)
BY DEF Failed, Responses, Covered

LEMMA RollbackKeeps ==
  ASSUME ChargeInv, NEW c \in Charges, stage[c] \in SettlementSteps, RollbackSettlement(c)
  PROVE  ChargeInv'
<1>1. /\ stage' = [stage EXCEPT ![c] = "done"] /\ answer' = [answer EXCEPT ![c] = Failed]
      /\ UNCHANGED <<accounts, crashes, charges, cache, request>>
      /\ rowLock' = [n \in Rows |-> IF n \in Held(c) THEN NoOne ELSE rowLock[n]]
  BY DEF RollbackSettlement, Unlock, Respond, Proceed
<1>2. rowLock' \in [Rows -> Charges \cup {NoOne}]
  BY <1>1, AnswersType
<1>3. stage[c] # "idle"
  BY DEF SettlementSteps
<1> QED
  BY <1>1, <1>2, <1>3, AnswersType, FailedIsCovered, MoveKeeps DEF SettlementSteps, Finishing

LEMMA LookupKeeps ==
  ASSUME ChargeInv, NEW c \in Charges, Lookup(c) \/ LookupFails(c)
  PROVE  ChargeInv'
<1>1. /\ stage[c] = "lookup" /\ request[c].merchant \in Merchants /\ request[c].key \in Keys
  BY Known DEF Lookup, LookupFails, ChargeInv, RequestsKnown
<1>2. UNCHANGED <<accounts, rowLock, crashes, charges, cache, request>>
  BY DEF Lookup, LookupFails
<1>3. CASE stage' = [stage EXCEPT ![c] = "validate"] /\ UNCHANGED answer
  BY <1>1, <1>2, <1>3, AnswersType, MoveKeeps DEF SettlementSteps, Finishing
<1>4. CASE stage' = [stage EXCEPT ![c] = "done"] /\ answer' = [answer EXCEPT ![c] = Cached(c)]
  <2>1. Cached(c) \in Responses /\ Covered(request[c].merchant, Cached(c))
    BY <1>1, AnswersType DEF Cached
  <2> QED
    BY <1>1, <1>2, <1>4, <2>1, AnswersType, MoveKeeps DEF SettlementSteps, Finishing
<1> QED
  BY <1>3, <1>4 DEF Lookup, LookupFails, Respond, Proceed

LEMMA TakeKeeps ==
  ASSUME ChargeInv, NEW c \in Charges, NEW n \in Rows,
         NEW step \in {"debit_clearing", "credit_revenue", "commit"},
         stage[c] \in SettlementSteps, TakeAccount(c, n, step),
         \A e \in Entries(c) : e.amount > 0
  PROVE  ChargeInv'
<1>1. /\ stage' = [stage EXCEPT ![c] = step] /\ rowLock' = [rowLock EXCEPT ![n] = c]
      /\ UNCHANGED <<accounts, crashes, charges, cache, request, answer>>
  BY DEF TakeAccount, Proceed
<1>2. rowLock' \in [Rows -> Charges \cup {NoOne}]
  BY <1>1, AnswersType
<1>3. stage[c] # "idle" /\ stage[c] \notin Finishing /\ Valid(c)
  BY DEF ChargeInv, RequestsKnown, SettlementSteps, Finishing
<1> QED
  BY <1>1, <1>2, <1>3, AnswersType, MoveKeeps DEF SettlementSteps

LEMMA RowStepsKeep ==
  ASSUME ChargeInv, NEW c \in Charges, CreditWallet(c) \/ DebitClearing(c) \/ CreditRevenue(c)
  PROVE  ChargeInv'
<1>1. stage[c] \in SettlementSteps
  BY DEF CreditWallet, DebitClearing, CreditRevenue, SettlementSteps
<1>2. Settlement(request[c].merchant) \in Rows /\ "clearing" \in Rows /\ "fee" \in Rows
  BY <1>1, Known DEF Rows, Accounts, SettlementSteps
<1>3. CASE CreditWallet(c)
  BY <1>1, <1>2, <1>3, TakeKeeps, RollbackKeeps DEF CreditWallet, Increase
<1>4. CASE DebitClearing(c) \/ CreditRevenue(c)
  <2>1. \A e \in Entries(c) : e.amount > 0
    BY <1>4 DEF DebitClearing, CreditRevenue, ChargeInv, RequestsKnown
  <2> QED
    BY <1>1, <1>2, <1>4, <2>1, TakeKeeps, RollbackKeeps DEF DebitClearing, CreditRevenue, Increase
<1> QED
  BY <1>3, <1>4

LEMMA OutcomeIsCovered ==
  ASSUME ChargeInv, NEW c \in Charges, stage[c] \in {"save", "reply"}
  PROVE  Outcome(c) \in Responses /\ Covered(request[c].merchant, Outcome(c))
<1>1. CASE Valid(c)
  <2>1. Row(c, "SUCCEEDED") \in charges
    BY <1>1 DEF ChargeInv, RowsStand, Settled
  <2> QED
    BY <1>1, <2>1 DEF Outcome, Succeeded, Responses, Covered, Row
<1>2. CASE ~Valid(c)
  BY <1>2 DEF Outcome, Declined, Responses, Covered
<1> QED
  BY <1>1, <1>2

LEMMA OneCell ==
  ASSUME NEW A, NEW B, NEW V, NEW f \in [A -> [B -> V]], NEW a \in A, NEW b \in B, NEW v \in V
  PROVE  LET g == [f EXCEPT ![a][b] = v]
         IN  /\ g \in [A -> [B -> V]] /\ g[a][b] = v
             /\ \A x \in A : \A y \in B : <<x, y>> # <<a, b>> => g[x][y] = f[x][y]
             /\ \A x \in A : \A y \in B : g[x][y] = f[x][y] \/ (x = a /\ g[x][y] = v)
<1> DEFINE row == [f[a] EXCEPT ![b] = v]
<1>1. /\ row \in [B -> V] /\ row[b] = v
      /\ \A y \in B : row[y] = f[a][y] \/ (y = b /\ row[y] = v)
  OBVIOUS
<1>2. [f EXCEPT ![a][b] = v] = [f EXCEPT ![a] = row]
  OBVIOUS
<1> HIDE DEF row
<1> QED
  BY <1>1, <1>2

LEMMA SaveKeeps ==
  ASSUME ChargeInv, NEW c \in Charges, Save(c) \/ SaveFails(c)
  PROVE  ChargeInv'
<1> DEFINE m == request[c].merchant
           k == request[c].key
<1>1. /\ stage[c] = "save" /\ m \in Merchants /\ k \in Keys
      /\ Valid(c) => Settled(c)
  BY Known DEF Save, SaveFails, ChargeInv, RequestsKnown, RowsStand
<1>2. /\ stage' = [stage EXCEPT ![c] = "reply"]
      /\ UNCHANGED <<accounts, rowLock, crashes, charges, request, answer>>
      /\ cache' = cache \/ cache' = [cache EXCEPT ![m][k] = Outcome(c)]
  BY DEF Save, SaveFails, Proceed
<1>3. /\ cache' \in [Merchants -> [Keys -> Responses]]
      /\ \A n \in Merchants : \A j \in Keys :
           cache'[n][j] = cache[n][j] \/ (n = m /\ cache'[n][j] = Outcome(c))
  <2>1. Outcome(c) \in Responses /\ cache \in [Merchants -> [Keys -> Responses]]
    BY <1>1, AnswersType, OutcomeIsCovered
  <2>2. CASE cache' = cache
    BY <2>1, <2>2
  <2>3. CASE cache' = [cache EXCEPT ![m][k] = Outcome(c)]
    <3> HIDE DEF m, k
    <3> QED
      BY <1>1, <2>1, <2>3, OneCell
  <2> QED
    BY <1>2, <2>2, <2>3
<1>4. \A n \in Merchants : \A j \in Keys : Covered(n, cache'[n][j])
  BY <1>1, <1>3, AnswersType, OutcomeIsCovered
<1>5. stage[c] # "idle" /\ "reply" \notin SettlementSteps
  BY <1>1 DEF SettlementSteps
<1> HIDE DEF m, k
<1> QED
  BY <1>1, <1>2, <1>3, <1>4, <1>5, AnswersType, MoveKeeps DEF Finishing

LEMMA ReplyKeeps ==
  ASSUME ChargeInv, NEW c \in Charges, Reply(c)
  PROVE  ChargeInv'
<1>1. /\ stage[c] = "reply" /\ stage' = [stage EXCEPT ![c] = "done"]
      /\ answer' = [answer EXCEPT ![c] = Outcome(c)]
      /\ UNCHANGED <<accounts, rowLock, crashes, charges, cache, request>>
  BY DEF Reply, Respond, Proceed
<1> QED
  BY <1>1, AnswersType, OutcomeIsCovered, MoveKeeps DEF SettlementSteps, Finishing

LEMMA SubmitKeeps ==
  ASSUME ChargeInv, NEW c \in Charges, NEW in \in ChargeInputs, SubmitCharge(c, in)
  PROVE  ChargeInv'
<1> USE DEF ChargeInv
<1>1. /\ stage[c] = "idle" /\ request' = [request EXCEPT ![c] = in]
      /\ stage' = [stage EXCEPT ![c] = IF in.key = NoKey THEN "validate" ELSE "lookup"]
      /\ UNCHANGED <<accounts, rowLock, crashes, charges, cache, answer>>
  BY DEF SubmitCharge, Proceed
<1>2. TypeOK'
  BY <1>1 DEF TypeOK, AccountsTypeOK, accounts
<1>3. \A d \in Charges : d # c => stage'[d] = stage[d] /\ request'[d] = request[d]
  BY <1>1 DEF TypeOK
<1>4. /\ request'[c] = in /\ stage'[c] \in {"validate", "lookup"}
      /\ stage'[c] = "lookup" => in.key # NoKey
  BY <1>1 DEF TypeOK
<1>5. \A d \in Charges : d # c => /\ Valid(d)' = Valid(d) /\ Entries(d)' = Entries(d)
                                 /\ \A o : Row(d, o)' = Row(d, o)
  BY <1>3 DEF Valid, Entries, Row, Fee, Net
<1>6. RequestsKnown'
  BY <1>1, <1>3, <1>4, <1>5 DEF RequestsKnown, SettlementSteps
<1>7. \A r \in charges : r.id \in Charges /\ r.id # c
  BY <1>1 DEF TypeOK, RowsStand, Finishing
<1>8. RowsStand'
  BY <1>1, <1>3, <1>4, <1>5, <1>7 DEF RowsStand, Settled
<1>9. AnswersStand'
  <2>1. \A m : Covered(m, answer[c])
    BY <1>1 DEF RequestsKnown, Covered, NoResponse
  <2>2. \A m, r : Covered(m, r)' <=> Covered(m, r)
    BY <1>1 DEF Covered
  <2>3. ASSUME NEW d \in Charges PROVE Covered(request'[d].merchant, answer[d])
    BY <1>3, <2>1, <2>3 DEF AnswersStand
  <2> QED
    BY <1>1, <2>2, <2>3 DEF AnswersStand, Covered
<1>10. LegsComplete'
  <2>1. \A d \in Charges : Settled(d) => d # c
    BY <1>7 DEF Settled, Row
  <2>2. \A d \in Charges : Settled(d)' => d # c
    BY <1>1, <1>7 DEF Settled, Row
  <2>3. \A e \in ledger : e.charge \in Charges
    BY DEF TypeOK
  <2> QED
    BY <1>1, <1>5, <2>1, <2>2, <2>3 DEF LegsComplete, Settled, accounts
<1> QED
  BY <1>2, <1>6, <1>8, <1>9, <1>10

-----------------------------------------------------------------------------
(* A row of charges for request c: a declined card's, or a settled charge's
   with all its legs. *)
LEMMA RecordKeeps ==
  ASSUME ChargeInv, NEW c \in Charges, stage[c] # "idle", stage[c] \notin Finishing,
         NEW outcome, outcome = IF Valid(c) THEN "SUCCEEDED" ELSE "FAILED",
         charges' = charges \cup {Row(c, outcome)},
         ledger' = IF Valid(c) THEN ledger \cup Entries(c) ELSE ledger,
         Valid(c) => \A e \in Entries(c) : e.amount > 0,
         NEW step \in Finishing, stage' = [stage EXCEPT ![c] = step],
         step = "save" => request[c].key # NoKey,
         NEW response \in {answer[c], Failed}, answer' = [answer EXCEPT ![c] = response],
         AccountsTypeOK', rowLock' \in [Rows -> Charges \cup {NoOne}],
         UNCHANGED <<cache, request>>
  PROVE  ChargeInv'
<1> USE DEF ChargeInv
<1>1. /\ \A d \in Charges : d # c => stage'[d] = stage[d] /\ answer'[d] = answer[d]
      /\ stage'[c] = step /\ answer'[c] = response
  BY DEF TypeOK
<1>2. /\ Row(c, outcome).id = c /\ Row(c, outcome).merchant = request[c].merchant
      /\ Row(c, outcome).status = outcome
  BY DEF Row
<1>3. \A d \in Charges : /\ Valid(d)' = Valid(d) /\ Entries(d)' = Entries(d)
                         /\ \A o : Row(d, o)' = Row(d, o)
  BY DEF Valid, Entries, Row, Fee, Net
<1>4. \A r \in charges : r.id \in Charges /\ r.id # c
  BY DEF TypeOK, RowsStand
<1>5. Row(c, outcome) \in [id : Charges, merchant : Merchants, amount : Nat, fee : Int64,
                           net : Int64, status : {"SUCCEEDED", "FAILED"}]
  BY RowType
<1>6. Valid(c) => Entries(c) \subseteq [charge : Charges, account : Rows,
                                       type : {"DEBIT", "CREDIT"}, amount : Nat \ {0}]
  BY EntriesType
<1>7. TypeOK'
  BY <1>5, <1>6, AnswersType, FailedIsCovered DEF TypeOK, Finishing
<1>8. RequestsKnown'
  BY <1>1, <1>3 DEF RequestsKnown, Finishing, SettlementSteps
<1>9. \A d \in Charges : /\ d # c => (Settled(d)' <=> Settled(d))
                         /\ Settled(c)' <=> Valid(c)
  <2>1. \A d \in Charges : \A o : Row(d, o).id = d /\ Row(d, o).status = o
    BY DEF Row
  <2> QED
    BY <1>2, <1>3, <1>4, <2>1 DEF Settled
<1>10. RowsStand'
  BY <1>1, <1>2, <1>3, <1>4, <1>9 DEF RowsStand
<1>11. \A m, r : Covered(m, r) => Covered(m, r)'
  BY DEF Covered
<1>12. AnswersStand'
  <2>1. ASSUME NEW d \in Charges PROVE Covered(request[d].merchant, answer'[d])
    BY <1>1, <2>1, FailedIsCovered DEF AnswersStand
  <2> QED
    BY <1>11, <2>1 DEF AnswersStand
<1>13. LegsComplete'
  <2>1. \A e \in ledger : e.charge \in Charges /\ e.charge # c
    BY <1>4 DEF TypeOK, LegsComplete, Settled, Row
  <2>2. \A e \in Entries(c) : e.charge = c
    BY DEF Entries, Entry
  <2>3. \A d \in Charges : Settled(d) => Entries(d) \subseteq ledger
    BY DEF LegsComplete
  <2>4. ASSUME NEW e \in ledger' PROVE Settled(e.charge)' /\ e \in Entries(e.charge)'
    <3>1. CASE e \in ledger
      BY <1>3, <1>9, <2>1, <3>1 DEF LegsComplete
    <3>2. CASE Valid(c) /\ e \in Entries(c)
      BY <1>3, <1>9, <2>2, <3>2
    <3> QED
      BY <2>4, <3>1, <3>2
  <2>5. ASSUME NEW d \in Charges, Settled(d)' PROVE Entries(d)' \subseteq ledger'
    BY <1>3, <1>9, <2>3, <2>5
  <2> QED
    BY <2>4, <2>5 DEF LegsComplete
<1> QED
  BY <1>7, <1>8, <1>10, <1>12, <1>13

LEMMA ValidateKeeps ==
  ASSUME ChargeInv, NEW c \in Charges, Validate(c)
  PROVE  ChargeInv'
<1>1. /\ stage[c] = "validate" /\ stage[c] # "idle" /\ stage[c] \notin Finishing
      /\ UNCHANGED <<accounts, rowLock, crashes, cache, request>>
  BY DEF Validate, Finishing
<1>2. CASE Valid(c) /\ stage' = [stage EXCEPT ![c] = "credit_wallet"] /\ UNCHANGED <<charges, answer>>
  BY <1>1, <1>2, AnswersType, MoveKeeps DEF SettlementSteps
<1>3. ASSUME ~Valid(c), NEW step \in {"reply", "save"},
             stage' = [stage EXCEPT ![c] = step],
             step = "save" => request[c].key # NoKey,
             UNCHANGED <<charges, answer>>
      PROVE  ChargeInv'
  BY <1>1, <1>3, AnswersType, MoveKeeps DEF SettlementSteps
<1>4. ASSUME ~Valid(c), NEW step \in {"reply", "save"},
             stage' = [stage EXCEPT ![c] = step],
             step = "save" => request[c].key # NoKey,
             charges' = charges \cup {Row(c, "FAILED")}, UNCHANGED answer
      PROVE  ChargeInv'
  <2>1. ledger' = ledger /\ AccountsTypeOK'
    BY <1>1 DEF accounts, AccountsTypeOK, ChargeInv, TypeOK
  <2>2. step \in Finishing
    BY DEF Finishing
  <2>3. UNCHANGED <<cache, request, rowLock, answer>>
    BY <1>1, <1>4
  <2> QED
    BY <1>1, <1>4, <2>1, <2>2, <2>3, AnswersType, RecordKeeps
<1>5. CASE /\ stage' = [stage EXCEPT ![c] = "done"] /\ answer' = [answer EXCEPT ![c] = Failed]
           /\ UNCHANGED charges
  BY <1>1, <1>5, AnswersType, FailedIsCovered, MoveKeeps DEF SettlementSteps, Finishing
<1>6. \/ Valid(c) /\ stage' = [stage EXCEPT ![c] = "credit_wallet"] /\ UNCHANGED <<charges, answer>>
      \/ /\ stage' = [stage EXCEPT ![c] = "done"] /\ answer' = [answer EXCEPT ![c] = Failed]
         /\ UNCHANGED charges
      \/ /\ ~Valid(c) /\ charges' \in {charges, charges \cup {Row(c, "FAILED")}}
         /\ UNCHANGED answer
         /\ \E step \in {"reply", "save"} : /\ stage' = [stage EXCEPT ![c] = step]
                                            /\ step = "save" => request[c].key # NoKey
  BY DEF Validate, Proceed, Respond
<1> QED
  BY <1>2, <1>3, <1>4, <1>5, <1>6

LEMMA SettleKeeps ==
  ASSUME ChargeInv, NEW c \in Charges, CommitSettlement(c) \/ SettlementUnacknowledged(c)
  PROVE  ChargeInv'
<1> DEFINE w == Settlement(request[c].merchant)
<1>1. stage[c] = "commit" /\ stage[c] # "idle" /\ stage[c] \notin Finishing
  BY DEF CommitSettlement, SettlementUnacknowledged, Finishing
<1>2. Valid(c) /\ \A e \in Entries(c) : e.amount > 0
  BY <1>1 DEF ChargeInv, RequestsKnown, SettlementSteps
<1>3. /\ charges' = charges \cup {Row(c, "SUCCEEDED")} /\ ledger' = ledger \cup Entries(c)
      /\ balance' = [balance EXCEPT ![w] = @ + Net(c)]
      /\ clearing' = clearing + request[c].amount
      /\ fee' = fee + (IF Fee(c) > 0 THEN Fee(c) ELSE 0)
      /\ rowLock' = [n \in Rows |-> IF n \in Held(c) THEN NoOne ELSE rowLock[n]]
      /\ UNCHANGED <<open, seeded, crashes, cache, request>>
  BY DEF CommitSettlement, SettlementUnacknowledged, Settle, Unlock, FeeDue, Fee
<1>4. AccountsTypeOK'
  <2>1. w \in Wallets /\ Fee(c) \in Int /\ Net(c) \in Int /\ request[c].amount \in Nat
    BY <1>1, Known
  <2> QED
    BY <1>1, <1>3, <2>1, NetAtCommit DEF AccountsTypeOK, ChargeInv, TypeOK
<1>5. rowLock' \in [Rows -> Charges \cup {NoOne}]
  BY <1>3, AnswersType
<1>6. ASSUME NEW step \in Finishing, stage' = [stage EXCEPT ![c] = step],
             step = "save" => request[c].key # NoKey,
             NEW response \in {answer[c], Failed}, answer' = [answer EXCEPT ![c] = response]
      PROVE  ChargeInv'
  BY <1>1, <1>2, <1>3, <1>4, <1>5, <1>6, RecordKeeps
<1>7. CASE CommitSettlement(c)
  <2>1. \E step \in Finishing : /\ stage' = [stage EXCEPT ![c] = step]
                                /\ step = "save" => request[c].key # NoKey
    BY <1>7 DEF CommitSettlement, Proceed, Finishing
  <2>2. answer' = [answer EXCEPT ![c] = answer[c]]
    BY <1>7, AnswersType DEF CommitSettlement
  <2> QED
    BY <1>6, <2>1, <2>2
<1>8. CASE SettlementUnacknowledged(c)
  BY <1>6, <1>8 DEF SettlementUnacknowledged, Respond, Proceed, Finishing
<1> QED
  BY <1>7, <1>8

(* Steps that leave requests, records and answers alone, or end all requests. *)
LEMMA ServerKeeps ==
  ASSUME ChargeInv, UNCHANGED <<charges, cache, request, answer, ledger>>,
         AccountsTypeOK', rowLock' \in [Rows -> Charges \cup {NoOne}],
         \/ UNCHANGED stage
         \/ stage' = [c \in Charges |-> IF stage[c] = "idle" THEN "idle" ELSE "done"]
  PROVE  ChargeInv'
<1> USE DEF ChargeInv
<1>1. TypeOK'
  BY DEF TypeOK
<1>2. \A d \in Charges : /\ Valid(d)' = Valid(d) /\ Entries(d)' = Entries(d)
                         /\ \A o : Row(d, o)' = Row(d, o)
  BY DEF Valid, Entries, Row, Fee, Net
<1>3. \A d \in Charges : stage'[d] = stage[d] \/ (stage[d] # "idle" /\ stage'[d] = "done")
  BY DEF TypeOK
<1>4. RequestsKnown'
  BY <1>2, <1>3 DEF RequestsKnown, SettlementSteps
<1>5. (\A r \in charges : r.id \in Charges) /\ (\A e \in ledger : e.charge \in Charges)
  BY DEF TypeOK
<1>6. RowsStand' /\ LegsComplete'
  BY <1>2, <1>3, <1>5 DEF RowsStand, LegsComplete, Settled, Finishing
<1>7. AnswersStand'
  BY DEF AnswersStand, Covered
<1> QED
  BY <1>1, <1>4, <1>6, <1>7

(* What others may do to the accounts while charges run: they leave the
   ledger and the charges' locks alone. *)
OthersStep == UNCHANGED <<chargeVars, ledger, rowLock>> /\ AccountsTypeOK'

LEMMA OthersKeep == ChargeInv /\ OthersStep => ChargeInv'
<1> SUFFICES ASSUME ChargeInv, OthersStep PROVE ChargeInv'
  OBVIOUS
<1>1. UNCHANGED <<charges, cache, stage, request, answer, ledger>> /\ AccountsTypeOK'
  BY DEF OthersStep, chargeVars
<1>2. rowLock' \in [Rows -> Charges \cup {NoOne}]
  BY DEF OthersStep, ChargeInv, TypeOK
<1> QED
  BY <1>1, <1>2, ServerKeeps

LEMMA StepKeeps == ChargeInv /\ [Next]_vars => ChargeInv'
<1> SUFFICES ASSUME ChargeInv, [Next]_vars PROVE ChargeInv'
  OBVIOUS
<1>1. ASSUME NEW c \in Charges, NEW in \in ChargeInputs, SubmitCharge(c, in)
      PROVE  ChargeInv'
  BY <1>1, SubmitKeeps
<1>2. ASSUME NEW c \in Charges, ChargeStep(c) \/ AbortSettlement(c) \/ MissRecord(c)
      PROVE  ChargeInv'
  BY <1>2, LookupKeeps, ValidateKeeps, RowStepsKeep, SettleKeeps, SaveKeeps, ReplyKeeps,
     RollbackKeeps
  DEF ChargeStep, AbortSettlement, MissRecord
<1>3. CASE Crash
  <2>1. /\ AccountsTypeOK' /\ rowLock' \in [Rows -> Charges \cup {NoOne}]
        /\ UNCHANGED ledger
    BY <1>3, AccountsAssumption
    DEF Crash, Restart, accounts, AccountsTypeOK, ChargeInv, TypeOK
  <2> QED
    BY <1>3, <2>1, ServerKeeps DEF Crash, EndCharges
<1>4. ASSUME NEW w \in Wallets, CloseWallet(w), UNCHANGED chargeVars PROVE ChargeInv'
  <2>1. /\ AccountsTypeOK' /\ rowLock' \in [Rows -> Charges \cup {NoOne}]
        /\ UNCHANGED ledger
    BY <1>4 DEF CloseWallet, AccountsTypeOK, ChargeInv, TypeOK
  <2> QED
    BY <1>4, <2>1, ServerKeeps DEF chargeVars
<1>5. CASE UNCHANGED vars
  <2>1. AccountsTypeOK' /\ rowLock' \in [Rows -> Charges \cup {NoOne}] /\ UNCHANGED ledger
    BY <1>5 DEF vars, accounts, AccountsTypeOK, ChargeInv, TypeOK
  <2> QED
    BY <1>5, <2>1, ServerKeeps DEF vars, chargeVars
<1> QED
  BY <1>1, <1>2, <1>3, <1>4, <1>5 DEF Next, ChargeNext, Quiet

LEMMA Invariance == Spec => []ChargeInv
BY InitInv, StepKeeps, PTL DEF Spec

-----------------------------------------------------------------------------
(* Every reachable state is well-typed: in particular every ledger entry
   carries money and no share of a charge is negative. *)
THEOREM ChargeTypeCorrect == Spec => []TypeOK
<1>1. ChargeInv => TypeOK
  BY DEF ChargeInv
<1> QED
  BY <1>1, Invariance, PTL

(* A response of success, to a client or for replay, names a settled charge. *)
THEOREM SuccessIsSettled == Spec => []SuccessMeansSettled
<1>1. ChargeInv => SuccessMeansSettled
  BY DEF ChargeInv, AnswersStand, Covered, SuccessMeansSettled
<1> QED
  BY <1>1, Invariance, PTL

(* The CHECK on the merchant's leg. *)
LEMMA NetIsPositive ==
  ASSUME ChargeInv, NEW c \in Charges, Settled(c)
  PROVE  Net(c) > 0
<1> DEFINE e == Entry(c, Settlement(request[c].merchant), "CREDIT", Net(c))
<1>1. e \in ledger /\ e.amount = Net(c)
  BY DEF ChargeInv, LegsComplete, Entries, Entry
<1>2. e.amount \in Nat \ {0}
  BY <1>1 DEF ChargeInv, TypeOK
<1> QED
  BY <1>1, <1>2

LegsOfChargesOnly ==
  /\ \A r, s \in charges : r.id = s.id => r = s
  /\ \A r \in charges :
       {e \in ledger : e.charge = r.id}
         = IF r.status = "SUCCEEDED" THEN Entries(r.id) ELSE {}
  /\ \A e \in ledger : \E r \in charges : r.id = e.charge
  /\ \A r \in charges : r.status = "SUCCEEDED" => r.net > 0 /\ r.fee + r.net = r.amount

LEMMA InvGivesLegs ==
  ASSUME ChargeInv
  PROVE  LegsOfChargesOnly
<1> USE DEF ChargeInv
<1>1. \A r, s \in charges : r.id = s.id => r = s
  BY DEF RowsStand
<1>2. ASSUME NEW r \in charges
      PROVE  {e \in ledger : e.charge = r.id}
               = IF r.status = "SUCCEEDED" THEN Entries(r.id) ELSE {}
  <2>1. r.id \in Charges /\ r = Row(r.id, r.status)
    BY DEF TypeOK, RowsStand, Row
  <2>2. Settled(r.id) <=> r.status = "SUCCEEDED"
    BY <1>1, <2>1 DEF Settled, Row
  <2>3. \A e \in Entries(r.id) : e.charge = r.id
    BY DEF Entries, Entry
  <2> QED
    BY <2>1, <2>2, <2>3 DEF LegsComplete
<1>3. \A e \in ledger : \E r \in charges : r.id = e.charge
  BY DEF LegsComplete, Settled, Row
<1>4. ASSUME NEW r \in charges, r.status = "SUCCEEDED"
      PROVE  r.net > 0 /\ r.fee + r.net = r.amount
  <2>1. r.id \in Charges /\ stage[r.id] # "idle" /\ r = Row(r.id, "SUCCEEDED")
    BY <1>4 DEF TypeOK, RowsStand, Row, Finishing
  <2>2. Net(r.id) > 0
    BY <2>1, NetIsPositive DEF Settled
  <2>3. r.amount = request[r.id].amount /\ r.fee = Fee(r.id) /\ r.net = Net(r.id)
    BY <2>1 DEF Row
  <2> HIDE <1>4
  <2> QED
    BY <2>1, <2>2, <2>3, Known
<1> QED
  BY <1>1, <1>2, <1>3, <1>4 DEF LegsOfChargesOnly

(* Each charge is recorded once; the ledger has its legs if it succeeded, and
   no entry of any other. *)
THEOREM LegsAreComplete == Spec => []LegsOfChargesOnly
<1>1. ChargeInv => LegsOfChargesOnly
  BY InvGivesLegs
<1> QED
  BY <1>1, Invariance, PTL

-----------------------------------------------------------------------------
(* Sums of amounts. *)

LEMMA AmountsFacts ==
  /\ AmountsOf({}) = 0
  /\ \A e : e.amount \in Int => AmountsOf({e}) = e.amount
  /\ \A S : IsFiniteSet(S) /\ (\A x \in S : x.amount \in Int) => AmountsOf(S) \in Int
<1>1. \A S : AmountsOf(S) = AmountSum(S)
  BY DEF AmountsOf, AmountSum
<1> QED
  BY <1>1, AmountSumFacts

LEMMA AmountsGrow ==
  ASSUME NEW S, IsFiniteSet(S), \A x \in S : x.amount \in Int,
         NEW e, e.amount \in Int, e \notin S
  PROVE  AmountsOf(S \cup {e}) = AmountsOf(S) + e.amount
BY AmountSumGrows DEF AmountsOf, AmountSum

-----------------------------------------------------------------------------
(* The legs of one charge. *)
Debit(c) == Entry(c, "clearing", "DEBIT", request[c].amount)
WalletCredit(c) == Entry(c, Settlement(request[c].merchant), "CREDIT", Net(c))
FeeCredit(c) == Entry(c, "fee", "CREDIT", Fee(c))
FeeCredits(c) == IF Fee(c) > 0 THEN {FeeCredit(c)} ELSE {}

LEMMA Legs ==
  ASSUME ChargeInv, NEW c \in Charges, stage[c] # "idle"
  PROVE  /\ Entries(c) = {Debit(c), WalletCredit(c)} \cup FeeCredits(c)
         /\ Debit(c).amount = request[c].amount /\ WalletCredit(c).amount = Net(c)
         /\ FeeCredit(c).amount = Fee(c)
         /\ Debit(c).type = "DEBIT"
         /\ WalletCredit(c).type = "CREDIT" /\ FeeCredit(c).type = "CREDIT"
         /\ Debit(c).account = "clearing" /\ FeeCredit(c).account = "fee"
         /\ WalletCredit(c).account = Settlement(request[c].merchant)
         /\ Settlement(request[c].merchant) \notin {"clearing", "fee"}
<1>1. Settlement(request[c].merchant) \notin {"clearing", "fee"}
  BY Known, NamesAssumption DEF Accounts
<1> QED
  BY <1>1 DEF Entries, Debit, WalletCredit, FeeCredit, FeeCredits, Entry

(* The credits of a charge are its net amount and its fee, if that is positive. *)
LEMMA CreditsAddUp ==
  ASSUME ChargeInv, NEW c \in Charges, stage[c] # "idle", Settled(c)
  PROVE  AmountsOf({WalletCredit(c)} \cup FeeCredits(c))
           = request[c].amount + (IF Fee(c) < 0 THEN -Fee(c) ELSE 0)
<1>1. /\ Net(c) \in Int /\ Fee(c) \in Int /\ request[c].amount \in Int
      /\ Net(c) = request[c].amount - Fee(c)
      /\ WalletCredit(c).amount = Net(c) /\ FeeCredit(c).amount = Fee(c)
      /\ Fee(c) > 0 => WalletCredit(c) # FeeCredit(c)
  <2>1. Net(c) = request[c].amount - Fee(c)
    BY Known, NetIsPositive
  <2> QED
    BY <2>1, Known, Legs
<1>2. AmountsOf({WalletCredit(c)}) = Net(c)
  BY <1>1, AmountsFacts
<1>3. CASE Fee(c) > 0
  <2> DEFINE S == {WalletCredit(c)}
             e == FeeCredit(c)
  <2>1. e \notin S /\ e.amount \in Int /\ e.amount = Fee(c) /\ \A x \in S : x.amount \in Int
    BY <1>1, <1>3
  <2>2. IsFiniteSet(S)
    BY FS_Singleton
  <2> HIDE DEF S, e
  <2>3. AmountsOf(S \cup {e}) = AmountsOf(S) + e.amount
    BY <2>1, <2>2, AmountsGrow
  <2>4. AmountsOf({WalletCredit(c)} \cup {FeeCredit(c)}) = Net(c) + Fee(c)
    BY <1>2, <2>1, <2>3 DEF S, e
  <2> QED
    BY <1>1, <1>3, <2>4 DEF FeeCredits
<1>4. CASE ~(Fee(c) > 0)
  <2>1. {WalletCredit(c)} \cup FeeCredits(c) = {WalletCredit(c)}
    BY <1>4 DEF FeeCredits
  <2>2. Net(c) = request[c].amount + (IF Fee(c) < 0 THEN -Fee(c) ELSE 0)
    BY <1>1, <1>4
  <2> QED
    BY <1>2, <2>1, <2>2
<1> QED
  BY <1>3, <1>4

(* Double entry: a settled charge debits its amount and credits the same; the
   credits are more only where the fee is negative, and that only if the product
   it is computed from is larger than an int64.  A charge that was not settled
   has no entry. *)
THEOREM LedgerIsBalanced == Spec => []LedgerBalanced
<1>1. ASSUME ChargeInv PROVE LedgerBalanced
  <2> USE <1>1
  <2>1. LegsOfChargesOnly
    BY InvGivesLegs
  <2>2. ASSUME NEW r \in charges
        PROVE  LET settled == IF r.status = "SUCCEEDED" THEN r.amount ELSE 0
                   excess == IF r.fee < 0 THEN -r.fee ELSE 0
               IN  /\ AmountsOf(EntriesOf(r.id, "DEBIT")) = settled
                   /\ AmountsOf(EntriesOf(r.id, "CREDIT")) = settled + excess
                   /\ excess > 0 => FeeProduct(r.amount, r.merchant) > MaxInt
    <3>1. \A t : EntriesOf(r.id, t) = {e \in {x \in ledger : x.charge = r.id} : e.type = t}
      BY DEF EntriesOf
    <3>2. CASE r.status # "SUCCEEDED"
      <4>1. \A t : EntriesOf(r.id, t) = {}
        BY <2>1, <3>1, <3>2 DEF LegsOfChargesOnly
      <4>2. r.fee = 0
        BY <3>2 DEF ChargeInv, RowsStand, Row
      <4> QED
        BY <3>2, <4>1, <4>2, AmountsFacts
    <3>3. CASE r.status = "SUCCEEDED"
      <4> DEFINE c == r.id
      <4>1. /\ c \in Charges /\ stage[c] # "idle" /\ r.amount = request[c].amount
            /\ r = Row(c, "SUCCEEDED") /\ r.merchant = request[c].merchant /\ r.fee = Fee(c)
        BY <3>3 DEF ChargeInv, TypeOK, RowsStand, Row, Finishing
      <4>2. \A t : EntriesOf(c, t) = {e \in Entries(c) : e.type = t}
        BY <2>1, <3>1, <3>3 DEF LegsOfChargesOnly
      <4> HIDE DEF c
      <4>3. EntriesOf(c, "DEBIT") = {Debit(c)}
        BY <4>1, <4>2, Legs DEF FeeCredits
      <4>4. EntriesOf(c, "CREDIT") = {WalletCredit(c)} \cup FeeCredits(c)
        BY <4>1, <4>2, Legs DEF FeeCredits
      <4>5. AmountsOf({Debit(c)}) = r.amount
        BY <4>1, Known, Legs, AmountsFacts
      <4>6. AmountsOf(EntriesOf(c, "CREDIT")) = r.amount + (IF r.fee < 0 THEN -r.fee ELSE 0)
        BY <4>1, <4>4, CreditsAddUp DEF Settled
      <4>7. r.fee \in Int /\ (r.fee < 0 => FeeProduct(r.amount, r.merchant) > MaxInt)
        BY <4>1, Known
      <4> QED
        BY <3>3, <4>3, <4>5, <4>6, <4>7 DEF c
    <3> QED
      BY <3>2, <3>3
  <2> QED
    BY <2>1, <2>2 DEF LedgerBalanced, LegsOfChargesOnly
<1>2. ChargeInv => LedgerBalanced
  BY <1>1
<1> QED
  BY <1>2, Invariance, PTL

-----------------------------------------------------------------------------
(* The accounts and the ledger. *)

LedgerInv == ChargeInv /\ IsFiniteSet(ledger) /\ AccountsMatchLedger

LEMMA InitLedger == Init => LedgerInv
<1> SUFFICES ASSUME Init PROVE LedgerInv
  OBVIOUS
<1>1. ledger = {} /\ clearing = 0 /\ fee = 0 /\ balance = [w \in Wallets |-> WalletRow[w].balance]
  BY DEF Init, AccountsInit
<1>2. \A n, t : AmountsOf(EntriesAt(n, t)) = 0
  <2>1. \A n, t : EntriesAt(n, t) = {}
    BY <1>1 DEF EntriesAt
  <2> QED
    BY <2>1, AmountsFacts
<1>3. \A w \in Wallets : WalletRow[w].balance \in Nat
  BY AccountsAssumption
<1>4. AccountsMatchLedger
  BY <1>1, <1>2, <1>3 DEF AccountsMatchLedger
<1> QED
  BY <1>1, <1>4, InitInv, FS_EmptySet DEF LedgerInv

(* One more entry on account n, and no other change of its entries. *)
LEMMA EntryCounts ==
  ASSUME ChargeInv, IsFiniteSet(ledger), NEW n, NEW t,
         NEW e, e.amount \in Int, e \notin ledger,
         EntriesAt(n, t)' = EntriesAt(n, t) \cup {e}
  PROVE  AmountsOf(EntriesAt(n, t)') = AmountsOf(EntriesAt(n, t)) + e.amount
<1> DEFINE S == EntriesAt(n, t)
<1>1. S \subseteq ledger
  BY DEF EntriesAt
<1>2. IsFiniteSet(S)
  BY <1>1, FS_Subset
<1>3. \A x \in S : x.amount \in Int
  BY <1>1 DEF ChargeInv, TypeOK
<1>4. e \notin S
  BY <1>1
<1>5. AmountsOf(S \cup {e}) = AmountsOf(S) + e.amount
  <2> HIDE DEF S
  <2> QED
    BY <1>2, <1>3, <1>4, AmountsGrow
<1> QED
  BY <1>5

LEMMA SettleMatches ==
  ASSUME LedgerInv, NEW c \in Charges, CommitSettlement(c) \/ SettlementUnacknowledged(c)
  PROVE  IsFiniteSet(ledger') /\ AccountsMatchLedger'
<1> USE DEF LedgerInv
<1> DEFINE w == Settlement(request[c].merchant)
           Added(n, t) == {e \in Entries(c) : e.account = n /\ e.type = t}
<1>1. stage[c] = "commit" /\ stage[c] # "idle" /\ stage[c] \notin Finishing
  BY DEF CommitSettlement, SettlementUnacknowledged, Finishing
<1>2. /\ ledger' = ledger \cup Entries(c)
      /\ balance' = [balance EXCEPT ![w] = @ + Net(c)]
      /\ clearing' = clearing + request[c].amount
      /\ fee' = fee + (IF Fee(c) > 0 THEN Fee(c) ELSE 0)
  BY DEF CommitSettlement, SettlementUnacknowledged, Settle, FeeDue, Fee
<1>3. /\ w \in Wallets /\ w \notin {"clearing", "fee"}
      /\ request[c].amount \in Int /\ Net(c) \in Int /\ Fee(c) \in Int
  BY <1>1, Known, Legs
<1>4. /\ Entries(c) = {Debit(c), WalletCredit(c)} \cup FeeCredits(c)
      /\ Debit(c).amount = request[c].amount /\ WalletCredit(c).amount = Net(c)
      /\ FeeCredit(c).amount = Fee(c)
      /\ Debit(c).type = "DEBIT"
      /\ WalletCredit(c).type = "CREDIT" /\ FeeCredit(c).type = "CREDIT"
      /\ Debit(c).account = "clearing" /\ FeeCredit(c).account = "fee"
      /\ WalletCredit(c).account = w
  BY <1>1, Legs
<1>5. \A e \in Entries(c) : e \notin ledger
  <2>1. \A e \in ledger : e.charge # c
    BY <1>1 DEF ChargeInv, TypeOK, LegsComplete, RowsStand, Settled, Row
  <2>2. \A e \in Entries(c) : e.charge = c
    BY DEF Entries, Entry
  <2> QED
    BY <2>1, <2>2
<1>6. \A n, t : EntriesAt(n, t)' = EntriesAt(n, t) \cup Added(n, t)
  BY <1>2 DEF EntriesAt
<1>7. IsFiniteSet(ledger')
  <2>1. /\ IsFiniteSet({Debit(c)}) /\ IsFiniteSet({WalletCredit(c)})
        /\ IsFiniteSet({FeeCredit(c)}) /\ IsFiniteSet({})
    BY FS_EmptySet, FS_Singleton
  <2>2. IsFiniteSet(FeeCredits(c))
    BY <2>1 DEF FeeCredits
  <2>3. ledger' = ((ledger \cup {Debit(c)}) \cup {WalletCredit(c)}) \cup FeeCredits(c)
    BY <1>2, <1>4
  <2> QED
    BY <2>1, <2>2, <2>3, FS_Union
<1> HIDE DEF w
<1>8. clearing' = AmountsOf(EntriesAt("clearing", "DEBIT")')
  <2>1. Added("clearing", "DEBIT") = {Debit(c)} /\ Debit(c) \in Entries(c)
    BY <1>4 DEF FeeCredits
  <2>2. AmountsOf(EntriesAt("clearing", "DEBIT")')
          = AmountsOf(EntriesAt("clearing", "DEBIT")) + request[c].amount
    BY <1>3, <1>4, <1>5, <1>6, <2>1, EntryCounts
  <2> QED
    BY <1>2, <2>2 DEF AccountsMatchLedger
<1>9. fee' = AmountsOf(EntriesAt("fee", "CREDIT")')
  <2>1. CASE Fee(c) > 0
    <3>1. Added("fee", "CREDIT") = {FeeCredit(c)} /\ FeeCredit(c) \in Entries(c)
      BY <1>3, <1>4, <2>1 DEF FeeCredits
    <3>2. AmountsOf(EntriesAt("fee", "CREDIT")') = AmountsOf(EntriesAt("fee", "CREDIT")) + Fee(c)
      BY <1>3, <1>4, <1>5, <1>6, <3>1, EntryCounts
    <3>3. fee' = fee + Fee(c)
      BY <1>2, <2>1
    <3> QED
      BY <3>2, <3>3 DEF AccountsMatchLedger
  <2>2. CASE ~(Fee(c) > 0)
    <3>1. Added("fee", "CREDIT") = {}
      BY <1>3, <1>4, <2>2 DEF FeeCredits
    <3>2. EntriesAt("fee", "CREDIT")' = EntriesAt("fee", "CREDIT")
      BY <1>6, <3>1
    <3>3. fee' = fee
      BY <1>2, <2>2 DEF ChargeInv, TypeOK, AccountsTypeOK
    <3> QED
      BY <3>2, <3>3 DEF AccountsMatchLedger
  <2> QED
    BY <1>3, <2>1, <2>2
<1>10. ASSUME NEW v \in Wallets
       PROVE  balance'[v] = WalletRow[v].balance + AmountsOf(EntriesAt(v, "CREDIT")')
  <2>1. v # "fee" /\ v # "clearing"
    BY NamesAssumption DEF Accounts
  <2>2. balance[v] = WalletRow[v].balance + AmountsOf(EntriesAt(v, "CREDIT"))
    BY DEF AccountsMatchLedger
  <2>3. /\ WalletRow[v].balance \in Int /\ AmountsOf(EntriesAt(v, "CREDIT")) \in Int
    <3>1. EntriesAt(v, "CREDIT") \subseteq ledger
      BY DEF EntriesAt
    <3>2. IsFiniteSet(EntriesAt(v, "CREDIT"))
      BY <3>1, FS_Subset
    <3>3. \A x \in EntriesAt(v, "CREDIT") : x.amount \in Int
      BY <3>1 DEF ChargeInv, TypeOK
    <3>4. AmountsOf(EntriesAt(v, "CREDIT")) \in Int
      BY <3>2, <3>3, AmountsFacts
    <3> QED
      BY <3>4, AccountsAssumption
  <2>4. CASE v = w
    <3>1. Added(v, "CREDIT") = {WalletCredit(c)} /\ WalletCredit(c) \in Entries(c)
      BY <1>4, <2>1, <2>4 DEF FeeCredits
    <3>2. AmountsOf(EntriesAt(v, "CREDIT")') = AmountsOf(EntriesAt(v, "CREDIT")) + Net(c)
      BY <1>3, <1>4, <1>5, <1>6, <3>1, EntryCounts
    <3>3. balance'[v] = balance[v] + Net(c)
      BY <1>2, <1>3, <2>4 DEF ChargeInv, TypeOK, AccountsTypeOK
    <3> QED
      BY <1>3, <2>2, <2>3, <3>2, <3>3
  <2>5. CASE v # w
    <3>1. Added(v, "CREDIT") = {}
      BY <1>4, <2>1, <2>5 DEF FeeCredits
    <3>2. EntriesAt(v, "CREDIT")' = EntriesAt(v, "CREDIT")
      BY <1>6, <3>1
    <3>3. balance'[v] = balance[v]
      BY <1>2, <2>5 DEF ChargeInv, TypeOK, AccountsTypeOK
    <3> QED
      BY <2>2, <3>2, <3>3
  <2> QED
    BY <2>4, <2>5
<1> QED
  BY <1>7, <1>8, <1>9, <1>10 DEF AccountsMatchLedger

LEMMA LedgerStep == LedgerInv /\ [Next]_vars => LedgerInv'
<1> SUFFICES ASSUME LedgerInv, [Next]_vars PROVE LedgerInv'
  OBVIOUS
<1>1. ChargeInv'
  BY StepKeeps DEF LedgerInv
<1>2. ASSUME UNCHANGED <<balance, clearing, fee, ledger>>
      PROVE  IsFiniteSet(ledger') /\ AccountsMatchLedger'
  BY <1>2 DEF LedgerInv, AccountsMatchLedger, EntriesAt
<1>3. \A c \in Charges :
        CreditWallet(c) \/ DebitClearing(c) \/ CreditRevenue(c) \/ AbortSettlement(c) =>
          UNCHANGED accounts
  BY DEF CreditWallet, DebitClearing, CreditRevenue, AbortSettlement, Increase, TakeAccount,
     RollbackSettlement
<1>4. \A c \in Charges :
        \/ Lookup(c) \/ LookupFails(c) \/ Validate(c) \/ Save(c) \/ SaveFails(c) \/ Reply(c)
        \/ \E in \in ChargeInputs : SubmitCharge(c, in)
        => UNCHANGED accounts
  BY DEF Lookup, LookupFails, Validate, Save, SaveFails, Reply, SubmitCharge
<1>5. \A c \in Charges :
        (\E in \in ChargeInputs : SubmitCharge(c, in)) \/ ChargeStep(c) \/ AbortSettlement(c)
          \/ MissRecord(c)
        => UNCHANGED accounts \/ CommitSettlement(c) \/ SettlementUnacknowledged(c)
  BY <1>3, <1>4 DEF ChargeStep, MissRecord
<1>6. \/ UNCHANGED <<balance, clearing, fee, ledger>>
      \/ \E c \in Charges : CommitSettlement(c) \/ SettlementUnacknowledged(c)
  BY <1>5 DEF Next, ChargeNext, Crash, Restart, CloseWallet, Quiet, vars, accounts
<1> QED
  BY <1>1, <1>2, <1>6, SettleMatches DEF LedgerInv

(* The balances of the wallets and of the system accounts are what the ledger
   says: no settlement is applied to one and not to the other. *)
THEOREM AccountsFollowLedger == Spec => []AccountsMatchLedger
<1>1. Spec => []LedgerInv
  BY InitLedger, LedgerStep, PTL DEF Spec
<1>2. LedgerInv => AccountsMatchLedger
  BY DEF LedgerInv
<1> QED
  BY <1>1, <1>2, PTL

-----------------------------------------------------------------------------
(* Idempotency-Keys that are used in order. *)

Clean(c) == request[c].key # NoKey /\ KeyOf(c) \notin disorder

AloneInFlight ==
  \A c, d \in Charges : (SameKey(c, d) /\ Clean(c) /\ InFlight(c) /\ InFlight(d)) => c = d

(* The record of a key is written by the first request that comes through, and
   it is that one's settled charge and every one's answer. *)
KeyStands(c) ==
  /\ Settled(c) => stage[c] = "save" \/ Cached(c) = Succeeded(c)
  /\ answer[c] \notin {NoResponse, Failed} => answer[c] = Cached(c)
  /\ InFlight(c) /\ stage[c] \notin {"lookup", "reply"} => Cached(c) = NoResponse
  /\ stage[c] = "reply" => Cached(c) = Outcome(c)

OrderlyInv == AloneInFlight /\ \A c \in Charges : Clean(c) => KeyStands(c)

LEMMA InitOrderly == OrderlyInit => OrderlyInv
BY DEF OrderlyInit, Init, ChargeInit, OrderlyInv, AloneInFlight, Clean, NoRequest

LEMMA SettledFinishes ==
  ASSUME ChargeInv, NEW c \in Charges, Settled(c)
  PROVE  stage[c] \in Finishing /\ Valid(c)
BY DEF ChargeInv, RowsStand, Settled, Row

(* A request in flight goes on: nothing changes for the others, and if it writes
   the record of its key, no other request has used that key. *)
LEMMA OrderlyMove ==
  ASSUME ChargeInv, OrderlyInv, NEW c \in Charges, InFlight(c),
         UNCHANGED request, disorder \subseteq disorder',
         \A d \in Charges \ {c} :
           stage'[d] = stage[d] /\ answer'[d] = answer[d] /\ (Settled(d)' => Settled(d)),
         \/ cache' = cache
         \/ /\ stage[c] = "save" /\ request[c].key # NoKey
            /\ cache' = [cache EXCEPT ![request[c].merchant][request[c].key] = Outcome(c)],
         Clean(c)' => KeyStands(c)'
  PROVE  OrderlyInv'
<1>1. /\ \A d \in Charges : InFlight(d)' => InFlight(d)
      /\ \A d \in Charges : Clean(d)' => Clean(d)
      /\ \A d, e \in Charges : SameKey(d, e)' <=> SameKey(d, e)
      /\ \A d \in Charges : Outcome(d)' = Outcome(d)
  BY DEF InFlight, Clean, KeyOf, SameKey, Outcome, Valid
<1>2. AloneInFlight'
  BY <1>1 DEF OrderlyInv, AloneInFlight
<1>3. ASSUME NEW d \in Charges, d # c, Clean(d)' PROVE KeyStands(d)'
  <2>1. /\ Clean(d) /\ KeyStands(d) /\ stage'[d] = stage[d] /\ answer'[d] = answer[d]
        /\ Settled(d)' => Settled(d)
        /\ Outcome(d)' = Outcome(d) /\ (InFlight(d)' <=> InFlight(d))
    BY <1>1, <1>3 DEF OrderlyInv, InFlight
  <2>2. CASE Cached(d)' = Cached(d)
    BY <2>1, <2>2 DEF KeyStands
  <2>3. CASE stage[d] = "idle"
    <3>1. answer[d] = NoResponse /\ ~Settled(d) /\ ~InFlight(d)
      BY <2>3, SettledFinishes DEF ChargeInv, RequestsKnown, Finishing, InFlight
    <3> QED
      BY <2>1, <2>3, <3>1 DEF KeyStands
  <2>4. CASE stage[d] # "idle" /\ Cached(d)' # Cached(d)
    <3> DEFINE m == request[c].merchant
               k == request[c].key
               n == request[d].merchant
               j == request[d].key
    <3>1. /\ stage[c] = "save" /\ k # NoKey /\ cache' = [cache EXCEPT ![m][k] = Outcome(c)]
      BY <2>4 DEF Cached
    <3>2. m \in Merchants /\ k \in Keys /\ n \in Merchants /\ j \in Keys
      BY <2>1, <2>4, <3>1, Known DEF Clean
    <3>3. Outcome(c) \in Responses /\ cache \in [Merchants -> [Keys -> Responses]]
      BY <3>1, OutcomeIsCovered DEF ChargeInv, TypeOK
    <3>4. cache'[n][j] # cache[n][j]
      BY <2>4 DEF Cached
    <3> HIDE DEF m, k, n, j
    <3>5. n = m /\ j = k
      BY <3>1, <3>2, <3>3, <3>4, OneCell
    <3>6. SameKey(c, d) /\ SameKey(d, c) /\ Clean(c) /\ Cached(c) = Cached(d)
      BY <2>1, <3>1, <3>5 DEF SameKey, Clean, KeyOf, Cached, m, k, n, j
    <3>7. Cached(d) = NoResponse
      BY <3>1, <3>6 DEF OrderlyInv, KeyStands, InFlight
    <3>8. ~InFlight(d)
      BY <1>3, <3>6 DEF OrderlyInv, AloneInFlight
    <3>9. answer[d] \in {NoResponse, Failed}
      BY <2>1, <3>7 DEF KeyStands
    <3>10. ~Settled(d)
      BY <2>1, <3>7, <3>8 DEF KeyStands, InFlight, Succeeded, NoResponse
    <3> QED
      BY <2>1, <3>8, <3>9, <3>10 DEF KeyStands, InFlight
  <2> QED
    BY <2>2, <2>3, <2>4
<1> QED
  BY <1>2, <1>3 DEF OrderlyInv

(* Steps that write no row and no record. *)
LEMMA OrderlyPass ==
  ASSUME ChargeInv, OrderlyInv, NEW c \in Charges, InFlight(c), stage[c] \notin {"save", "reply"},
         UNCHANGED <<charges, cache, request, disorder>>,
         \A d \in Charges \ {c} : stage'[d] = stage[d] /\ answer'[d] = answer[d],
         stage'[c] \notin {"reply", "lookup"}, answer'[c] \in {answer[c], Failed, Cached(c)},
         stage'[c] # "done" /\ stage[c] = "lookup" => Cached(c) = NoResponse
  PROVE  OrderlyInv'
<1>1. \A d \in Charges : (Settled(d)' <=> Settled(d)) /\ Cached(d)' = Cached(d)
  BY DEF Settled, Row, Fee, Net, Cached
<1>2. ASSUME Clean(c)' PROVE KeyStands(c)'
  <2>1. Clean(c) /\ KeyStands(c)
    BY <1>2 DEF Clean, KeyOf, OrderlyInv
  <2>2. Settled(c)' => Cached(c)' = Succeeded(c)
    BY <1>1, <2>1 DEF KeyStands
  <2>3. answer'[c] \notin {NoResponse, Failed} => answer'[c] = Cached(c)
    BY <2>1 DEF KeyStands
  <2>4. InFlight(c)' => Cached(c) = NoResponse
    BY <2>1 DEF KeyStands, InFlight
  <2> QED
    BY <1>1, <2>2, <2>3, <2>4 DEF KeyStands
<1> QED
  BY <1>1, <1>2, OrderlyMove

LEMMA OrderlySettlement ==
  ASSUME ChargeInv, OrderlyInv, NEW c \in Charges, UNCHANGED disorder,
         \/ Lookup(c) \/ CreditWallet(c) \/ DebitClearing(c) \/ CreditRevenue(c)
         \/ AbortSettlement(c)
  PROVE  OrderlyInv'
<1>1. ASSUME NEW n, NEW step \in SettlementSteps, TakeAccount(c, n, step),
             stage[c] \in SettlementSteps
      PROVE  OrderlyInv'
  <2>1. /\ stage'[c] = step /\ UNCHANGED <<charges, cache, request, answer>>
        /\ \A d \in Charges \ {c} : stage'[d] = stage[d]
    BY <1>1 DEF TakeAccount, Proceed, ChargeInv, TypeOK
  <2>2. step \notin {"reply", "lookup"} /\ stage[c] \notin {"save", "reply", "lookup"}
    BY <1>1 DEF SettlementSteps
  <2>3. InFlight(c)
    BY <1>1 DEF InFlight, SettlementSteps
  <2> QED
    BY <2>1, <2>2, <2>3, OrderlyPass
<1>2. ASSUME stage[c] \in SettlementSteps, RollbackSettlement(c) PROVE OrderlyInv'
  <2>1. stage[c] \notin {"save", "reply"} /\ InFlight(c)
    BY <1>2 DEF InFlight, SettlementSteps
  <2>2. /\ stage'[c] = "done" /\ answer'[c] = Failed
        /\ \A d \in Charges \ {c} : stage'[d] = stage[d] /\ answer'[d] = answer[d]
        /\ UNCHANGED <<charges, cache, request>>
    BY <1>2 DEF RollbackSettlement, Respond, Proceed, ChargeInv, TypeOK
  <2> QED
    BY <2>1, <2>2, OrderlyPass
<1>3. CASE Lookup(c)
  <2>1. /\ stage[c] = "lookup" /\ InFlight(c) /\ UNCHANGED <<charges, cache, request>>
        /\ \A d \in Charges \ {c} : stage'[d] = stage[d] /\ answer'[d] = answer[d]
        /\ \/ stage'[c] = "done" /\ answer'[c] = Cached(c)
           \/ stage'[c] = "validate" /\ answer'[c] = answer[c] /\ Cached(c) = NoResponse
    BY <1>3 DEF Lookup, Respond, Proceed, InFlight, ChargeInv, TypeOK
  <2> QED
    BY <2>1, OrderlyPass
<1>4. CASE CreditWallet(c) \/ DebitClearing(c) \/ CreditRevenue(c)
  BY <1>1, <1>2, <1>4 DEF CreditWallet, DebitClearing, CreditRevenue, Increase, SettlementSteps
<1> QED
  BY <1>2, <1>3, <1>4 DEF AbortSettlement

LEMMA OthersSettled ==
  ASSUME NEW c, NEW outcome, UNCHANGED request,
         charges' \in {charges, charges \cup {Row(c, outcome)}}
  PROVE  \A d \in Charges \ {c} : Settled(d)' => Settled(d)
BY DEF Settled, Row, Fee, Net

(* A row is written, and a request with a key goes on to save its response. *)
LEMMA OrderlyRow ==
  ASSUME ChargeInv, OrderlyInv, NEW c \in Charges, UNCHANGED disorder,
         Validate(c) \/ CommitSettlement(c)
  PROVE  OrderlyInv'
<1>1. stage[c] \in {"validate", "commit"} /\ UNCHANGED <<cache, request>>
  BY DEF Validate, CommitSettlement, Settle
<1>2. InFlight(c)
  BY <1>1 DEF InFlight
<1>3. CASE Proceed(c, "credit_wallet") /\ UNCHANGED <<charges, answer>>
  <2>1. /\ stage'[c] = "credit_wallet"
        /\ \A d \in Charges \ {c} : stage'[d] = stage[d] /\ answer'[d] = answer[d]
    BY <1>1, <1>3 DEF Proceed, ChargeInv, TypeOK
  <2> QED
    BY <1>1, <1>2, <1>3, <2>1, OrderlyPass
<1>4. CASE /\ Proceed(c, IF request[c].key = NoKey THEN "reply" ELSE "save")
           /\ \E o : charges' \in {charges, charges \cup {Row(c, o)}}
           /\ UNCHANGED answer
  <2>1. \A d \in Charges \ {c} : Settled(d)' => Settled(d)
    BY <1>1, <1>4, OthersSettled
  <2>2. /\ \A d \in Charges \ {c} : stage'[d] = stage[d] /\ answer'[d] = answer[d]
        /\ request[c].key # NoKey => stage'[c] = "save"
    BY <1>1, <1>4 DEF Proceed, ChargeInv, TypeOK
  <2>3. ASSUME Clean(c)' PROVE KeyStands(c)'
    <3>1. Clean(c) /\ KeyStands(c) /\ Cached(c)' = Cached(c) /\ stage'[c] = "save"
      BY <1>1, <2>2, <2>3 DEF Clean, KeyOf, OrderlyInv, Cached
    <3>2. Cached(c) = NoResponse /\ answer'[c] = answer[c]
      BY <1>1, <1>2, <1>4, <3>1 DEF KeyStands
    <3> QED
      BY <3>1, <3>2 DEF KeyStands
  <2> QED
    BY <1>1, <1>2, <2>1, <2>2, <2>3, OrderlyMove
<1>5. CASE Respond(c, Failed) /\ UNCHANGED charges
  <2>1. /\ stage'[c] = "done" /\ answer'[c] = Failed
        /\ \A d \in Charges \ {c} : stage'[d] = stage[d] /\ answer'[d] = answer[d]
    BY <1>5 DEF Respond, Proceed, ChargeInv, TypeOK
  <2> QED
    BY <1>1, <1>2, <1>5, <2>1, OrderlyPass
<1> QED
  BY <1>3, <1>4, <1>5 DEF Validate, CommitSettlement, Settle

LEMMA OrderlySave ==
  ASSUME ChargeInv, OrderlyInv, NEW c \in Charges, UNCHANGED disorder, Save(c)
  PROVE  OrderlyInv'
<1>1. /\ stage[c] = "save" /\ UNCHANGED <<charges, request, answer>>
      /\ cache' = [cache EXCEPT ![request[c].merchant][request[c].key] = Outcome(c)]
  BY DEF Save
<1>2. /\ stage'[c] = "reply"
      /\ \A d \in Charges \ {c} : stage'[d] = stage[d] /\ answer'[d] = answer[d]
  BY DEF Save, Proceed, ChargeInv, TypeOK
<1>3. /\ InFlight(c) /\ request[c].key # NoKey
      /\ \A d \in Charges : Settled(d)' => Settled(d)
  BY <1>1 DEF InFlight, ChargeInv, RequestsKnown, Settled, Row, Fee, Net
<1>4. ASSUME Clean(c)' PROVE KeyStands(c)'
  <2>1. Clean(c) /\ KeyStands(c)
    BY <1>1, <1>4 DEF Clean, KeyOf, OrderlyInv
  <2>2. answer'[c] \in {NoResponse, Failed}
    BY <1>1, <1>3, <2>1 DEF KeyStands
  <2>3. Cached(c)' = Outcome(c)
    <3>1. /\ request[c].merchant \in Merchants /\ request[c].key \in Keys
          /\ cache \in [Merchants -> [Keys -> Responses]] /\ Outcome(c) \in Responses
      BY <1>1, <1>3, Known, OutcomeIsCovered DEF ChargeInv, TypeOK
    <3> QED
      BY <1>1, <3>1, OneCell DEF Cached
  <2>4. Outcome(c)' = Outcome(c)
    BY <1>1 DEF Outcome, Valid
  <2>5. Settled(c)' => Cached(c)' = Succeeded(c)
    BY <1>3, <2>3, SettledFinishes DEF Outcome
  <2> QED
    BY <1>2, <2>2, <2>3, <2>4, <2>5 DEF KeyStands
<1> QED
  BY <1>1, <1>2, <1>3, <1>4, OrderlyMove

LEMMA OrderlyReply ==
  ASSUME ChargeInv, OrderlyInv, NEW c \in Charges, UNCHANGED disorder, Reply(c)
  PROVE  OrderlyInv'
<1>1. stage[c] = "reply" /\ UNCHANGED <<charges, cache, request>>
  BY DEF Reply
<1>2. /\ stage'[c] = "done" /\ answer'[c] = Outcome(c)
      /\ \A d \in Charges \ {c} : stage'[d] = stage[d] /\ answer'[d] = answer[d]
  BY DEF Reply, Respond, Proceed, ChargeInv, TypeOK
<1>3. InFlight(c) /\ \A d \in Charges : Settled(d)' => Settled(d)
  BY <1>1 DEF InFlight, Settled, Row, Fee, Net
<1>4. ASSUME Clean(c)' PROVE KeyStands(c)'
  <2>1. Clean(c) /\ KeyStands(c) /\ Cached(c)' = Cached(c)
    BY <1>1, <1>4 DEF Clean, KeyOf, OrderlyInv, Cached
  <2> QED
    BY <1>1, <1>2, <1>3, <2>1 DEF KeyStands, InFlight
<1> QED
  BY <1>1, <1>2, <1>3, <1>4, OrderlyMove

(* A record is missed: its key, if any, is no longer used in order. *)
LEMMA OrderlyMiss ==
  ASSUME ChargeInv, OrderlyInv, NEW c \in Charges, MissRecord(c), Disturb({KeyOf(c)})
  PROVE  OrderlyInv'
<1>1. /\ stage[c] \in {"lookup", "save", "commit"} /\ UNCHANGED <<cache, request>>
      /\ charges' \in {charges, charges \cup {Row(c, "SUCCEEDED")}}
  BY DEF MissRecord, LookupFails, SaveFails, SettlementUnacknowledged, Settle
<1>2. \A d \in Charges \ {c} : stage'[d] = stage[d] /\ answer'[d] = answer[d]
  BY DEF MissRecord, LookupFails, SaveFails, SettlementUnacknowledged, Respond, Proceed,
     ChargeInv, TypeOK
<1>3. InFlight(c) /\ \A d \in Charges \ {c} : Settled(d)' => Settled(d)
  BY <1>1, OthersSettled DEF InFlight
<1>4. ~Clean(c)'
  BY <1>1, <1>3 DEF Clean, Disturb, Busy, KeyOf
<1>5. disorder \subseteq disorder'
  BY DEF Disturb
<1> QED
  BY <1>1, <1>2, <1>3, <1>4, <1>5, OrderlyMove

(* A request that is sent while its key is in flight disturbs the key. *)
LEMMA OrderlySubmit ==
  ASSUME ChargeInv, OrderlyInv, NEW c \in Charges, NEW in \in ChargeInputs,
         SubmitCharge(c, in), Disturb({<<in.merchant, in.key>>})
  PROVE  OrderlyInv'
<1>1. /\ stage[c] = "idle" /\ answer[c] = NoResponse /\ ~Settled(c)'
      /\ UNCHANGED <<charges, cache, answer>>
  BY DEF SubmitCharge, ChargeInv, RequestsKnown, RowsStand, Settled, Row, Finishing
<1>2. /\ request'[c] = in /\ (in.key # NoKey => stage'[c] = "lookup")
      /\ \A d \in Charges \ {c} : stage'[d] = stage[d] /\ request'[d] = request[d]
  BY DEF SubmitCharge, Proceed, ChargeInv, TypeOK
<1>3. \A d \in Charges \ {c} :
        /\ Clean(d)' => Clean(d)
        /\ (KeyStands(d)' <=> KeyStands(d)) /\ (InFlight(d)' <=> InFlight(d))
        /\ KeyOf(d)' = KeyOf(d)
  BY <1>1, <1>2
  DEF Clean, KeyOf, Disturb, KeyStands, InFlight, Cached, Settled, Row, Fee, Net, Outcome, Valid
<1>4. Clean(c)' => KeyStands(c)'
  BY <1>1, <1>2 DEF Clean, KeyStands
<1>5. ASSUME NEW d \in Charges \ {c}, SameKey(c, d)', InFlight(d)'
      PROVE  ~Clean(c)' /\ ~Clean(d)'
  <2>1. InFlight(d) /\ KeyOf(d) = <<in.merchant, in.key>>
    BY <1>2, <1>3, <1>5 DEF SameKey, KeyOf
  <2>2. CASE in.key = NoKey
    BY <1>2, <1>5, <2>2 DEF SameKey
  <2>3. CASE in.key # NoKey
    <3>1. KeyOf(d) \in Busy
      BY <1>2, <1>5, <2>1, <2>3 DEF Busy, SameKey
    <3>2. <<in.merchant, in.key>> \in disorder'
      BY <2>1, <3>1 DEF Disturb
    <3>3. KeyOf(c)' = <<in.merchant, in.key>> /\ KeyOf(d)' = <<in.merchant, in.key>>
      BY <1>2, <1>3, <2>1 DEF KeyOf
    <3> QED
      BY <3>2, <3>3 DEF Clean
  <2> QED
    BY <2>2, <2>3
<1>6. AloneInFlight'
  <2> SUFFICES ASSUME NEW d \in Charges, NEW e \in Charges, d # e, SameKey(d, e)',
                      Clean(d)', InFlight(d)', InFlight(e)'
               PROVE  FALSE
    BY DEF AloneInFlight
  <2>1. SameKey(e, d)'
    BY DEF SameKey
  <2>2. d # c /\ e # c
    BY <1>5, <2>1
  <2>3. SameKey(d, e) /\ Clean(d) /\ InFlight(d) /\ InFlight(e)
    BY <1>2, <1>3, <2>2 DEF SameKey
  <2> QED
    BY <2>3 DEF OrderlyInv, AloneInFlight
<1> QED
  BY <1>3, <1>4, <1>6 DEF OrderlyInv

(* The requests in flight end with the server, and their keys are disturbed. *)
LEMMA OrderlyCrash ==
  ASSUME ChargeInv, OrderlyInv, EndCharges, Disturb(Busy)
  PROVE  OrderlyInv'
<1>1. \A d \in Charges : stage'[d] \in {"idle", "done"}
  BY DEF EndCharges
<1>2. AloneInFlight'
  BY <1>1 DEF AloneInFlight, InFlight
<1>3. ASSUME NEW d \in Charges, Clean(d)' PROVE KeyStands(d)'
  <2>1. Clean(d) /\ KeyStands(d)
    BY <1>3 DEF EndCharges, Clean, KeyOf, Disturb, OrderlyInv
  <2>2. ~InFlight(d)
    <3>1. SUFFICES ASSUME InFlight(d) PROVE KeyOf(d)' \in disorder'
      BY <1>3 DEF Clean
    <3>2. KeyOf(d) \in Busy /\ KeyOf(d)' = KeyOf(d)
      BY <2>1, <3>1 DEF Busy, Clean, KeyOf, EndCharges
    <3> QED
      BY <3>2 DEF Disturb
  <2>3. stage[d] # "save" /\ answer'[d] = answer[d] /\ Cached(d)' = Cached(d)
    BY <2>2 DEF InFlight, EndCharges, Cached
  <2>4. Settled(d)' => Settled(d)
    BY DEF EndCharges, Settled, Row, Fee, Net
  <2> QED
    BY <1>1, <2>1, <2>3, <2>4 DEF KeyStands, InFlight
<1> QED
  BY <1>2, <1>3 DEF OrderlyInv

LEMMA OrderlyStay ==
  ASSUME OrderlyInv, UNCHANGED <<chargeVars, disorder>>
  PROVE  OrderlyInv'
<1>1. UNCHANGED <<charges, cache, stage, request, answer, disorder>>
  BY DEF chargeVars
<1> QED
  BY <1>1
  DEF OrderlyInv, AloneInFlight, Clean, KeyOf, KeyStands, InFlight, SameKey, Cached, Settled, Row,
      Fee, Net, Outcome, Valid

LEMMA OrderlyStep ==
  (ChargeInv /\ OrderlyInv) /\ [OrderlyNext]_orderlyVars => (ChargeInv /\ OrderlyInv)'
<1> SUFFICES ASSUME ChargeInv, OrderlyInv, [OrderlyNext]_orderlyVars
             PROVE  ChargeInv' /\ OrderlyInv'
  OBVIOUS
<1>1. [Next]_vars
  BY DEF OrderlyNext, orderlyVars, Next, ChargeNext
<1>2. ASSUME NEW c \in Charges, NEW in \in ChargeInputs, SubmitCharge(c, in),
             Disturb({<<in.merchant, in.key>>})
      PROVE  OrderlyInv'
  BY <1>2, OrderlySubmit
<1>3. ASSUME NEW c \in Charges, ChargeStep(c) \/ AbortSettlement(c), UNCHANGED disorder
      PROVE  OrderlyInv'
  BY <1>3, OrderlySettlement, OrderlyRow, OrderlySave, OrderlyReply DEF ChargeStep
<1>4. ASSUME NEW c \in Charges, MissRecord(c), Disturb({KeyOf(c)}) PROVE OrderlyInv'
  BY <1>4, OrderlyMiss
<1>5. ASSUME Crash, Disturb(Busy) PROVE OrderlyInv'
  BY <1>5, OrderlyCrash DEF Crash
<1>6. ASSUME UNCHANGED <<chargeVars, disorder>> PROVE OrderlyInv'
  BY <1>6, OrderlyStay
<1>7. ChargeInv'
  BY <1>1, StepKeeps
<1> QED
  BY <1>2, <1>3, <1>4, <1>5, <1>6, <1>7 DEF OrderlyNext, orderlyVars, Quiet, vars

LEMMA OrderlyWorks == ChargeInv /\ OrderlyInv => OrderlyKeysWork
<1> SUFFICES ASSUME ChargeInv, OrderlyInv PROVE OrderlyKeysWork
  OBVIOUS
<1>1. ASSUME NEW c \in Charges, NEW d \in Charges, SameKey(c, d), KeyOf(c) \notin disorder
      PROVE  /\ Cached(c) = Cached(d) /\ Clean(c) /\ Clean(d) /\ KeyStands(c) /\ KeyStands(d)
  BY <1>1 DEF SameKey, Cached, Clean, KeyOf, OrderlyInv
<1>2. ASSUME NEW r \in charges, NEW s \in charges, r.status = "SUCCEEDED",
             s.status = "SUCCEEDED", SameKey(r.id, s.id), KeyOf(r.id) \notin disorder
      PROVE  r = s
  <2> DEFINE c == r.id
             d == s.id
  <2>1. c \in Charges /\ d \in Charges
    BY DEF ChargeInv, TypeOK
  <2>2. r = Row(c, "SUCCEEDED") /\ s = Row(d, "SUCCEEDED")
    BY <1>2 DEF ChargeInv, RowsStand, Row
  <2>3. Settled(c) /\ Settled(d)
    BY <2>2 DEF Settled
  <2> HIDE DEF c, d
  <2>4. /\ Cached(c) = Cached(d) /\ Clean(c) /\ Clean(d) /\ KeyStands(c) /\ KeyStands(d)
        /\ SameKey(c, d)
    BY <1>1, <1>2, <2>1 DEF c, d
  <2>5. CASE Cached(c) = NoResponse
    <3>1. stage[c] = "save" /\ stage[d] = "save"
      BY <2>3, <2>4, <2>5 DEF KeyStands, Succeeded, NoResponse
    <3>2. c = d
      BY <2>1, <2>4, <3>1 DEF OrderlyInv, AloneInFlight, InFlight
    <3> QED
      BY <2>2, <3>2
  <2>6. CASE Cached(c) # NoResponse
    <3>1. Cached(c) = Succeeded(c) /\ Cached(c) = Succeeded(d)
      BY <2>3, <2>4, <2>6 DEF KeyStands, InFlight
    <3>2. c = d
      BY <3>1 DEF Succeeded
    <3> QED
      BY <2>2, <3>2
  <2> QED
    BY <2>5, <2>6
<1>3. ASSUME NEW c \in Charges, NEW d \in Charges, SameKey(c, d), KeyOf(c) \notin disorder,
             {answer[c], answer[d]} \cap {NoResponse, Failed} = {}
      PROVE  answer[c] = answer[d]
  <2>1. answer[c] = Cached(c) /\ answer[d] = Cached(d)
    BY <1>1, <1>3 DEF KeyStands
  <2> QED
    BY <1>1, <1>3, <2>1
<1> QED
  BY <1>2, <1>3 DEF OrderlyKeysWork

(* A key of a merchant that is sent again only after its answer, with its record
   found and stored, is billed once and answered alike, whatever settlements fail
   and whatever happens to the other keys. *)
THEOREM OrderlyKeysAreKept == OrderlySpec => []OrderlyKeysWork
<1>1. OrderlyInit => ChargeInv /\ OrderlyInv
  BY InitInv, InitOrderly DEF OrderlyInit
<1> QED
  BY <1>1, OrderlyStep, OrderlyWorks, PTL DEF OrderlySpec

-----------------------------------------------------------------------------
(* The numbers of virtual cards. *)

Long == 1 .. 16

(* What the i-th of sixteen digits adds to the sum. *)
Weight(i, d) == IF i % 2 = 1 THEN Doubled(d) ELSE d
Weights(n) == [i \in DOMAIN n |-> Weight(i, n[i])]
Total(n) == SumFunctionOnSet(Weights(n), DOMAIN n)

LEMMA WeightType == \A i \in Nat, d \in Digits : Weight(i, d) \in Digits
BY DEF Weight, Doubled, Digits

(* A number of digits only: each has the others of the number after it. *)
LEMMA AllDigits ==
  ASSUME NEW k \in Nat, NEW n \in [1 .. k -> Digits]
  PROVE  /\ Places(n) = 1 .. k /\ Cardinality(Places(n)) = k
         /\ \A i \in 1 .. k : After(n, i) = k - i
<1>1. Places(n) = 1 .. k
  BY DEF Places
<1>2. Cardinality(1 .. k) = k
  BY FS_Interval
<1>3. ASSUME NEW i \in 1 .. k PROVE After(n, i) = k - i
  <2>1. {j \in Places(n) : j > i} = (i + 1) .. k
    BY <1>1
  <2>2. Cardinality((i + 1) .. k) = k - i
    BY FS_Interval
  <2> QED
    BY <2>1, <2>2 DEF After
<1> QED
  BY <1>1, <1>2, <1>3

LEMMA TotalType ==
  ASSUME NEW k \in Nat, NEW n \in [1 .. k -> Digits]
  PROVE  /\ IsFiniteSet(1 .. k) /\ Total(n) \in Int
         /\ \A i \in 1 .. k : Weights(n)[i] \in Digits /\ Weights(n)[i] = Weight(i, n[i])
<1>1. IsFiniteSet(1 .. k)
  BY FS_Interval
<1>2. \A i \in 1 .. k : Weights(n)[i] \in Digits /\ Weights(n)[i] = Weight(i, n[i])
  BY WeightType DEF Weights
<1>3. \A i \in 1 .. k : Weights(n)[i] \in Int
  BY <1>2 DEF Digits
<1>4. SumFunctionOnSet(Weights(n), 1 .. k) \in Int
  BY <1>1, <1>3, SumType
<1> QED
  BY <1>1, <1>2, <1>4 DEF Total

(* Both sums double the digits in the odd places. *)
LEMMA SumsAgree ==
  /\ \A n \in [1 .. 15 -> Digits] : LuhnSum(n, 0) = Total(n)
  /\ \A n \in [Long -> Digits] : LuhnSum(n, 1) = Total(n)
<1>1. ASSUME NEW k \in Nat, NEW n \in [1 .. k -> Digits], NEW first \in {0, 1},
             \A i \in 1 .. k : (k - i) % 2 = first <=> i % 2 = 1
      PROVE  LuhnSum(n, first) = Total(n)
  <2>1. [i \in Places(n) |-> IF After(n, i) % 2 = first THEN Doubled(n[i]) ELSE n[i]] = Weights(n)
    BY <1>1, AllDigits DEF Weights, Weight
  <2>2. DOMAIN Weights(n) = DOMAIN n
    BY DEF Weights
  <2> QED
    BY <2>1, <2>2 DEF LuhnSum, SumFunction, Total
<1>2. \A i \in 1 .. 15 : (15 - i) % 2 = 0 <=> i % 2 = 1
  OBVIOUS
<1>3. \A i \in 1 .. 16 : (16 - i) % 2 = 1 <=> i % 2 = 1
  OBVIOUS
<1> QED
  BY <1>1, <1>2, <1>3 DEF Long

LEMMA ValidMeansTen ==
  ASSUME NEW n \in [Long -> Digits]
  PROVE  ValidLuhn(n) <=> Total(n) % 10 = 0
<1>1. Cardinality(Places(n)) = 16
  BY AllDigits DEF Long
<1> QED
  BY <1>1, SumsAgree DEF ValidLuhn, Lengths

LEMMA OneDigitChanged ==
  ASSUME NEW n \in [Long -> Digits], NEW i \in Long, NEW d \in Digits
  PROVE  Total([n EXCEPT ![i] = d]) = Total(n) + Weight(i, d) - Weight(i, n[i])
<1> DEFINE m == [n EXCEPT ![i] = d]
<1>1. m \in [Long -> Digits] /\ m[i] = d /\ \A j \in Long \ {i} : m[j] = n[j]
  OBVIOUS
<1> HIDE DEF m
<1>2. /\ IsFiniteSet(Long)
      /\ \A j \in Long : Weights(n)[j] \in Digits /\ Weights(n)[j] = Weight(j, n[j])
      /\ \A j \in Long : Weights(m)[j] \in Digits /\ Weights(m)[j] = Weight(j, m[j])
  BY <1>1, TotalType DEF Long
<1>3. /\ \A j \in Long : Weights(n)[j] \in Int
      /\ Weights(m)[i] \in Int
      /\ \A j \in Long \ {i} : Weights(m)[j] = Weights(n)[j]
  BY <1>1, <1>2 DEF Digits
<1>4. SumFunctionOnSet(Weights(m), Long)
        = SumFunctionOnSet(Weights(n), Long) + Weights(m)[i] - Weights(n)[i]
  BY <1>2, <1>3, SumChanges
<1>5. Total(m) = Total(n) + Weight(i, d) - Weight(i, n[i])
  BY <1>1, <1>2, <1>4 DEF Total
<1> QED
  BY <1>5 DEF m

(* No two digits weigh the same in one place; in two places that are next to
   each other only 0 and 9, and equal digits, can be swapped. *)
LEMMA WeightsDiffer ==
  \A i \in Nat, d, e \in Digits : d # e => Weight(i, d) # Weight(i, e)
BY DEF Weight, Doubled, Digits

LEMMA SwapsDiffer ==
  ASSUME NEW i \in Nat, NEW d \in Digits, NEW e \in Digits
  PROVE  LET diff == Weight(i, e) + Weight(i + 1, d) - Weight(i, d) - Weight(i + 1, e)
         IN  /\ diff \in -9 .. 9
             /\ diff = 0 <=> (d = e \/ {d, e} = {0, 9})
<1>1. (d = 0 /\ e = 9) \/ (d = 9 /\ e = 0) <=> {d, e} = {0, 9}
  BY DEF Digits
<1>2. \/ \A x \in Digits : Weight(i, x) = Doubled(x) /\ Weight(i + 1, x) = x
      \/ \A x \in Digits : Weight(i, x) = x /\ Weight(i + 1, x) = Doubled(x)
  BY DEF Weight
<1> QED
  BY <1>1, <1>2 DEF Doubled, Digits

LEMMA Remainders ==
  ASSUME NEW t \in Int, NEW diff \in -9 .. 9, t % 10 = 0
  PROVE  (t + diff) % 10 = 0 <=> diff = 0
OBVIOUS

LEMMA WrongDigitFound ==
  ASSUME NEW n \in [Long -> Digits], ValidLuhn(n), NEW i \in Long, NEW d \in Digits, d # n[i]
  PROVE  ~ValidLuhn([n EXCEPT ![i] = d])
<1> DEFINE m == [n EXCEPT ![i] = d]
           diff == Weight(i, d) - Weight(i, n[i])
<1>1. n[i] \in Digits /\ i \in Nat /\ m \in [Long -> Digits]
  BY DEF Long
<1>2. Weight(i, d) \in Digits /\ Weight(i, n[i]) \in Digits /\ Weight(i, d) # Weight(i, n[i])
  BY <1>1, WeightType, WeightsDiffer
<1>3. diff \in -9 .. 9 /\ diff # 0
  BY <1>2 DEF Digits
<1>4. Total(n) \in Int /\ Total(n) % 10 = 0
  BY TotalType, ValidMeansTen DEF Long
<1>5. Total(m) = Total(n) + diff
  BY <1>2, <1>4, OneDigitChanged DEF Digits
<1> HIDE DEF m, diff
<1>6. Total(m) % 10 # 0
  BY <1>3, <1>4, <1>5, Remainders
<1>7. ~ValidLuhn(m)
  BY <1>1, <1>6, ValidMeansTen
<1> QED
  BY <1>7 DEF m

LEMMA SwapFound ==
  ASSUME NEW n \in [Long -> Digits], ValidLuhn(n), NEW i \in 1 .. 15
  PROVE  ValidLuhn([[n EXCEPT ![i] = n[i + 1]] EXCEPT ![i + 1] = n[i]])
           <=> n[i] = n[i + 1] \/ {n[i], n[i + 1]} = {0, 9}
<1> DEFINE d == n[i]
           e == n[i + 1]
           m == [n EXCEPT ![i] = e]
           swapped == [m EXCEPT ![i + 1] = d]
           diff == Weight(i, e) + Weight(i + 1, d) - Weight(i, d) - Weight(i + 1, e)
<1>1. i \in Long /\ i + 1 \in Long /\ i \in Nat /\ i + 1 \in Nat /\ i # i + 1
  BY DEF Long
<1>2. d \in Digits /\ e \in Digits
  BY <1>1
<1>3. m \in [Long -> Digits] /\ m[i + 1] = e /\ swapped \in [Long -> Digits]
  BY <1>1, <1>2
<1>4. diff \in -9 .. 9 /\ (diff = 0 <=> (d = e \/ {d, e} = {0, 9}))
  BY <1>1, <1>2, SwapsDiffer
<1>5. Total(m) = Total(n) + Weight(i, e) - Weight(i, d)
  BY <1>1, <1>2, OneDigitChanged
<1>6. Total(swapped) = Total(m) + Weight(i + 1, d) - Weight(i + 1, e)
  <2> HIDE DEF m, d, e
  <2>1. Total([m EXCEPT ![i + 1] = d]) = Total(m) + Weight(i + 1, d) - Weight(i + 1, m[i + 1])
    BY <1>1, <1>2, <1>3, OneDigitChanged
  <2> QED
    BY <1>3, <2>1
<1>7. Total(n) \in Int /\ Total(n) % 10 = 0
  BY TotalType, ValidMeansTen DEF Long
<1>8. /\ Weight(i, d) \in Int /\ Weight(i, e) \in Int
      /\ Weight(i + 1, d) \in Int /\ Weight(i + 1, e) \in Int
  BY <1>1, <1>2, WeightType DEF Digits
<1>9. Total(swapped) = Total(n) + diff
  <2> HIDE DEF m, swapped, d, e
  <2> QED
    BY <1>5, <1>6, <1>7, <1>8
<1>10. ValidLuhn(swapped) <=> Total(swapped) % 10 = 0
  BY <1>3, ValidMeansTen
<1>11. ValidLuhn(swapped) <=> (d = e \/ {d, e} = {0, 9})
  <2> HIDE DEF m, swapped, d, e, diff
  <2> QED
    BY <1>4, <1>7, <1>9, <1>10, Remainders
<1> QED
  BY <1>11

LEMMA AsSequence ==
  ASSUME NEW k \in Nat, NEW n \in [1 .. k -> Digits]
  PROVE  n \in Seq(Digits) /\ Len(n) = k
OBVIOUS

LEMMA Extended ==
  ASSUME NEW s \in Seq(Digits), NEW d \in Digits
  PROVE  /\ Append(s, d) \in Seq(Digits) /\ Len(Append(s, d)) = Len(s) + 1
         /\ Append(s, d)[Len(s) + 1] = d
         /\ \A i \in 1 .. Len(s) : Append(s, d)[i] = s[i]
OBVIOUS

LEMMA NumberIsValid ==
  ASSUME NEW drawn \in [1 .. 9 -> Digits]
  PROVE  CardNumber(drawn) \in [Long -> Digits] /\ ValidLuhn(CardNumber(drawn))
<1> DEFINE p == <<4, 1, 1, 1, 1, 1>> \o drawn
           c == LuhnCheckDigit(p)
           n == Append(p, c)
<1>1. p \in [1 .. 15 -> Digits] /\ p \in Seq(Digits) /\ Len(p) = 15
  <2> DEFINE head == <<4, 1, 1, 1, 1, 1>>
  <2>1. drawn \in Seq(Digits) /\ Len(drawn) = 9
    BY AsSequence
  <2>2. head \in Seq(Digits) /\ Len(head) = 6
    BY DEF Digits
  <2>3. p = head \o drawn
    OBVIOUS
  <2> HIDE DEF head, p
  <2>4. p \in Seq(Digits) /\ Len(p) = 15
    <3>1. head \o drawn \in Seq(Digits) /\ Len(head \o drawn) = Len(head) + Len(drawn)
      BY <2>1, <2>2, ConcatProperties
    <3> QED
      BY <2>1, <2>2, <2>3, <3>1
  <2>5. p \in [1 .. Len(p) -> Digits]
    BY <2>4, LenProperties
  <2> QED
    BY <2>4, <2>5
<1>2. Total(p) \in Int /\ LuhnSum(p, 0) = Total(p)
  BY <1>1, TotalType, SumsAgree
<1>3. c \in Digits /\ (Total(p) + c) % 10 = 0
  <2>1. c = (10 - (Total(p) % 10)) % 10
    BY <1>2 DEF LuhnCheckDigit
  <2> HIDE DEF c, p
  <2> QED
    BY <1>2, <2>1 DEF Digits
<1> HIDE DEF p, c
<1>4. n \in [Long -> Digits] /\ n[16] = c /\ \A i \in 1 .. 15 : n[i] = p[i]
  <2>1. /\ n \in Seq(Digits) /\ Len(n) = 16 /\ n[16] = c
        /\ \A i \in 1 .. 15 : n[i] = p[i]
    <3>1. /\ n \in Seq(Digits) /\ Len(n) = Len(p) + 1 /\ n[Len(p) + 1] = c
          /\ \A i \in 1 .. Len(p) : n[i] = p[i]
      BY ZenonT(40), <1>1, <1>3, Extended
    <3>2. Len(p) = 15 /\ Len(p) + 1 = 16
      BY <1>1
    <3> HIDE DEF n
    <3> QED
      BY <3>1, <3>2
  <2> HIDE DEF n
  <2>2. n \in [1 .. Len(n) -> Digits]
    BY <2>1, LenProperties
  <2> QED
    BY <2>1, <2>2 DEF Long
<1> HIDE DEF n
<1>5. Total(n) = Total(p) + c
  <2>1. /\ IsFiniteSet(1 .. 15)
        /\ \A i \in 1 .. 15 : Weights(p)[i] \in Digits /\ Weights(p)[i] = Weight(i, p[i])
    BY <1>1, TotalType
  <2>2. \A i \in Long : Weights(n)[i] = Weight(i, n[i])
    BY <1>4, TotalType DEF Long
  <2>3. \A i \in 1 .. 15 : Weights(p)[i] \in Int /\ Weights(n)[i] = Weights(p)[i]
    BY <1>4, <2>1, <2>2 DEF Digits, Long
  <2>4. Weights(n)[16] = c
    BY <1>4, <2>2 DEF Weight, Long
  <2>5. SumFunctionOnSet(Weights(n), (1 .. 15) \cup {16})
          = SumFunctionOnSet(Weights(p), 1 .. 15) + Weights(n)[16]
    <3>1. 16 \notin 1 .. 15 /\ Weights(n)[16] \in Int
      BY <1>3, <2>4 DEF Digits
    <3> DEFINE S == 1 .. 15
               f == Weights(p)
               g == Weights(n)
    <3>2. IsFiniteSet(S) /\ \A x \in S : f[x] \in Int /\ g[x] = f[x]
      BY <2>1, <2>3
    <3>3. 16 \notin S /\ g[16] \in Int
      BY <3>1
    <3> HIDE DEF S, f, g
    <3>4. SumFunctionOnSet(g, S \cup {16}) = SumFunctionOnSet(f, S) + g[16]
      BY <3>2, <3>3, SumGrows
    <3> QED
      BY <3>4 DEF S, f, g
  <2>6. DOMAIN n = (1 .. 15) \cup {16} /\ DOMAIN p = 1 .. 15
    BY <1>1, <1>4 DEF Long
  <2> QED
    BY <2>4, <2>5, <2>6 DEF Total
<1>6. ValidLuhn(n)
  BY <1>3, <1>4, <1>5, ValidMeansTen
<1>7. CardNumber(drawn) = n
  BY DEF CardNumber, n, c, p
<1> QED
  BY <1>4, <1>6, <1>7

LEMMA NumberIsSound ==
  ASSUME NEW drawn \in [1 .. 9 -> Digits]
  PROVE  CheckDigitDetects(CardNumber(drawn)) /\ OwnCardAccepted(CardNumber(drawn))
<1> DEFINE n == CardNumber(drawn)
<1>1. n \in [Long -> Digits] /\ ValidLuhn(n)
  BY NumberIsValid
<1> HIDE DEF n
<1>2. DOMAIN n = Long /\ Len(n) = 16
  BY <1>1 DEF Long
<1>3. CheckDigitDetects(n)
  <2>1. \A i \in DOMAIN n : \A d \in Digits \ {n[i]} : ~ValidLuhn([n EXCEPT ![i] = d])
    BY <1>1, <1>2, WrongDigitFound
  <2>2. \A i \in 1 .. Len(n) - 1 :
          ValidLuhn([[n EXCEPT ![i] = n[i + 1]] EXCEPT ![i + 1] = n[i]])
            <=> n[i] = n[i + 1] \/ {n[i], n[i + 1]} = {0, 9}
    <3>1. Len(n) - 1 = 15
      BY <1>2
    <3> QED
      BY <1>1, <3>1, SwapFound
  <2> QED
    BY <1>1, <2>1, <2>2 DEF CheckDigitDetects
<1>4. OwnCardAccepted(n)
  <2> DEFINE own == [number |-> n, month |-> Today.month, year |-> Today.year, cvv |-> 3]
  <2>1. own.number = n /\ own.month = Today.month /\ own.year = Today.year /\ own.cvv = 3
    OBVIOUS
  <2> HIDE DEF own
  <2>2. Today.month \in 1 .. 12 /\ Today.year \in Nat
    BY TodayAssumption
  <2>3. ~Expired(own)
    <3>1. CASE Today.year < 100
      <4> DEFINE century == 2000
      <4>1. century \in Nat /\ century > 100
        OBVIOUS
      <4>2. Expired(own) <=> \/ Today.year + century < Today.year
                             \/ /\ Today.year + century = Today.year
                                /\ Today.month < Today.month
        BY <2>1, <3>1 DEF Expired
      <4> HIDE DEF century
      <4> QED
        BY <2>2, <4>1, <4>2
    <3>2. CASE ~(Today.year < 100)
      <4>1. ~(Today.year < Today.year) /\ ~(Today.month < Today.month)
        BY <2>2
      <4> QED
        BY <2>1, <3>2, <4>1 DEF Expired
    <3> QED
      BY <3>1, <3>2
  <2>4. Accepted(own) <=> ~RefusedEnding(n)
    BY <1>1, <1>2, <2>1, <2>2, <2>3 DEF Accepted, Lengths
  <2> QED
    BY <2>4 DEF OwnCardAccepted, own
<1> QED
  BY <1>3, <1>4 DEF n

(* The number of a virtual card, whatever digits are drawn, passes the Luhn check; no
   number with one wrong digit does, and one with two neighbours swapped does only if
   they are 0 and 9.  The gateway accepts it unless it ends like a refused test card. *)
THEOREM CardNumbersAreSound == NumberSpec => []CardNumbersSound
<1>1. NumberInit => CardNumbersSound
  BY DEF NumberInit, CardNumbersSound
<1>2. CardNumbersSound /\ [GiveNumber]_number => CardNumbersSound'
  <2> SUFFICES ASSUME CardNumbersSound, [GiveNumber]_number PROVE CardNumbersSound'
    OBVIOUS
  <2>1. CASE GiveNumber
    <3>1. PICK drawn \in [1 .. 9 -> Digits] : number' = CardNumber(drawn)
      BY <2>1, DrawnAssumption DEF GiveNumber
    <3> QED
      BY <3>1, NumberIsSound DEF CardNumbersSound
  <2>2. CASE UNCHANGED number
    BY <2>2 DEF CardNumbersSound
  <2> QED
    BY <2>1, <2>2
<1> QED
  BY <1>1, <1>2, PTL DEF NumberSpec
====
