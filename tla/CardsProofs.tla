----------------------------- MODULE CardsProofs -----------------------------
(***************************************************************************)
(* Proofs about Cards, for any number of wallets, cards, payments and      *)
(* restarts, any limits and any amounts.                                   *)
(***************************************************************************)
EXTENDS Cards, Sums, FiniteSetTheorems, TLAPS

(* A card exists from its insertion; its user, wallet and limit are fixed by
   then, and nothing is spent before. *)
CardsKnown ==
  \A c \in Cards :
    /\ making[c] # "done" => status[c] = "absent"
    /\ making[c] = "insert" \/ status[c] # "absent" => card[c] \in CardInputs
    /\ status[c] = "absent" => spent[c] = 0
    /\ spent[c] <= card[c].limit

OnCard == {"lock_user", "lock_wallet", "commit"}

(* A payment at a given step holds its card and its wallet, and what it has
   checked of them is still so. *)
LocksHeld ==
  \A p \in Payments :
    /\ pc[p] \in TxSteps => body[p] \in PayInputs
    /\ pc[p] \in OnCard => rowLock[body[p].card] = p /\ status[body[p].card] # "absent"
    /\ pc[p] \in {"lock_wallet", "commit"} => CardPays(p)
    /\ pc[p] = "commit" =>
         rowLock[Wallet(p)] = p /\ balance[Wallet(p)] >= body[p].amount

(* What is recorded is about a card that exists. *)
RecordsStand ==
  \A p \in Payments :
    /\ reply[p] = "approved" => pc[p] = "done"
    /\ pc[p] = "reply" \/ reply[p] = "approved" =>
         /\ body[p].card \in Cards /\ status[body[p].card] # "absent"
         /\ Row(p) \in transactions

(* A card counted for another one of its wallet was closed then, and can be
   open now only if it was activated again. *)
SeenClosed ==
  \A c \in Cards : \A d \in seen[c] :
    /\ status[d] # "absent"
    /\ card[d].wallet = card[c].wallet => status[d] = "CLOSED" \/ d \in reopened

CardsInv == TypeOK /\ CardsKnown /\ LocksHeld /\ RecordsStand /\ SeenClosed

LEMMA InitInv == Init => CardsInv
<1> SUFFICES ASSUME Init PROVE CardsInv
  OBVIOUS
<1> USE CardsAssumption DEF Init
<1>1. TypeOK
  BY DEF TypeOK
<1>2. CardsKnown /\ LocksHeld /\ RecordsStand /\ SeenClosed
  BY DEF CardsKnown, LocksHeld, RecordsStand, SeenClosed, TxSteps, OnCard, NoCard
<1> QED
  BY <1>1, <1>2 DEF CardsInv

(* What is known of a payment that is on its way. *)
LEMMA Known ==
  ASSUME CardsInv, NEW p \in Payments, pc[p] \in TxSteps
  PROVE  /\ body[p] \in PayInputs /\ body[p].card \in Cards /\ body[p].card \in Rows
         /\ body[p].amount \in Nat \ {0}
         /\ pc[p] \in OnCard => /\ card[body[p].card] \in CardInputs
                                /\ card[body[p].card].user \in Rows
                                /\ Wallet(p) \in Wallets /\ Wallet(p) \in Rows
<1>1. /\ body[p] \in PayInputs /\ body[p].card \in Cards /\ body[p].amount \in Nat \ {0}
  BY CardsAssumption DEF CardsInv, LocksHeld
<1>2. pc[p] \in OnCard => card[body[p].card] \in CardInputs
  BY <1>1 DEF CardsInv, LocksHeld, CardsKnown
<1> QED
  BY <1>1, <1>2, CardsAssumption DEF Wallet, Rows

-----------------------------------------------------------------------------
LEMMA CountKeeps ==
  ASSUME CardsInv, NEW c \in Cards, NEW in \in CardInputs, CountCards(c, in)
  PROVE  CardsInv'
<1> USE DEF CardsInv
<1>1. /\ making[c] = "count" /\ status[c] = "absent" /\ spent[c] = 0
      /\ UNCHANGED <<balance, status, spent, transactions, rowLock, pc, body, reply,
                     crashes, reopened>>
  BY DEF CountCards, CardsKnown
<1>2. \A p \in Payments : body[p].card # c \/ (pc[p] \notin OnCard \cup {"reply"}
                                              /\ reply[p] # "approved")
  BY <1>1 DEF LocksHeld, RecordsStand
<1>3. CASE UNCHANGED <<card, seen>> /\ making' = [making EXCEPT ![c] = "done"]
  <2>1. TypeOK'
    BY <1>1, <1>3 DEF TypeOK
  <2>2. CardsKnown'
    BY <1>1, <1>3 DEF CardsKnown, TypeOK
  <2>3. LocksHeld' /\ RecordsStand' /\ SeenClosed'
    BY <1>1, <1>3 DEF LocksHeld, RecordsStand, SeenClosed, CardPays, Wallet, Row
  <2> QED
    BY <2>1, <2>2, <2>3
<1>4. CASE /\ CountOpen(in.wallet) = 0
           /\ making' = [making EXCEPT ![c] = "insert"]
           /\ card' = [card EXCEPT ![c] = in]
           /\ seen' = [seen EXCEPT ![c] = {d \in Cards : status[d] # "absent"}]
  <2>1. TypeOK'
    BY <1>1, <1>4 DEF TypeOK
  <2>2. in.limit \in Nat \ {0}
    BY CardsAssumption
  <2>3. CardsKnown'
    BY <1>1, <1>4, <2>2 DEF CardsKnown, TypeOK
  <2>4. \A d \in Cards : d # c => card'[d] = card[d]
    BY <1>4 DEF TypeOK
  <2>5. LocksHeld'
    <3> SUFFICES ASSUME NEW p \in Payments
                 PROVE  /\ pc[p] \in TxSteps => body[p] \in PayInputs
                        /\ pc[p] \in OnCard =>
                             rowLock[body[p].card] = p /\ status[body[p].card] # "absent"
                        /\ pc[p] \in {"lock_wallet", "commit"} => CardPays(p)'
                        /\ pc[p] = "commit" =>
                             rowLock[Wallet(p)'] = p /\ balance[Wallet(p)'] >= body[p].amount
      BY <1>1 DEF LocksHeld, Wallet
    <3>1. CASE pc[p] \in OnCard
      <4>1. body[p].card \in Cards /\ body[p].card # c
        BY <1>2, <3>1, Known DEF OnCard, TxSteps
      <4> QED
        BY <1>1, <2>4, <3>1, <4>1 DEF LocksHeld, CardPays, Wallet
    <3>2. CASE pc[p] \notin OnCard
      BY <3>2 DEF LocksHeld, OnCard
    <3> QED
      BY <3>1, <3>2
  <2>6. RecordsStand'
    BY <1>1, <1>2, <2>4 DEF RecordsStand, Row, Wallet
  <2>7. SeenClosed'
    <3>1. {d \in Open : card[d].wallet = in.wallet} = {}
      <4> DEFINE there == {d \in Open : card[d].wallet = in.wallet}
      <4>1. IsFiniteSet(there)
        BY CardsAssumption, FS_Subset DEF Open
      <4> QED
        BY <1>4, <4>1, FS_EmptySet DEF CountOpen
    <3>2. c \notin seen[c] /\ \A d \in Cards : c \notin seen[d]
      BY <1>1 DEF SeenClosed
    <3>3. \A d \in Cards : status[d] # "absent" /\ card[d].wallet = in.wallet
                             => status[d] = "CLOSED"
      BY <3>1 DEF Open, TypeOK
    <3>4. \A d \in Cards : seen'[d] = IF d = c THEN {e \in Cards : status[e] # "absent"}
                                      ELSE seen[d]
      BY <1>4 DEF TypeOK
    <3>5. card'[c] = in /\ \A d \in Cards : seen[d] \subseteq Cards
      BY <1>4 DEF TypeOK
    <3> SUFFICES ASSUME NEW e \in Cards, NEW d \in seen'[e]
                 PROVE  /\ status[d] # "absent"
                        /\ card'[d].wallet = card'[e].wallet
                             => status[d] = "CLOSED" \/ d \in reopened
      BY <1>1 DEF SeenClosed
    <3>6. CASE e = c
      BY <1>1, <2>4, <3>3, <3>4, <3>5, <3>6
    <3>7. CASE e # c
      <4>1. d \in seen[e] /\ d \in Cards /\ d # c
        BY <3>2, <3>4, <3>5, <3>7
      <4>2. card'[d] = card[d] /\ card'[e] = card[e]
        BY <2>4, <3>7, <4>1
      <4> QED
        BY <4>1, <4>2 DEF SeenClosed
    <3> QED
      BY <3>6, <3>7
  <2> QED
    BY <2>1, <2>3, <2>5, <2>6, <2>7
<1> QED
  BY <1>3, <1>4 DEF CountCards

LEMMA InsertKeeps ==
  ASSUME CardsInv, NEW c \in Cards, InsertCard(c)
  PROVE  CardsInv'
<1> USE DEF CardsInv
<1>1. /\ making[c] = "insert" /\ status[c] = "absent"
      /\ status' = [status EXCEPT ![c] = "ACTIVE"]
      /\ making' = [making EXCEPT ![c] = "done"]
      /\ UNCHANGED <<balance, card, spent, transactions, rowLock, pc, body, reply,
                     crashes, history>>
  BY DEF InsertCard, CardsKnown
<1>2. TypeOK'
  BY <1>1 DEF TypeOK, history
<1>3. \A d \in Cards : status'[d] = status[d] \/ (d = c /\ status'[d] = "ACTIVE")
  BY <1>1 DEF TypeOK
<1>4. CardsKnown'
  BY <1>1 DEF CardsKnown, TypeOK
<1>5. LocksHeld'
  <2> SUFFICES ASSUME NEW p \in Payments, pc[p] \in OnCard
               PROVE  status'[body[p].card] = status[body[p].card]
    BY <1>1 DEF LocksHeld, CardPays, Wallet, OnCard
  <2> QED
    BY <1>1, <1>3, Known DEF LocksHeld, OnCard, TxSteps
<1>6. RecordsStand'
  BY <1>1, <1>3 DEF RecordsStand, Row, Wallet
<1>7. SeenClosed'
  BY <1>1, <1>3 DEF SeenClosed, history, TypeOK
<1> QED
  BY <1>2, <1>4, <1>5, <1>6, <1>7

LEMMA UpdateKeeps ==
  ASSUME CardsInv, NEW c \in Cards, NEW to \in {"ACTIVE", "FROZEN", "CLOSED"},
         UpdateStatus(c, to)
  PROVE  CardsInv'
<1> USE DEF CardsInv
<1>1. /\ status[c] # "absent" /\ rowLock[c] = NoOne
      /\ status' = [status EXCEPT ![c] = to]
      /\ UNCHANGED <<balance, card, spent, transactions, rowLock, making, pc, body,
                     reply, crashes, seen>>
  BY DEF UpdateStatus
<1>2. /\ reopened' \in SUBSET Cards /\ reopened \subseteq reopened'
      /\ status[c] = "CLOSED" /\ to # "CLOSED" => c \in reopened'
  BY DEF UpdateStatus, TypeOK
<1>3. TypeOK'
  BY <1>1, <1>2 DEF TypeOK
<1>4. \A d \in Cards : d # c => status'[d] = status[d]
  BY <1>1 DEF TypeOK
<1>5. CardsKnown'
  BY <1>1, <1>4 DEF CardsKnown, TypeOK
<1>6. LocksHeld'
  <2> SUFFICES ASSUME NEW p \in Payments, pc[p] \in OnCard
               PROVE  status'[body[p].card] = status[body[p].card]
    BY <1>1 DEF LocksHeld, CardPays, Wallet, OnCard
  <2> QED
    BY <1>1, <1>4, Known, CardsAssumption DEF LocksHeld, OnCard, TxSteps
<1>7. RecordsStand'
  BY <1>1, <1>4 DEF RecordsStand, Row, Wallet, TypeOK
<1>8. SeenClosed'
  BY <1>1, <1>2, <1>4 DEF SeenClosed, TypeOK
<1> QED
  BY <1>3, <1>5, <1>6, <1>7, <1>8

LEMMA InsertFailsKeeps ==
  ASSUME CardsInv, NEW c \in Cards, InsertFails(c)
  PROVE  CardsInv'
<1>1. /\ making' = [making EXCEPT ![c] = "done"]
      /\ UNCHANGED <<tables, rowLock, pc, body, reply, crashes, history>>
  BY DEF InsertFails
<1>2. TypeOK'
  BY <1>1 DEF CardsInv, TypeOK, tables, history
<1>3. CardsKnown'
  BY <1>1 DEF CardsInv, CardsKnown, tables, TypeOK
<1>4. LocksHeld' /\ RecordsStand' /\ SeenClosed'
  BY <1>1 DEF CardsInv, LocksHeld, RecordsStand, SeenClosed, tables, history, CardPays,
              Wallet, Row
<1> QED
  BY <1>2, <1>3, <1>4 DEF CardsInv

-----------------------------------------------------------------------------
LEMMA SubmitKeeps ==
  ASSUME CardsInv, NEW p \in Payments, NEW in \in PayInputs, Submit(p, in)
  PROVE  CardsInv'
<1> USE DEF CardsInv
<1>1. /\ pc[p] = "idle" /\ body' = [body EXCEPT ![p] = in]
      /\ pc' = [pc EXCEPT ![p] = "lock_card"]
      /\ UNCHANGED <<tables, rowLock, making, reply, crashes, history>>
  BY DEF Submit, Goto
<1>2. TypeOK'
  BY <1>1 DEF TypeOK, tables, history, TxSteps
<1>3. CardsKnown' /\ SeenClosed'
  BY <1>1 DEF CardsKnown, SeenClosed, tables, history
<1>4. LocksHeld'
  BY <1>1 DEF LocksHeld, TypeOK, tables, CardPays, Wallet, OnCard, TxSteps
<1>5. RecordsStand'
  BY <1>1 DEF RecordsStand, TypeOK, tables, Row, Wallet
<1> QED
  BY <1>2, <1>3, <1>4, <1>5

(* A payment that gives up frees its locks and nobody else's. *)
LEMMA RollbackKeeps ==
  ASSUME CardsInv, NEW p \in Payments, pc[p] \in TxSteps, Rollback(p)
  PROVE  CardsInv'
<1> USE DEF CardsInv
<1>1. /\ rowLock' = [n \in Rows |-> IF rowLock[n] = p THEN NoOne ELSE rowLock[n]]
      /\ pc' = [pc EXCEPT ![p] = "done"] /\ reply' = [reply EXCEPT ![p] = "error"]
      /\ UNCHANGED <<tables, making, body, crashes, history>>
  BY DEF Rollback, Release, Answer, Goto
<1>2. TypeOK'
  BY <1>1 DEF TypeOK, tables, history
<1>3. CardsKnown' /\ SeenClosed'
  BY <1>1 DEF CardsKnown, SeenClosed, tables, history
<1>4. LocksHeld'
  <2> SUFFICES ASSUME NEW q \in Payments, q # p, pc[q] \in OnCard
               PROVE  /\ rowLock[body[q].card] = q => rowLock'[body[q].card] = q
                      /\ pc[q] = "commit" /\ rowLock[Wallet(q)] = q => rowLock'[Wallet(q)] = q
    BY <1>1 DEF TypeOK, LocksHeld, CardPays, Wallet, tables, OnCard, TxSteps
  <2> QED
    BY <1>1, Known DEF OnCard, TxSteps
<1>5. RecordsStand'
  BY <1>1 DEF RecordsStand, TypeOK, tables, Row, Wallet, TxSteps
<1> QED
  BY <1>2, <1>3, <1>4, <1>5

(* A payment takes a row that is free and goes on. *)
LEMMA TakeRowKeeps ==
  ASSUME CardsInv, NEW p \in Payments, NEW n \in Rows, rowLock[n] = NoOne,
         NEW step \in OnCard, pc[p] \in TxSteps, TakeRow(p, n, step),
         status[body[p].card] # "absent",
         n = body[p].card \/ rowLock[body[p].card] = p,
         step \in {"lock_wallet", "commit"} => CardPays(p),
         step = "commit" => n = Wallet(p) /\ balance[Wallet(p)] >= body[p].amount
  PROVE  CardsInv'
<1> USE DEF CardsInv
<1>1. /\ rowLock' = [rowLock EXCEPT ![n] = p] /\ pc' = [pc EXCEPT ![p] = step]
      /\ UNCHANGED <<tables, making, body, reply, crashes, history>>
  BY DEF TakeRow, Goto
<1>2. TypeOK'
  BY <1>1 DEF TypeOK, tables, history, OnCard, TxSteps
<1>3. CardsKnown' /\ SeenClosed'
  BY <1>1 DEF CardsKnown, SeenClosed, tables, history
<1>4. \A q \in Payments : \A r \in Rows : rowLock[r] = q => rowLock'[r] = q
  BY <1>1, CardsAssumption DEF TypeOK
<1>5. rowLock'[n] = p
  BY <1>1 DEF TypeOK
<1>6. LocksHeld'
  <2> SUFFICES ASSUME NEW q \in Payments
               PROVE  /\ pc'[q] \in TxSteps => body[q] \in PayInputs
                      /\ pc'[q] \in OnCard =>
                           rowLock'[body[q].card] = q /\ status[body[q].card] # "absent"
                      /\ pc'[q] \in {"lock_wallet", "commit"} => CardPays(q)
                      /\ pc'[q] = "commit" =>
                           rowLock'[Wallet(q)] = q /\ balance[Wallet(q)] >= body[q].amount
    BY <1>1 DEF LocksHeld, CardPays, Wallet, tables
  <2>1. CASE q = p
    BY <1>1, <1>4, <1>5, <2>1, Known DEF TypeOK, LocksHeld, TxSteps, OnCard
  <2>2. CASE q # p
    BY <1>1, <1>4, <2>2, Known DEF TypeOK, LocksHeld, TxSteps, OnCard
  <2> QED
    BY <2>1, <2>2
<1>7. RecordsStand'
  BY <1>1 DEF RecordsStand, TypeOK, tables, Row, Wallet, OnCard, TxSteps
<1> QED
  BY <1>2, <1>3, <1>6, <1>7

LEMMA RowStepsKeep ==
  ASSUME CardsInv, NEW p \in Payments, LockCard(p) \/ LockUser(p) \/ LockWallet(p)
  PROVE  CardsInv'
<1>1. pc[p] \in TxSteps
  BY DEF LockCard, LockUser, LockWallet, TxSteps
<1>2. CASE LockCard(p)
  BY <1>1, <1>2, Known, TakeRowKeeps, RollbackKeeps DEF LockCard, OnCard
<1>3. CASE LockUser(p)
  <2>1. rowLock[body[p].card] = p /\ status[body[p].card] # "absent" /\ pc[p] \in OnCard
    BY <1>3 DEF LockUser, CardsInv, LocksHeld, OnCard
  <2> QED
    BY <1>1, <1>3, <2>1, Known, TakeRowKeeps, RollbackKeeps DEF LockUser, OnCard
<1>4. CASE LockWallet(p)
  <2>1. /\ rowLock[body[p].card] = p /\ status[body[p].card] # "absent"
        /\ pc[p] \in OnCard /\ CardPays(p)
    BY <1>4 DEF LockWallet, CardsInv, LocksHeld, OnCard
  <2> QED
    BY <1>1, <1>4, <2>1, Known, TakeRowKeeps, RollbackKeeps DEF LockWallet, OnCard
<1> QED
  BY <1>2, <1>3, <1>4

(* The commit moves money of rows that the payment holds. *)
LEMMA ApplyKeeps ==
  ASSUME CardsInv, NEW p \in Payments, pc[p] = "commit", ApplyPayment(p),
         \/ Goto(p, "reply") /\ UNCHANGED reply
         \/ Answer(p, "error")
  PROVE  CardsInv'
<1> USE DEF CardsInv
<1> DEFINE c == body[p].card
           w == Wallet(p)
           amount == body[p].amount
<1>1. /\ c \in Cards /\ w \in Wallets /\ amount \in Nat \ {0}
      /\ rowLock[c] = p /\ rowLock[w] = p /\ status[c] # "absent"
      /\ balance[w] >= amount /\ amount + spent[c] <= card[c].limit
  BY Known DEF LocksHeld, CardPays, TxSteps, OnCard
<1>2. /\ balance' = [balance EXCEPT ![w] = @ - amount]
      /\ spent' = [spent EXCEPT ![c] = @ + amount]
      /\ transactions' = transactions \cup {Row(p)}
      /\ rowLock' = [n \in Rows |-> IF rowLock[n] = p THEN NoOne ELSE rowLock[n]]
      /\ UNCHANGED <<status, card, making, body, crashes, history>>
  BY DEF ApplyPayment, Release
<1>3. /\ pc'[p] \in {"reply", "done"} /\ reply'[p] # "approved"
      /\ pc' \in [Payments -> TxSteps \cup {"idle", "reply", "done"}]
      /\ reply' \in [Payments -> {"none", "approved", "error"}]
      /\ \A q \in Payments \ {p} : pc'[q] = pc[q] /\ reply'[q] = reply[q]
  BY DEF Goto, Answer, TypeOK, RecordsStand
<1>4. Row(p) \in [id : Payments, card : Cards, wallet : Wallets, amount : Nat]
  BY <1>1 DEF Row
<1>5. TypeOK'
  BY <1>1, <1>2, <1>3, <1>4 DEF TypeOK, history
<1>6. CardsKnown'
  <2> SUFFICES ASSUME NEW d \in Cards
               PROVE  /\ spent'[d] <= card[d].limit
                      /\ status[d] = "absent" => spent'[d] = 0
    BY <1>2 DEF CardsKnown
  <2>1. CASE d = c
    BY <1>1, <1>2, <2>1 DEF TypeOK, CardsKnown
  <2>2. CASE d # c
    BY <1>1, <1>2, <2>2 DEF TypeOK, CardsKnown
  <2> QED
    BY <2>1, <2>2
<1>7. LocksHeld'
  <2> SUFFICES ASSUME NEW q \in Payments, pc'[q] \in TxSteps
               PROVE  /\ body[q] \in PayInputs
                      /\ pc'[q] \in OnCard =>
                           rowLock'[body[q].card] = q /\ status[body[q].card] # "absent"
                      /\ pc'[q] \in {"lock_wallet", "commit"} => CardPays(q)'
                      /\ pc'[q] = "commit" =>
                           rowLock'[Wallet(q)] = q /\ balance'[Wallet(q)] >= body[q].amount
    BY <1>2 DEF LocksHeld, Wallet, TxSteps, OnCard
  <2>1. q # p /\ pc'[q] = pc[q]
    BY <1>3 DEF TxSteps
  <2>2. /\ body[q] \in PayInputs /\ body[q].card \in Cards /\ body[q].card \in Rows
        /\ pc[q] \in OnCard => Wallet(q) \in Wallets /\ Wallet(q) \in Rows
    BY <2>1, Known
  <2>3. CASE pc[q] \in OnCard
    <3>1. rowLock[body[q].card] = q /\ status[body[q].card] # "absent" /\ body[q].card # c
      BY <1>1, <2>1, <2>3 DEF LocksHeld
    <3>2. rowLock'[body[q].card] = q /\ spent'[body[q].card] = spent[body[q].card]
      BY <1>1, <1>2, <2>1, <2>2, <3>1 DEF TypeOK
    <3>3. CardPays(q) => CardPays(q)'
      BY <1>2, <3>2 DEF CardPays
    <3>4. ASSUME pc[q] = "commit"
          PROVE  rowLock'[Wallet(q)] = q /\ balance'[Wallet(q)] >= body[q].amount
      <4>1. rowLock[Wallet(q)] = q /\ Wallet(q) # w /\ balance[Wallet(q)] >= body[q].amount
        BY <1>1, <2>1, <3>4 DEF LocksHeld
      <4> QED
        BY <1>1, <1>2, <2>1, <2>2, <2>3, <4>1 DEF TypeOK
    <3> QED
      BY <2>1, <2>2, <3>1, <3>2, <3>3, <3>4 DEF LocksHeld
  <2>4. CASE pc[q] \notin OnCard
    BY <2>1, <2>2, <2>4 DEF OnCard
  <2> QED
    BY <2>3, <2>4
<1>8. RecordsStand'
  <2>1. \A q \in Payments : Row(q)' = Row(q)
    BY <1>2 DEF Row, Wallet
  <2> QED
    BY <1>1, <1>2, <1>3, <2>1 DEF RecordsStand
<1>9. SeenClosed'
  BY <1>2 DEF SeenClosed, history
<1> QED
  BY <1>5, <1>6, <1>7, <1>8, <1>9

LEMMA ReplyKeeps ==
  ASSUME CardsInv, NEW p \in Payments, Reply(p)
  PROVE  CardsInv'
<1> USE DEF CardsInv
<1>1. /\ pc[p] = "reply" /\ pc' = [pc EXCEPT ![p] = "done"]
      /\ reply' = [reply EXCEPT ![p] = "approved"]
      /\ UNCHANGED <<tables, rowLock, making, body, crashes, history>>
  BY DEF Reply, Answer, Goto
<1>2. TypeOK'
  BY <1>1 DEF TypeOK, tables, history
<1>3. CardsKnown' /\ SeenClosed'
  BY <1>1 DEF CardsKnown, SeenClosed, tables, history
<1>4. LocksHeld'
  BY <1>1 DEF LocksHeld, TypeOK, tables, CardPays, Wallet, OnCard, TxSteps
<1>5. RecordsStand'
  BY <1>1 DEF RecordsStand, TypeOK, tables, Row, Wallet
<1> QED
  BY <1>2, <1>3, <1>4, <1>5

LEMMA CrashKeeps ==
  ASSUME CardsInv, Crash
  PROVE  CardsInv'
<1> USE DEF CardsInv
<1>1. /\ crashes < MaxCrashes /\ crashes' = crashes + 1
      /\ rowLock' = [n \in Rows |-> NoOne]
      /\ making' = [c \in Cards |-> IF making[c] = "insert" THEN "done" ELSE making[c]]
      /\ pc' = [p \in Payments |-> IF pc[p] = "idle" THEN "idle" ELSE "done"]
      /\ UNCHANGED <<tables, body, reply, history>>
  BY DEF Crash
<1>2. TypeOK'
  BY <1>1, CardsAssumption DEF TypeOK, tables, history
<1>3. CardsKnown'
  BY <1>1 DEF CardsKnown, tables, TypeOK
<1>4. LocksHeld' /\ SeenClosed'
  BY <1>1 DEF LocksHeld, SeenClosed, tables, history, TxSteps, OnCard
<1>5. RecordsStand'
  BY <1>1 DEF RecordsStand, tables, Row, Wallet
<1> QED
  BY <1>2, <1>3, <1>4, <1>5

LEMMA UnchangedKeeps ==
  ASSUME CardsInv, UNCHANGED vars
  PROVE  CardsInv'
BY DEF vars, tables, history, CardsInv, TypeOK, CardsKnown, LocksHeld, RecordsStand,
       SeenClosed, CardPays, Wallet, Row

LEMMA StepKeeps == CardsInv /\ [Next]_vars => CardsInv'
<1> SUFFICES ASSUME CardsInv, [Next]_vars PROVE CardsInv'
  OBVIOUS
<1>1. ASSUME NEW c \in Cards, NEW in \in CardInputs, CountCards(c, in) PROVE CardsInv'
  BY <1>1, CountKeeps
<1>2. ASSUME NEW c \in Cards, InsertCard(c) \/ InsertFails(c) PROVE CardsInv'
  BY <1>2, InsertKeeps, InsertFailsKeeps
<1>3. ASSUME NEW c \in Cards, NEW to \in {"ACTIVE", "FROZEN", "CLOSED"}, UpdateStatus(c, to)
      PROVE  CardsInv'
  BY <1>3, UpdateKeeps
<1>4. ASSUME NEW p \in Payments, NEW in \in PayInputs, Submit(p, in) PROVE CardsInv'
  BY <1>4, SubmitKeeps
<1>5. ASSUME NEW p \in Payments, LockCard(p) \/ LockUser(p) \/ LockWallet(p)
      PROVE  CardsInv'
  BY <1>5, RowStepsKeep
<1>6. ASSUME NEW p \in Payments, Commit(p) \/ CommitUnacknowledged(p) PROVE CardsInv'
  BY <1>6, ApplyKeeps DEF Commit, CommitUnacknowledged
<1>7. ASSUME NEW p \in Payments, Reply(p) \/ Abort(p) PROVE CardsInv'
  BY <1>7, ReplyKeeps, RollbackKeeps DEF Abort
<1>8. CASE Crash
  BY <1>8, CrashKeeps
<1>9. CASE UNCHANGED vars
  BY <1>9, UnchangedKeeps
<1> QED
  BY <1>1, <1>2, <1>3, <1>4, <1>5, <1>6, <1>7, <1>8, <1>9 DEF Next, PaymentStep, Quiet

(* What others may do to the wallets while payments run: they take no money
   from a wallet that a payment has locked. *)
OthersStep ==
  /\ balance' \in [Wallets -> Nat] /\ crashes' \in 0 .. MaxCrashes
  /\ UNCHANGED <<status, card, spent, transactions, rowLock, making, pc, body, reply,
                 history>>
  /\ \A w \in Wallets : rowLock[w] # NoOne => balance'[w] >= balance[w]

LEMMA OthersKeep == CardsInv /\ OthersStep => CardsInv'
<1> SUFFICES ASSUME CardsInv, OthersStep PROVE CardsInv'
  OBVIOUS
<1> USE DEF CardsInv, OthersStep
<1>1. TypeOK'
  BY DEF TypeOK, history
<1>2. CardsKnown' /\ RecordsStand' /\ SeenClosed'
  BY DEF CardsKnown, RecordsStand, SeenClosed, Row, Wallet, history
<1>3. LocksHeld'
  <2> SUFFICES ASSUME NEW p \in Payments, pc[p] = "commit"
               PROVE  balance'[Wallet(p)] >= body[p].amount
    BY DEF LocksHeld, CardPays, Wallet
  <2>1. /\ Wallet(p) \in Wallets /\ rowLock[Wallet(p)] = p /\ body[p].amount \in Nat
        /\ balance[Wallet(p)] >= body[p].amount
    BY Known DEF LocksHeld, TxSteps, OnCard
  <2>2. balance'[Wallet(p)] >= balance[Wallet(p)]
    BY <2>1, CardsAssumption
  <2>3. balance'[Wallet(p)] \in Nat /\ balance[Wallet(p)] \in Nat
    BY <2>1 DEF TypeOK
  <2> QED
    BY <2>1, <2>2, <2>3
<1> QED
  BY <1>1, <1>2, <1>3

LEMMA Invariance == Spec => []CardsInv
BY InitInv, StepKeeps, PTL DEF Spec

-----------------------------------------------------------------------------
(* Every reachable state is well-typed: in particular no payment, however
   many run at once, takes a wallet below zero. *)
THEOREM CardsTypeCorrect == Spec => []TypeOK
<1>1. CardsInv => TypeOK
  BY DEF CardsInv
<1> QED
  BY <1>1, Invariance, PTL

(* Payments of a card that run at once never spend more than its limit. *)
THEOREM LimitsRespected == Spec => [](\A c \in Cards : spent[c] <= card[c].limit)
<1>1. CardsInv => \A c \in Cards : spent[c] <= card[c].limit
  BY DEF CardsInv, CardsKnown
<1> QED
  BY <1>1, Invariance, PTL

(* An approved payment is recorded as it was asked, whatever happens to its
   card afterwards. *)
THEOREM ApprovedIsRecorded == Spec => []ApprovedMeansRecorded
<1>1. CardsInv => ApprovedMeansRecorded
  BY DEF CardsInv, RecordsStand, ApprovedMeansRecorded
<1> QED
  BY <1>1, Invariance, PTL

(* A card that is frozen, closed or spent before a payment's commit does not
   pay: what was checked stands. *)
THEOREM ChecksStand == Spec => []ChecksHoldAtCommit
<1>1. CardsInv => ChecksHoldAtCommit
  BY DEF CardsInv, LocksHeld, ChecksHoldAtCommit
<1> QED
  BY <1>1, Invariance, PTL

(* A wallet has a second open card only by overlapping creations or by
   activating a closed card again. *)
THEOREM SecondCards == Spec => []TwoCardsOnlyByOverlapOrReopening
<1>1. CardsInv => TwoCardsOnlyByOverlapOrReopening
  BY DEF CardsInv, SeenClosed, TwoCardsOnlyByOverlapOrReopening, Open
<1> QED
  BY <1>1, Invariance, PTL

-----------------------------------------------------------------------------
(* Money. *)

(* A row of transactions is a payment's that has committed. *)
RowsCommitted == \A t \in transactions : t.id \in Payments /\ pc[t.id] \in {"reply", "done"}

MoneyInv ==
  CardsInv /\ IsFiniteSet(transactions) /\ RowsCommitted /\ SpendingMatchesRecords

LEMMA TotalIsAmountSum == \A rows : Total(rows) = AmountSum(rows)
BY DEF Total, AmountSum

LEMMA InitMoney == Init => MoneyInv
<1> SUFFICES ASSUME Init PROVE MoneyInv
  OBVIOUS
<1>1. transactions = {} /\ balance = Opening /\ spent = [c \in Cards |-> 0]
  BY DEF Init
<1>2. \A x : Total(PaidBy(x)) = 0 /\ Total(TakenFrom(x)) = 0
  <2>1. \A x : PaidBy(x) = {} /\ TakenFrom(x) = {}
    BY <1>1 DEF PaidBy, TakenFrom
  <2> QED
    BY <2>1, TotalIsAmountSum, AmountSumFacts
<1>3. CardsInv
  BY InitInv
<1>4. SpendingMatchesRecords
  <2>1. \A c \in Cards : spent[c] = 0 /\ spent[c] <= card[c].limit
    BY <1>1, <1>3 DEF CardsInv, CardsKnown
  <2>2. \A w \in Wallets : Opening[w] \in Nat
    BY CardsAssumption
  <2> QED
    BY <1>1, <1>2, <2>1, <2>2 DEF SpendingMatchesRecords
<1> QED
  BY <1>1, <1>3, <1>4, FS_EmptySet DEF MoneyInv, RowsCommitted

(* One row more or no row more of a part of transactions. *)
LEMMA PartGrows ==
  ASSUME MoneyInv, NEW rows, rows \subseteq transactions, NEW t, t \notin transactions,
         t.amount \in Int
  PROVE  Total(rows) \in Int /\ Total(rows \cup {t}) = Total(rows) + t.amount
<1>1. IsFiniteSet(rows)
  BY FS_Subset DEF MoneyInv
<1>2. \A x \in rows : x.amount \in Int
  BY DEF MoneyInv, CardsInv, TypeOK
<1>3. t \notin rows
  OBVIOUS
<1>4. Total(rows) \in Int
  BY <1>1, <1>2, TotalIsAmountSum, AmountSumFacts
<1>5. AmountSum(rows \cup {t}) = AmountSum(rows) + t.amount
  BY <1>1, <1>2, <1>3, AmountSumGrows
<1> QED
  BY <1>4, <1>5, TotalIsAmountSum

LEMMA PaymentMoves ==
  ASSUME MoneyInv, NEW p \in Payments, pc[p] = "commit", ApplyPayment(p)
  PROVE  IsFiniteSet(transactions') /\ SpendingMatchesRecords'
<1> DEFINE t == Row(p)
           d == body[p].card
           v == Wallet(p)
           amount == body[p].amount
<1> USE DEF MoneyInv
<1>1. /\ balance' = [balance EXCEPT ![v] = @ - amount]
      /\ spent' = [spent EXCEPT ![d] = @ + amount]
      /\ transactions' = transactions \cup {t} /\ card' = card
  BY DEF ApplyPayment
<1>2. /\ d \in Cards /\ v \in Wallets /\ amount \in Nat \ {0}
      /\ amount + spent[d] <= card[d].limit
  BY Known DEF CardsInv, LocksHeld, CardPays, TxSteps, OnCard
<1>3. t.id = p /\ t.card = d /\ t.wallet = v /\ t.amount = amount
  BY DEF Row
<1>4. t \notin transactions
  BY <1>3 DEF RowsCommitted
<1> HIDE DEF t, d, v, amount
<1>5. ASSUME NEW c \in Cards
      PROVE  spent'[c] = Total(PaidBy(c)') /\ spent'[c] <= card'[c].limit
  <2>1. spent[c] = Total(PaidBy(c)) /\ spent[c] <= card[c].limit
    BY DEF SpendingMatchesRecords
  <2>2. CASE c = d
    <3>1. PaidBy(c)' = PaidBy(c) \cup {t} /\ PaidBy(c) \subseteq transactions
      BY <1>1, <1>3, <2>2 DEF PaidBy
    <3>2. Total(PaidBy(c)') = Total(PaidBy(c)) + amount
      BY <1>2, <1>3, <1>4, <3>1, PartGrows
    <3>3. spent'[c] = spent[c] + amount /\ card[c].limit = card'[c].limit
      BY <1>1, <1>2, <2>2 DEF CardsInv, TypeOK
    <3> QED
      BY <1>1, <1>2, <2>1, <2>2, <3>2, <3>3 DEF CardsInv, TypeOK
  <2>3. CASE c # d
    <3>1. PaidBy(c)' = PaidBy(c)
      BY <1>1, <1>3, <2>3 DEF PaidBy
    <3> QED
      BY <1>1, <2>1, <2>3, <3>1 DEF CardsInv, TypeOK
  <2> QED
    BY <2>2, <2>3
<1>6. ASSUME NEW w \in Wallets
      PROVE  balance'[w] = Opening[w] - Total(TakenFrom(w)')
  <2>1. balance[w] = Opening[w] - Total(TakenFrom(w)) /\ Opening[w] \in Int
    BY CardsAssumption DEF SpendingMatchesRecords
  <2>2. CASE w = v
    <3>1. TakenFrom(w)' = TakenFrom(w) \cup {t} /\ TakenFrom(w) \subseteq transactions
      BY <1>1, <1>3, <2>2 DEF TakenFrom
    <3>2. /\ Total(TakenFrom(w)') = Total(TakenFrom(w)) + amount
          /\ Total(TakenFrom(w)) \in Int
      BY <1>2, <1>3, <1>4, <3>1, PartGrows
    <3>3. balance'[w] = balance[w] - amount
      BY <1>1, <1>2, <2>2 DEF CardsInv, TypeOK
    <3> QED
      BY <1>2, <2>1, <3>2, <3>3
  <2>3. CASE w # v
    <3>1. TakenFrom(w)' = TakenFrom(w)
      BY <1>1, <1>3, <2>3 DEF TakenFrom
    <3> QED
      BY <1>1, <2>1, <2>3, <3>1 DEF CardsInv, TypeOK
  <2> QED
    BY <2>2, <2>3
<1>7. IsFiniteSet(transactions')
  BY <1>1, FS_AddElement
<1> QED
  BY <1>5, <1>6, <1>7 DEF SpendingMatchesRecords

LEMMA RowsStayCommitted ==
  ASSUME MoneyInv, [Next]_vars
  PROVE  RowsCommitted'
<1>1. RowsCommitted /\ pc \in [Payments -> {"idle", "reply", "done"} \cup TxSteps]
  BY DEF MoneyInv, CardsInv, TypeOK, TxSteps
<1>2. ASSUME NEW p \in Payments, NEW s \in TxSteps \cup {"done"},
             pc[p] \notin {"reply", "done"} \/ s = "done", Goto(p, s), UNCHANGED transactions
      PROVE  RowsCommitted'
  BY <1>1, <1>2 DEF RowsCommitted, Goto
<1>3. ASSUME NEW p \in Payments, Rollback(p) PROVE RowsCommitted'
  BY <1>2, <1>3 DEF Rollback, Answer, tables
<1>4. ASSUME UNCHANGED <<transactions, pc>> PROVE RowsCommitted'
  BY <1>1, <1>4 DEF RowsCommitted
<1>5. ASSUME NEW c \in Cards,
             \/ \E in \in CardInputs : CountCards(c, in)
             \/ InsertCard(c) \/ InsertFails(c)
             \/ \E to \in {"ACTIVE", "FROZEN", "CLOSED"} : UpdateStatus(c, to)
      PROVE  RowsCommitted'
  BY <1>4, <1>5 DEF CountCards, InsertCard, InsertFails, UpdateStatus, tables
<1>6. ASSUME NEW p \in Payments, NEW in \in PayInputs, Submit(p, in) PROVE RowsCommitted'
  BY <1>2, <1>6 DEF Submit, tables, TxSteps
<1>7. ASSUME NEW p \in Payments, LockCard(p) \/ LockUser(p) \/ LockWallet(p)
      PROVE  RowsCommitted'
  BY <1>2, <1>3, <1>7 DEF LockCard, LockUser, LockWallet, TakeRow, tables, TxSteps
<1>8. ASSUME NEW p \in Payments, Commit(p) \/ CommitUnacknowledged(p) PROVE RowsCommitted'
  <2>1. transactions' = transactions \cup {Row(p)} /\ Row(p).id = p
    BY <1>8 DEF Commit, CommitUnacknowledged, ApplyPayment, Row
  <2>2. \E s \in {"reply", "done"} : Goto(p, s)
    BY <1>8 DEF Commit, CommitUnacknowledged, Answer
  <2> QED
    BY <1>1, <2>1, <2>2 DEF RowsCommitted, Goto
<1>9. ASSUME NEW p \in Payments, Reply(p) \/ Abort(p) PROVE RowsCommitted'
  BY <1>2, <1>3, <1>9 DEF Reply, Abort, Answer, tables
<1>10. CASE Crash
  BY <1>1, <1>10 DEF Crash, RowsCommitted, tables
<1>11. CASE UNCHANGED vars
  BY <1>4, <1>11 DEF vars, tables
<1> QED
  BY <1>5, <1>6, <1>7, <1>8, <1>9, <1>10, <1>11 DEF Next, PaymentStep, Quiet

LEMMA MoneyStep == MoneyInv /\ [Next]_vars => MoneyInv'
<1> SUFFICES ASSUME MoneyInv, [Next]_vars PROVE MoneyInv'
  OBVIOUS
<1>1. CardsInv' /\ RowsCommitted'
  BY StepKeeps, RowsStayCommitted DEF MoneyInv
<1>2. ASSUME UNCHANGED <<balance, spent, transactions>>
      PROVE  IsFiniteSet(transactions') /\ SpendingMatchesRecords'
  <2>1. \A c \in Cards : spent'[c] <= card'[c].limit
    BY <1>1 DEF CardsInv, CardsKnown
  <2> QED
    BY <1>2, <2>1 DEF MoneyInv, SpendingMatchesRecords, PaidBy, TakenFrom
<1>3. \/ UNCHANGED <<balance, spent, transactions>>
      \/ \E p \in Payments : pc[p] = "commit" /\ ApplyPayment(p)
  BY DEF Next, CountCards, InsertCard, InsertFails, UpdateStatus, Submit, PaymentStep,
     LockCard, LockUser, LockWallet, TakeRow, Rollback, Commit, CommitUnacknowledged,
     Reply, Abort, Crash, Quiet, vars, tables
<1> QED
  BY <1>1, <1>2, <1>3, PaymentMoves DEF MoneyInv

(* A card has spent what its recorded payments took and no more than its
   limit, and its wallet lost exactly that. *)
THEOREM SpendingIsRecorded == Spec => []SpendingMatchesRecords
<1>1. Spec => []MoneyInv
  BY InitMoney, MoneyStep, PTL DEF Spec
<1>2. MoneyInv => SpendingMatchesRecords
  BY DEF MoneyInv
<1> QED
  BY <1>1, <1>2, PTL

-----------------------------------------------------------------------------
(* What a server that shares the wallets sees of the payments with cards. *)

WalletsApart == IsFiniteSet(Wallets) /\ Wallets \cap (Users \cup Cards) = {}

(* A step takes money only from a wallet that is locked, and the cards have
   spent what it takes. *)
MoneyMoves ==
  /\ \A w \in Wallets : rowLock[w] # NoOne \/ balance'[w] = balance[w]
  /\ SumFunction(balance) \in Int /\ SumFunction(spent) \in Int
  /\ SumFunction(balance') + SumFunction(spent') = SumFunction(balance) + SumFunction(spent)

LEMMA SumsKnown ==
  ASSUME CardsInv, IsFiniteSet(Wallets)
  PROVE  SumFunction(balance) \in Int /\ SumFunction(spent) \in Int
<1>1. balance \in [Wallets -> Nat] /\ spent \in [Cards -> Nat]
  BY DEF CardsInv, TypeOK
<1>2. SumFunctionOnSet(balance, Wallets) \in Int
  BY <1>1, SumType
<1>3. SumFunctionOnSet(spent, Cards) \in Int
  BY <1>1, CardsAssumption, SumType
<1> QED
  BY <1>1, <1>2, <1>3 DEF SumFunction

LEMMA ApplyMovesMoney ==
  ASSUME CardsInv, IsFiniteSet(Wallets), NEW p \in Payments, pc[p] = "commit", ApplyPayment(p)
  PROVE  MoneyMoves
<1> DEFINE c == body[p].card
           w == Wallet(p)
           amount == body[p].amount
<1>1. /\ c \in Cards /\ w \in Wallets /\ amount \in Nat /\ rowLock[w] = p
  BY Known DEF CardsInv, LocksHeld, TxSteps, OnCard
<1>2. /\ balance' = [balance EXCEPT ![w] = @ - amount]
      /\ spent' = [spent EXCEPT ![c] = @ + amount]
  BY DEF ApplyPayment
<1> HIDE DEF c, w, amount
<1>3. balance \in [Wallets -> Nat] /\ spent \in [Cards -> Nat]
  BY DEF CardsInv, TypeOK
<1>4. /\ balance \in [Wallets -> Int] /\ balance' \in [Wallets -> Int]
      /\ balance'[w] = balance[w] - amount
      /\ \A v \in Wallets \ {w} : balance'[v] = balance[v]
  BY <1>1, <1>2, <1>3
<1>5. /\ spent \in [Cards -> Int] /\ spent' \in [Cards -> Int]
      /\ spent'[c] = spent[c] + amount
      /\ \A d \in Cards \ {c} : spent'[d] = spent[d]
  BY <1>1, <1>2, <1>3
<1>6. /\ SumFunction(balance) \in Int
      /\ SumFunction(balance') = SumFunction(balance) + balance'[w] - balance[w]
  BY <1>1, <1>4, SumMoves
<1>7. /\ SumFunction(spent) \in Int
      /\ SumFunction(spent') = SumFunction(spent) + spent'[c] - spent[c]
  <2>1. IsFiniteSet(Cards)
    BY CardsAssumption
  <2> QED
    BY <1>1, <1>5, <2>1, SumMoves
<1>8. SumFunction(balance') + SumFunction(spent') = SumFunction(balance) + SumFunction(spent)
  BY <1>1, <1>3, <1>4, <1>5, <1>6, <1>7
<1>9. p # NoOne
  BY CardsAssumption
<1> QED
  BY <1>1, <1>4, <1>6, <1>7, <1>8, <1>9 DEF MoneyMoves

LEMMA StepMovesMoney == CardsInv /\ WalletsApart /\ Next => MoneyMoves
<1> SUFFICES ASSUME CardsInv, WalletsApart, Next PROVE MoneyMoves
  OBVIOUS
<1>1. \/ UNCHANGED <<balance, spent>>
      \/ \E p \in Payments : pc[p] = "commit" /\ ApplyPayment(p)
  BY DEF Next, CountCards, InsertCard, InsertFails, UpdateStatus, Submit, PaymentStep,
     LockCard, LockUser, LockWallet, TakeRow, Rollback, Commit, CommitUnacknowledged,
     Reply, Abort, Crash, Quiet, vars, tables
<1>2. CASE UNCHANGED <<balance, spent>>
  <2>1. SumFunction(balance) \in Int /\ SumFunction(spent) \in Int
    BY SumsKnown DEF WalletsApart
  <2> QED
    BY <1>2, <2>1 DEF MoneyMoves
<1> QED
  BY <1>1, <1>2, ApplyMovesMoney DEF WalletsApart

(* A wallet is locked only by the payment that takes money from it. *)
Locks(p) ==
  \A w \in Wallets :
    rowLock'[w] \in {NoOne, rowLock[w]} \/ (pc[p] = "lock_wallet" /\ w = Wallet(p))

LEMMA PaymentLocks == CardsInv /\ WalletsApart => \A p \in Payments : PaymentStep(p) => Locks(p)
<1> SUFFICES ASSUME CardsInv, WalletsApart, NEW p \in Payments, PaymentStep(p) PROVE Locks(p)
  OBVIOUS
<1>1. rowLock \in [Rows -> Payments \cup {NoOne}] /\ Wallets \subseteq Rows
  BY DEF CardsInv, TypeOK, Rows
<1>2. CASE UNCHANGED rowLock \/ Release(p)
  BY <1>1, <1>2 DEF Locks, Release
<1>3. ASSUME NEW n \in Rows, rowLock' = [rowLock EXCEPT ![n] = p],
             n \notin Wallets \/ (pc[p] = "lock_wallet" /\ n = Wallet(p))
      PROVE  Locks(p)
  BY <1>1, <1>3 DEF Locks
<1>4. CASE LockCard(p)
  <2>1. body[p].card \in Cards /\ body[p].card \in Rows
    BY <1>4, Known DEF LockCard, TxSteps
  <2> QED
    BY <1>2, <1>3, <1>4, <2>1 DEF LockCard, TakeRow, Rollback, WalletsApart
<1>5. CASE LockUser(p) \/ LockWallet(p)
  <2>1. /\ card[body[p].card].user \in Users /\ card[body[p].card].user \in Rows
        /\ Wallet(p) \in Rows
    <3>1. pc[p] \in TxSteps /\ pc[p] \in OnCard
      BY <1>5 DEF LockUser, LockWallet, TxSteps, OnCard
    <3> QED
      BY <3>1, Known, CardsAssumption
  <2> QED
    BY <1>2, <1>3, <1>5, <2>1 DEF LockUser, LockWallet, TakeRow, Rollback, WalletsApart
<1>6. CASE Commit(p) \/ Reply(p)
  BY <1>2, <1>6 DEF Commit, ApplyPayment, Reply
<1> QED
  BY <1>4, <1>5, <1>6 DEF PaymentStep
=============================================================================
