------------------------ MODULE WalletTransferProofs ------------------------
(***************************************************************************)
(* Proofs about WalletTransfer, for every set of users, requests, keys and *)
(* amounts and every bound.                                                *)
(***************************************************************************)
EXTENDS WalletTransfer, Sums, FiniteSetTheorems, TLAPS

(* A conversion gives an integer, whatever the product is. *)
LEMMA ConvertedType == \A a, f, t : Conversions(a, f, t) \subseteq Int
BY MaxIntAssumption DEF Conversions, Int64

(* The numbers a request locks are those it names, in ascending order. *)
LEMMA LockOrderFacts ==
  ASSUME NEW r \in Transfers, req[r] \in Inputs
  PROVE  /\ req[r].from \in Numbers /\ req[r].to \in Numbers
         /\ FirstNumber(r) <= SecondNumber(r)
         /\ \/ FirstNumber(r) = req[r].from /\ SecondNumber(r) = req[r].to
            \/ FirstNumber(r) = req[r].to /\ SecondNumber(r) = req[r].from
<1>1. req[r].from \in Numbers /\ req[r].to \in Numbers
  BY InputsAssumption
<1> QED
  BY <1>1, BoundsAssumption DEF FirstNumber, SecondNumber, LockOrder, Numbers

LEMMA InitIInv == Init => IInv
<1> SUFFICES ASSUME Init PROVE IInv
  OBVIOUS
<1> USE BoundsAssumption, InputsAssumption, NamesAssumption DEF Init
<1>1. TypeOK
  BY DEF TypeOK, Numbers, Steps
<1>2. BodiesKnown
  BY DEF BodiesKnown, KeySteps, Procs, Numbers
<1>3. StepsHoldLocks /\ LocksHaveHolders
  BY DEF StepsHoldLocks, LocksHaveHolders, KeySteps, FirstSteps, SecondSteps, Procs
<1>4. ChecksStand
  BY DEF ChecksStand, KeySteps, FirstSteps, SecondSteps, CheckedSteps, Procs
<1>5. RecordsAgree
  BY DEF RecordsAgree, KeysMatchTransactions, DuplicateMeansRecorded,
         DeletedWalletsEmpty, Reported, Procs
<1> QED
  BY <1>1, <1>2, <1>3, <1>4, <1>5 DEF IInv

(* What the body of a running request names exists. *)
LEMMA BodyFacts ==
  ASSUME TypeOK, BodiesKnown
  PROVE  /\ \A r \in Transfers : pc[r] \notin {"idle", "done"} =>
              /\ req[r] \in Inputs /\ req[r].key \in Keys
              /\ req[r].from \in Numbers /\ req[r].to \in Numbers
              /\ req[r].amount \in Int
              /\ FirstNumber(r) \in Numbers /\ SecondNumber(r) \in Numbers
              /\ {FirstNumber(r), SecondNumber(r)} = {req[r].from, req[r].to}
         /\ \A d \in Deletes : pc[d] \notin {"idle", "done"} =>
              target[d][2] \in Numbers
         /\ seq \in Nat /\ Numbers \subseteq Nat
         /\ \A n \in Numbers : status[n] = "active" => n <= seq
<1>1. ASSUME NEW r \in Transfers, pc[r] \notin {"idle", "done"}
      PROVE  req[r] \in Inputs /\ req[r].key # NoKey
  BY <1>1 DEF BodiesKnown
<1>2. ASSUME NEW d \in Deletes, pc[d] \notin {"idle", "done"}
      PROVE  target[d][2] \in Numbers
  BY <1>2, InputsAssumption DEF BodiesKnown
<1>3. seq \in Nat /\ Numbers \subseteq Nat
  BY BoundsAssumption DEF TypeOK, Numbers
<1>4. \A n \in Numbers : status[n] = "active" => n <= seq
  <2>1. \A n \in Numbers : status[n] = "absent" <=> n > seq
    BY Zenon DEF BodiesKnown
  <2>2. seq \in Int /\ \A n \in Numbers : n \in Int
    BY <1>3
  <2> HIDE DEF Numbers
  <2> QED
    BY <2>1, <2>2
<1>5. \A r \in Transfers : req[r] \in Inputs =>
        {FirstNumber(r), SecondNumber(r)} = {req[r].from, req[r].to}
  BY LockOrderFacts
<1> QED
  BY <1>1, <1>2, <1>3, <1>4, <1>5, LockOrderFacts, InputsAssumption

(* A rollback frees what p locked and answers it; no table changes. *)
LEMMA RollbackStep ==
  ASSUME IInv, NEW p \in Procs, NEW what \in {"duplicate", "error"},
         pc[p] \in DatabaseSteps, Rollback(p, what),
         what = "duplicate" => p \in Transfers /\ req[p].key \in keys
  PROVE  IInv'
<1> USE NamesAssumption
    DEF IInv, Rollback, Release, Answer, Goto, tables, webhooks
<1>1. TypeOK'
  BY DEF TypeOK, Steps
<1>2. BodiesKnown'
  BY DEF TypeOK, BodiesKnown, KeySteps, Procs, DatabaseSteps
<1>a. \A r \in Transfers : FirstNumber(r)' = FirstNumber(r)
                           /\ SecondNumber(r)' = SecondNumber(r)
  BY DEF FirstNumber, SecondNumber, LockOrder
<1>b. \A q \in Procs \ {p} : pc'[q] = pc[q]
  BY DEF TypeOK
<1>c. pc'[p] = "done"
  BY DEF TypeOK
<1>d. /\ \A r \in Transfers : pc[r] \notin {"idle", "done"} =>
          /\ req[r].key \in Keys
          /\ FirstNumber(r) \in Numbers /\ SecondNumber(r) \in Numbers
      /\ \A d \in Deletes : pc[d] \notin {"idle", "done"} => target[d][2] \in Numbers
  BY BodyFacts
<1>3. StepsHoldLocks'
  <2>1. ASSUME NEW r \in Transfers
        PROVE  /\ pc'[r] \in KeySteps => keyLock'[req'[r].key] = r
               /\ pc'[r] \in FirstSteps => rowLock'[FirstNumber(r)'] = r
               /\ pc'[r] \in SecondSteps => rowLock'[SecondNumber(r)'] = r
    BY <2>1, <1>a, <1>b, <1>c, <1>d
    DEF StepsHoldLocks, KeySteps, FirstSteps, SecondSteps, Procs
  <2>2. ASSUME NEW d \in Deletes, pc'[d] \in {"del_check", "del_commit"}
        PROVE  rowLock'[target'[d][2]] = d
    BY <2>2, <1>b, <1>c, <1>d DEF StepsHoldLocks, Procs
  <2> QED
    BY <2>1, <2>2 DEF StepsHoldLocks
<1>4. LocksHaveHolders'
  BY <1>a, <1>b, <1>c DEF TypeOK, LocksHaveHolders, KeySteps, FirstSteps, SecondSteps, Procs
<1>5. ChecksStand'
  BY <1>a, <1>b, <1>c DEF TypeOK, ChecksStand, KeySteps, FirstSteps, SecondSteps, CheckedSteps, Procs
<1>6. RecordsAgree'
  BY DEF TypeOK, RecordsAgree, KeysMatchTransactions, DuplicateMeansRecorded,
         DeletedWalletsEmpty, Reported, Procs, Row, DatabaseSteps
<1> QED
  BY <1>1, <1>2, <1>3, <1>4, <1>5, <1>6

(* The sender is read as an active wallet or the request ends. *)
LEMMA ReadSenderStep ==
  ASSUME IInv, NEW r \in Transfers, ReadSender(r)
  PROVE  IInv'
<1>a. \A q \in Transfers : /\ FirstNumber(q)' = FirstNumber(q)
                           /\ SecondNumber(q)' = SecondNumber(q)
  BY DEF FirstNumber, SecondNumber, LockOrder, tables, webhooks, ReadSender, GetWalletByID, Answer, Goto
<1>b. /\ \/ /\ pc'[r] = "read_receiver" /\ reply'[r] = reply[r]
            /\ status[req[r].from] = "active"
         \/ pc'[r] = "done" /\ reply'[r] = "error"
      /\ \A q \in Procs \ {r} : pc'[q] = pc[q] /\ reply'[q] = reply[q]
  BY DEF IInv, TypeOK, Procs, ReadSender, GetWalletByID, Answer, Goto
<1>c. UNCHANGED <<status, user, currency, balance, seq, keys, transactions,
                  keyLock, rowLock, req, target, converted, queue, posting,
                  posted, crashes>>
  BY DEF tables, locks, webhooks, ReadSender, GetWalletByID, Answer, Goto
<1>d. pc[r] = "read_sender" /\ (pc'[r] = "read_receiver" => req[r].from <= seq)
  BY BodyFacts, <1>b DEF IInv, ReadSender, GetWalletByID, Answer, Goto
<1>1. TypeOK'
  <2>1. TypeOK
    BY DEF IInv
  <2>2. pc' \in [Procs -> Steps]
    <3>1. \E s \in Steps : Goto(r, s)
      BY DEF Steps, DatabaseSteps, ReadSender, GetWalletByID, Answer
    <3> QED
      BY <2>1, <3>1 DEF TypeOK, Procs, Goto
  <2>3. reply' \in [Procs -> {"none", "ok", "duplicate", "error"}]
    BY <2>1, <1>d DEF TypeOK, Procs, ReadSender, GetWalletByID, Answer, Goto
  <2> QED
    BY <1>c, <2>1, <2>2, <2>3 DEF TypeOK
<1>2. BodiesKnown'
  BY <1>b, <1>c, <1>d, BodyFacts, NamesAssumption DEF IInv, BodiesKnown, KeySteps, Procs
<1>3. StepsHoldLocks'
  BY <1>a, <1>b, <1>c, <1>d, BodyFacts, NamesAssumption
  DEF IInv, StepsHoldLocks, KeySteps, FirstSteps, SecondSteps, Procs
<1>4. LocksHaveHolders'
  BY <1>a, <1>b, <1>c, <1>d, BodyFacts, NamesAssumption
  DEF IInv, LocksHaveHolders, KeySteps, FirstSteps, SecondSteps, Procs
<1>5. ChecksStand'
  BY <1>a, <1>b, <1>c, <1>d, BodyFacts, NamesAssumption
  DEF IInv, ChecksStand, KeySteps, FirstSteps, SecondSteps, CheckedSteps, Procs
<1>6. RecordsAgree'
  BY <1>b, <1>c, <1>d, BodyFacts, NamesAssumption
  DEF IInv, RecordsAgree, KeysMatchTransactions, DuplicateMeansRecorded,
      DeletedWalletsEmpty, Reported, Procs, Row
<1> QED
  BY <1>1, <1>2, <1>3, <1>4, <1>5, <1>6 DEF IInv

(* The amount converted before Begin is what the currencies give. *)
LEMMA ReadReceiverStep ==
  ASSUME IInv, NEW r \in Transfers, ReadReceiver(r)
  PROVE  IInv'
<1>a. \A q \in Transfers : /\ FirstNumber(q)' = FirstNumber(q)
                           /\ SecondNumber(q)' = SecondNumber(q)
  BY DEF FirstNumber, SecondNumber, LockOrder, tables, webhooks, ReadReceiver, GetWalletByID, Answer, Goto
<1>b. /\ \/ /\ pc'[r] = "insert_key" /\ reply'[r] = reply[r]
            /\ status[req[r].to] = "active" /\ req[r].from # req[r].to
         \/ pc'[r] = "done" /\ reply'[r] = "error"
      /\ \A q \in Procs \ {r} : pc'[q] = pc[q] /\ reply'[q] = reply[q]
      /\ pc'[r] = "insert_key" => converted'[r] \in
           Conversions(req[r].amount, currency[req[r].from], currency[req[r].to])
      /\ \A q \in Transfers \ {r} : converted'[q] = converted[q]
  BY DEF IInv, TypeOK, Procs, ReadReceiver, GetWalletByID, Answer, Goto
<1>c. UNCHANGED <<status, user, currency, balance, seq, keys, transactions,
                  keyLock, rowLock, req, target, queue, posting, posted,
                  crashes>>
  BY DEF tables, locks, webhooks, ReadReceiver, GetWalletByID, Answer, Goto
<1>d. pc[r] = "read_receiver" /\ (pc'[r] = "insert_key" => req[r].to <= seq)
  BY BodyFacts, <1>b DEF IInv, ReadReceiver, GetWalletByID, Answer, Goto
<1>e. Conversions(req[r].amount, currency[req[r].from], currency[req[r].to]) \subseteq Int
  BY ConvertedType
<1>1. TypeOK'
  <2>1. TypeOK
    BY DEF IInv
  <2>2. pc' \in [Procs -> Steps]
    <3>1. \E s \in Steps : Goto(r, s)
      BY DEF Steps, DatabaseSteps, ReadReceiver, Answer
    <3> QED
      BY <2>1, <3>1 DEF TypeOK, Procs, Goto
  <2>3. reply' \in [Procs -> {"none", "ok", "duplicate", "error"}]
    BY <2>1 DEF TypeOK, Procs, ReadReceiver, Answer
  <2>4. converted' \in [Transfers -> Int]
    BY <2>1, <1>e DEF TypeOK, ReadReceiver
  <2> QED
    BY <1>c, <2>1, <2>2, <2>3, <2>4 DEF TypeOK
<1>2. BodiesKnown'
  BY <1>b, <1>c, <1>d, BodyFacts, NamesAssumption DEF IInv, BodiesKnown, KeySteps, Procs
<1>3. StepsHoldLocks'
  BY <1>a, <1>b, <1>c, <1>d, BodyFacts, NamesAssumption
  DEF IInv, StepsHoldLocks, KeySteps, FirstSteps, SecondSteps, Procs
<1>4. LocksHaveHolders'
  BY <1>a, <1>b, <1>c, <1>d, BodyFacts, NamesAssumption
  DEF IInv, LocksHaveHolders, KeySteps, FirstSteps, SecondSteps, Procs
<1>5. ChecksStand'
  BY <1>a, <1>b, <1>c, <1>d, BodyFacts, NamesAssumption
  DEF IInv, ChecksStand, KeySteps, FirstSteps, SecondSteps, CheckedSteps, Procs
<1>6. RecordsAgree'
  BY <1>b, <1>c, <1>d, BodyFacts, NamesAssumption
  DEF IInv, RecordsAgree, KeysMatchTransactions, DuplicateMeansRecorded,
      DeletedWalletsEmpty, Reported, Procs, Row
<1> QED
  BY <1>1, <1>2, <1>3, <1>4, <1>5, <1>6 DEF IInv

(* A request takes the row of its lower wallet. *)
LEMMA LockFirstStep ==
  ASSUME IInv, NEW r \in Transfers, pc[r] = "lock_first",
         RowFree(FirstNumber(r)), status[FirstNumber(r)] = "active",
         TakeRow(r, FirstNumber(r), "lock_second")
  PROVE  IInv'
<1>a. \A q \in Transfers : /\ FirstNumber(q)' = FirstNumber(q)
                           /\ SecondNumber(q)' = SecondNumber(q)
  BY DEF FirstNumber, SecondNumber, LockOrder, tables, webhooks, RowFree, TakeRow, Goto
<1>b. /\ pc'[r] = "lock_second" /\ reply'[r] = reply[r]
      /\ \A q \in Procs \ {r} : pc'[q] = pc[q] /\ reply'[q] = reply[q]
  BY DEF IInv, TypeOK, Procs, RowFree, TakeRow, Goto
<1>c. UNCHANGED <<status, user, currency, balance, seq, keys, transactions,
                  keyLock, req, target, converted, reply, queue, posting,
                  posted, crashes>>
  BY DEF tables, locks, webhooks, RowFree, TakeRow, Goto
<1>d. /\ rowLock[FirstNumber(r)] = NoOne /\ rowLock'[FirstNumber(r)] = r
      /\ \A n \in Numbers \ {FirstNumber(r)} : rowLock'[n] = rowLock[n]
  BY BodyFacts, <1>b DEF IInv, TypeOK, RowFree, TakeRow, Goto
<1>1. TypeOK'
  <2>1. TypeOK
    BY DEF IInv
  <2>2. rowLock' \in [Numbers -> Procs \cup {NoOne}]
    BY <2>1, <1>d DEF TypeOK, Procs, RowFree, TakeRow, Goto
  <2>3. pc' \in [Procs -> Steps]
    BY <2>1, <1>d DEF TypeOK, Steps, DatabaseSteps, Procs, RowFree, TakeRow, Goto
  <2> QED
    BY <1>c, <2>1, <2>2, <2>3 DEF TypeOK
<1>2. BodiesKnown'
  BY <1>b, <1>c, <1>d, BodyFacts, NamesAssumption DEF IInv, BodiesKnown, KeySteps, Procs
<1>3. StepsHoldLocks'
  BY <1>a, <1>b, <1>c, <1>d, BodyFacts, NamesAssumption
  DEF IInv, StepsHoldLocks, KeySteps, FirstSteps, SecondSteps, Procs
<1>4. LocksHaveHolders'
  BY <1>a, <1>b, <1>c, <1>d, BodyFacts, NamesAssumption
  DEF IInv, LocksHaveHolders, KeySteps, FirstSteps, SecondSteps, Procs
<1>5. ChecksStand'
  BY <1>a, <1>b, <1>c, <1>d, BodyFacts, NamesAssumption
  DEF IInv, ChecksStand, KeySteps, FirstSteps, SecondSteps, CheckedSteps, Procs
<1>6. RecordsAgree'
  BY <1>b, <1>c, <1>d, BodyFacts, NamesAssumption
  DEF IInv, RecordsAgree, KeysMatchTransactions, DuplicateMeansRecorded,
      DeletedWalletsEmpty, Reported, Procs, Row
<1> QED
  BY <1>1, <1>2, <1>3, <1>4, <1>5, <1>6 DEF IInv

(* A request takes the row of its higher wallet. *)
LEMMA LockSecondStep ==
  ASSUME IInv, NEW r \in Transfers, pc[r] = "lock_second",
         RowFree(SecondNumber(r)), status[SecondNumber(r)] = "active",
         TakeRow(r, SecondNumber(r), "debit")
  PROVE  IInv'
<1>a. \A q \in Transfers : /\ FirstNumber(q)' = FirstNumber(q)
                           /\ SecondNumber(q)' = SecondNumber(q)
  BY DEF FirstNumber, SecondNumber, LockOrder, tables, webhooks, RowFree, TakeRow, Goto
<1>b. /\ pc'[r] = "debit" /\ reply'[r] = reply[r]
      /\ \A q \in Procs \ {r} : pc'[q] = pc[q] /\ reply'[q] = reply[q]
  BY DEF IInv, TypeOK, Procs, RowFree, TakeRow, Goto
<1>c. UNCHANGED <<status, user, currency, balance, seq, keys, transactions,
                  keyLock, req, target, converted, reply, queue, posting,
                  posted, crashes>>
  BY DEF tables, locks, webhooks, RowFree, TakeRow, Goto
<1>d. /\ rowLock[SecondNumber(r)] = NoOne /\ rowLock'[SecondNumber(r)] = r
      /\ \A n \in Numbers \ {SecondNumber(r)} : rowLock'[n] = rowLock[n]
  BY BodyFacts, <1>b DEF IInv, TypeOK, RowFree, TakeRow, Goto
<1>1. TypeOK'
  <2>1. TypeOK
    BY DEF IInv
  <2>2. rowLock' \in [Numbers -> Procs \cup {NoOne}]
    BY <2>1, <1>d DEF TypeOK, Procs, RowFree, TakeRow, Goto
  <2>3. pc' \in [Procs -> Steps]
    BY <2>1, <1>d DEF TypeOK, Steps, DatabaseSteps, Procs, RowFree, TakeRow, Goto
  <2> QED
    BY <1>c, <2>1, <2>2, <2>3 DEF TypeOK
<1>2. BodiesKnown'
  BY <1>b, <1>c, <1>d, BodyFacts, NamesAssumption DEF IInv, BodiesKnown, KeySteps, Procs
<1>3. StepsHoldLocks'
  BY <1>a, <1>b, <1>c, <1>d, BodyFacts, NamesAssumption
  DEF IInv, StepsHoldLocks, KeySteps, FirstSteps, SecondSteps, Procs
<1>4. LocksHaveHolders'
  BY <1>a, <1>b, <1>c, <1>d, BodyFacts, NamesAssumption
  DEF IInv, LocksHaveHolders, KeySteps, FirstSteps, SecondSteps, Procs
<1>5. ChecksStand'
  BY <1>a, <1>b, <1>c, <1>d, BodyFacts, NamesAssumption
  DEF IInv, ChecksStand, KeySteps, FirstSteps, SecondSteps, CheckedSteps, Procs
<1>6. RecordsAgree'
  BY <1>b, <1>c, <1>d, BodyFacts, NamesAssumption
  DEF IInv, RecordsAgree, KeysMatchTransactions, DuplicateMeansRecorded,
      DeletedWalletsEmpty, Reported, Procs, Row
<1> QED
  BY <1>1, <1>2, <1>3, <1>4, <1>5, <1>6 DEF IInv

(* The debit passes its WHERE clause. *)
LEMMA DebitStep ==
  ASSUME IInv, NEW r \in Transfers, pc[r] = "debit",
         balance[req[r].from] >= req[r].amount,
         pc' = [pc EXCEPT ![r] = "credit"],
         UNCHANGED <<tables, locks, req, target, converted, reply, webhooks, crashes>>
  PROVE  IInv'
<1>a. \A q \in Transfers : /\ FirstNumber(q)' = FirstNumber(q)
                           /\ SecondNumber(q)' = SecondNumber(q)
  BY DEF FirstNumber, SecondNumber, LockOrder, tables, webhooks, tables, webhooks
<1>b. /\ pc'[r] = "credit" /\ reply'[r] = reply[r]
      /\ \A q \in Procs \ {r} : pc'[q] = pc[q] /\ reply'[q] = reply[q]
  BY DEF IInv, TypeOK, Procs, tables, webhooks
<1>c. UNCHANGED <<status, user, currency, balance, seq, keys, transactions,
                  keyLock, rowLock, req, target, converted, reply, queue,
                  posting, posted, crashes>>
  BY DEF tables, locks, webhooks, tables, webhooks
<1>1. TypeOK'
  <2>1. TypeOK
    BY DEF IInv
  <2>2. pc' \in [Procs -> Steps]
    BY <2>1 DEF TypeOK, Steps, DatabaseSteps, Procs, tables, webhooks
  <2> QED
    BY <1>c, <2>1, <2>2 DEF TypeOK
<1>2. BodiesKnown'
  BY <1>b, <1>c, BodyFacts, NamesAssumption DEF IInv, BodiesKnown, KeySteps, Procs
<1>3. StepsHoldLocks'
  BY <1>a, <1>b, <1>c, BodyFacts, NamesAssumption
  DEF IInv, StepsHoldLocks, KeySteps, FirstSteps, SecondSteps, Procs
<1>4. LocksHaveHolders'
  BY <1>a, <1>b, <1>c, BodyFacts, NamesAssumption
  DEF IInv, LocksHaveHolders, KeySteps, FirstSteps, SecondSteps, Procs
<1>5. ChecksStand'
  BY <1>a, <1>b, <1>c, BodyFacts, NamesAssumption
  DEF IInv, ChecksStand, KeySteps, FirstSteps, SecondSteps, CheckedSteps, Procs
<1>6. RecordsAgree'
  BY <1>b, <1>c, BodyFacts, NamesAssumption
  DEF IInv, RecordsAgree, KeysMatchTransactions, DuplicateMeansRecorded,
      DeletedWalletsEmpty, Reported, Procs, Row
<1> QED
  BY <1>1, <1>2, <1>3, <1>4, <1>5, <1>6 DEF IInv

(* The credit passes the CHECK of the receiver. *)
LEMMA CreditStep ==
  ASSUME IInv, NEW r \in Transfers, pc[r] = "credit",
         balance[req[r].to] + converted[r] \in 0 .. MaxInt,
         pc' = [pc EXCEPT ![r] = "insert_tx"],
         UNCHANGED <<tables, locks, req, target, converted, reply, webhooks, crashes>>
  PROVE  IInv'
<1>a. \A q \in Transfers : /\ FirstNumber(q)' = FirstNumber(q)
                           /\ SecondNumber(q)' = SecondNumber(q)
  BY DEF FirstNumber, SecondNumber, LockOrder, tables, webhooks, tables, webhooks
<1>b. /\ pc'[r] = "insert_tx" /\ reply'[r] = reply[r]
      /\ \A q \in Procs \ {r} : pc'[q] = pc[q] /\ reply'[q] = reply[q]
  BY DEF IInv, TypeOK, Procs, tables, webhooks
<1>c. UNCHANGED <<status, user, currency, balance, seq, keys, transactions,
                  keyLock, rowLock, req, target, converted, reply, queue,
                  posting, posted, crashes>>
  BY DEF tables, locks, webhooks, tables, webhooks
<1>1. TypeOK'
  <2>1. TypeOK
    BY DEF IInv
  <2>2. pc' \in [Procs -> Steps]
    BY <2>1 DEF TypeOK, Steps, DatabaseSteps, Procs, tables, webhooks
  <2> QED
    BY <1>c, <2>1, <2>2 DEF TypeOK
<1>2. BodiesKnown'
  BY <1>b, <1>c, BodyFacts, NamesAssumption DEF IInv, BodiesKnown, KeySteps, Procs
<1>3. StepsHoldLocks'
  BY <1>a, <1>b, <1>c, BodyFacts, NamesAssumption
  DEF IInv, StepsHoldLocks, KeySteps, FirstSteps, SecondSteps, Procs
<1>4. LocksHaveHolders'
  BY <1>a, <1>b, <1>c, BodyFacts, NamesAssumption
  DEF IInv, LocksHaveHolders, KeySteps, FirstSteps, SecondSteps, Procs
<1>5. ChecksStand'
  BY <1>a, <1>b, <1>c, BodyFacts, NamesAssumption
  DEF IInv, ChecksStand, KeySteps, FirstSteps, SecondSteps, CheckedSteps, Procs
<1>6. RecordsAgree'
  BY <1>b, <1>c, BodyFacts, NamesAssumption
  DEF IInv, RecordsAgree, KeysMatchTransactions, DuplicateMeansRecorded,
      DeletedWalletsEmpty, Reported, Procs, Row
<1> QED
  BY <1>1, <1>2, <1>3, <1>4, <1>5, <1>6 DEF IInv

(* The row is inserted. *)
LEMMA InsertTransactionStep ==
  ASSUME IInv, NEW r \in Transfers, pc[r] = "insert_tx",
         req[r].amount > 0,
         pc' = [pc EXCEPT ![r] = "commit"],
         UNCHANGED <<tables, locks, req, target, converted, reply, webhooks, crashes>>
  PROVE  IInv'
<1>a. \A q \in Transfers : /\ FirstNumber(q)' = FirstNumber(q)
                           /\ SecondNumber(q)' = SecondNumber(q)
  BY DEF FirstNumber, SecondNumber, LockOrder, tables, webhooks, tables, webhooks
<1>b. /\ pc'[r] = "commit" /\ reply'[r] = reply[r]
      /\ \A q \in Procs \ {r} : pc'[q] = pc[q] /\ reply'[q] = reply[q]
  BY DEF IInv, TypeOK, Procs, tables, webhooks
<1>c. UNCHANGED <<status, user, currency, balance, seq, keys, transactions,
                  keyLock, rowLock, req, target, converted, reply, queue,
                  posting, posted, crashes>>
  BY DEF tables, locks, webhooks, tables, webhooks
<1>1. TypeOK'
  <2>1. TypeOK
    BY DEF IInv
  <2>2. pc' \in [Procs -> Steps]
    BY <2>1 DEF TypeOK, Steps, DatabaseSteps, Procs, tables, webhooks
  <2> QED
    BY <1>c, <2>1, <2>2 DEF TypeOK
<1>2. BodiesKnown'
  BY <1>b, <1>c, BodyFacts, NamesAssumption DEF IInv, BodiesKnown, KeySteps, Procs
<1>3. StepsHoldLocks'
  BY <1>a, <1>b, <1>c, BodyFacts, NamesAssumption
  DEF IInv, StepsHoldLocks, KeySteps, FirstSteps, SecondSteps, Procs
<1>4. LocksHaveHolders'
  BY <1>a, <1>b, <1>c, BodyFacts, NamesAssumption
  DEF IInv, LocksHaveHolders, KeySteps, FirstSteps, SecondSteps, Procs
<1>5. ChecksStand'
  BY <1>a, <1>b, <1>c, BodyFacts, NamesAssumption
  DEF IInv, ChecksStand, KeySteps, FirstSteps, SecondSteps, CheckedSteps, Procs
<1>6. RecordsAgree'
  BY <1>b, <1>c, BodyFacts, NamesAssumption
  DEF IInv, RecordsAgree, KeysMatchTransactions, DuplicateMeansRecorded,
      DeletedWalletsEmpty, Reported, Procs, Row
<1> QED
  BY <1>1, <1>2, <1>3, <1>4, <1>5, <1>6 DEF IInv

(* A deletion finds the balance at zero. *)
LEMMA DeleteCheckStep ==
  ASSUME IInv, NEW d \in Deletes, pc[d] = "del_check",
         ~(balance[target[d][2]] > 0),
         pc' = [pc EXCEPT ![d] = "del_commit"],
         UNCHANGED <<tables, locks, req, target, converted, reply, webhooks, crashes>>
  PROVE  IInv'
<1>a. \A q \in Transfers : /\ FirstNumber(q)' = FirstNumber(q)
                           /\ SecondNumber(q)' = SecondNumber(q)
  BY DEF FirstNumber, SecondNumber, LockOrder, tables, webhooks, tables, webhooks
<1>b. /\ pc'[d] = "del_commit" /\ reply'[d] = reply[d]
      /\ \A q \in Procs \ {d} : pc'[q] = pc[q] /\ reply'[q] = reply[q]
  BY DEF IInv, TypeOK, Procs, tables, webhooks
<1>c. UNCHANGED <<status, user, currency, balance, seq, keys, transactions,
                  keyLock, rowLock, req, target, converted, reply, queue,
                  posting, posted, crashes>>
  BY DEF tables, locks, webhooks, tables, webhooks
<1>d. balance[target[d][2]] = 0
  <2>1. target[d][2] \in Numbers
    BY BodyFacts DEF IInv
  <2> QED
    BY <2>1 DEF IInv, TypeOK
<1>1. TypeOK'
  <2>1. TypeOK
    BY DEF IInv
  <2>2. pc' \in [Procs -> Steps]
    BY <2>1, <1>d DEF TypeOK, Steps, DatabaseSteps, Procs, tables, webhooks
  <2> QED
    BY <1>c, <2>1, <2>2 DEF TypeOK
<1>2. BodiesKnown'
  BY <1>b, <1>c, <1>d, BodyFacts, NamesAssumption DEF IInv, BodiesKnown, KeySteps, Procs
<1>3. StepsHoldLocks'
  BY <1>a, <1>b, <1>c, <1>d, BodyFacts, NamesAssumption
  DEF IInv, StepsHoldLocks, KeySteps, FirstSteps, SecondSteps, Procs
<1>4. LocksHaveHolders'
  BY <1>a, <1>b, <1>c, <1>d, BodyFacts, NamesAssumption
  DEF IInv, LocksHaveHolders, KeySteps, FirstSteps, SecondSteps, Procs
<1>5. ChecksStand'
  BY <1>a, <1>b, <1>c, <1>d, BodyFacts, NamesAssumption
  DEF IInv, ChecksStand, KeySteps, FirstSteps, SecondSteps, CheckedSteps, Procs
<1>6. RecordsAgree'
  BY <1>b, <1>c, <1>d, BodyFacts, NamesAssumption
  DEF IInv, RecordsAgree, KeysMatchTransactions, DuplicateMeansRecorded,
      DeletedWalletsEmpty, Reported, Procs, Row
<1> QED
  BY <1>1, <1>2, <1>3, <1>4, <1>5, <1>6 DEF IInv

(* A fresh key is inserted and held. *)
LEMMA InsertKeyStep ==
  ASSUME IInv, NEW r \in Transfers, pc[r] = "insert_key",
         keyLock[req[r].key] = NoOne, req[r].key \notin keys,
         keyLock' = [keyLock EXCEPT ![req[r].key] = r],
         pc' = [pc EXCEPT ![r] = "lock_first"],
         UNCHANGED <<tables, rowLock, req, target, converted, reply, webhooks, crashes>>
  PROVE  IInv'
<1>a. \A q \in Transfers : /\ FirstNumber(q)' = FirstNumber(q)
                           /\ SecondNumber(q)' = SecondNumber(q)
  BY DEF FirstNumber, SecondNumber, LockOrder, tables, webhooks, tables, webhooks
<1>b. /\ pc'[r] = "lock_first" /\ reply'[r] = reply[r]
      /\ \A q \in Procs \ {r} : pc'[q] = pc[q] /\ reply'[q] = reply[q]
  BY DEF IInv, TypeOK, Procs, tables, webhooks
<1>c. UNCHANGED <<status, user, currency, balance, seq, keys, transactions,
                  rowLock, req, target, converted, reply, queue, posting,
                  posted, crashes>>
  BY DEF tables, locks, webhooks, tables, webhooks
<1>d. /\ req[r].key \in Keys
      /\ keyLock'[req[r].key] = r
      /\ \A k \in Keys \ {req[r].key} : keyLock'[k] = keyLock[k]
  <2>1. req[r].key \in Keys
    BY BodyFacts DEF IInv
  <2> QED
    BY <2>1 DEF IInv, TypeOK
<1>1. TypeOK'
  <2>1. TypeOK
    BY DEF IInv
  <2>2. keyLock' \in [Keys -> Transfers \cup {NoOne}]
    BY <2>1, <1>d DEF TypeOK, tables, webhooks
  <2>3. pc' \in [Procs -> Steps]
    BY <2>1, <1>d DEF TypeOK, Steps, DatabaseSteps, Procs, tables, webhooks
  <2> QED
    BY <1>c, <2>1, <2>2, <2>3 DEF TypeOK
<1>2. BodiesKnown'
  BY <1>b, <1>c, <1>d, BodyFacts, NamesAssumption DEF IInv, BodiesKnown, KeySteps, Procs
<1>3. StepsHoldLocks'
  BY <1>a, <1>b, <1>c, <1>d, BodyFacts, NamesAssumption
  DEF IInv, StepsHoldLocks, KeySteps, FirstSteps, SecondSteps, Procs
<1>4. LocksHaveHolders'
  BY <1>a, <1>b, <1>c, <1>d, BodyFacts, NamesAssumption
  DEF IInv, LocksHaveHolders, KeySteps, FirstSteps, SecondSteps, Procs
<1>5. ChecksStand'
  BY <1>a, <1>b, <1>c, <1>d, BodyFacts, NamesAssumption
  DEF IInv, ChecksStand, KeySteps, FirstSteps, SecondSteps, CheckedSteps, Procs
<1>6. RecordsAgree'
  BY <1>b, <1>c, <1>d, BodyFacts, NamesAssumption
  DEF IInv, RecordsAgree, KeysMatchTransactions, DuplicateMeansRecorded,
      DeletedWalletsEmpty, Reported, Procs, Row
<1> QED
  BY <1>1, <1>2, <1>3, <1>4, <1>5, <1>6 DEF IInv

(* The event is queued and the success answered. *)
LEMMA PushWebhookStep ==
  ASSUME IInv, NEW r \in Transfers, PushWebhook(r)
  PROVE  IInv'
<1>a. \A q \in Transfers : /\ FirstNumber(q)' = FirstNumber(q)
                           /\ SecondNumber(q)' = SecondNumber(q)
  BY DEF FirstNumber, SecondNumber, LockOrder, tables, webhooks, PushWebhook, Answer, Goto
<1>b. /\ pc'[r] = "done" /\ reply'[r] = "ok"
      /\ \A q \in Procs \ {r} : pc'[q] = pc[q] /\ reply'[q] = reply[q]
  BY DEF IInv, TypeOK, Procs, PushWebhook, Answer, Goto
<1>c. UNCHANGED <<status, user, currency, balance, seq, keys, transactions,
                  keyLock, rowLock, req, target, converted, posting, posted,
                  crashes>>
  BY DEF tables, locks, webhooks, PushWebhook, Answer, Goto
<1>d. pc[r] = "push_webhook" /\ req[r].key \in Keys
  BY BodyFacts, <1>b DEF IInv, PushWebhook, Answer, Goto
<1>1. TypeOK'
  <2>1. TypeOK
    BY DEF IInv
  <2>2. pc' \in [Procs -> Steps]
    BY <2>1, <1>d DEF TypeOK, Steps, DatabaseSteps, Procs, PushWebhook, Answer, Goto
  <2>3. reply' \in [Procs -> {"none", "ok", "duplicate", "error"}]
    BY <2>1, <1>d DEF TypeOK, Procs, PushWebhook, Answer, Goto
  <2>4. queue' \in Seq(Keys)
    BY <2>1, <1>d DEF TypeOK, PushWebhook, Answer, Goto
  <2> QED
    BY <1>c, <2>1, <2>2, <2>3, <2>4 DEF TypeOK
<1>2. BodiesKnown'
  BY <1>b, <1>c, <1>d, BodyFacts, NamesAssumption DEF IInv, BodiesKnown, KeySteps, Procs
<1>3. StepsHoldLocks'
  BY <1>a, <1>b, <1>c, <1>d, BodyFacts, NamesAssumption
  DEF IInv, StepsHoldLocks, KeySteps, FirstSteps, SecondSteps, Procs
<1>4. LocksHaveHolders'
  BY <1>a, <1>b, <1>c, <1>d, BodyFacts, NamesAssumption
  DEF IInv, LocksHaveHolders, KeySteps, FirstSteps, SecondSteps, Procs
<1>5. ChecksStand'
  BY <1>a, <1>b, <1>c, <1>d, BodyFacts, NamesAssumption
  DEF IInv, ChecksStand, KeySteps, FirstSteps, SecondSteps, CheckedSteps, Procs
<1>6. RecordsAgree'
  BY <1>b, <1>c, <1>d, BodyFacts, NamesAssumption
  DEF IInv, RecordsAgree, KeysMatchTransactions, DuplicateMeansRecorded,
      DeletedWalletsEmpty, Reported, Procs, Row
<1> QED
  BY <1>1, <1>2, <1>3, <1>4, <1>5, <1>6 DEF IInv

(* A deletion arrives. *)
LEMMA SubmitDeleteStep ==
  ASSUME IInv, NEW d \in Deletes, NEW in \in Deletions, SubmitDelete(d, in)
  PROVE  IInv'
<1>a. \A q \in Transfers : /\ FirstNumber(q)' = FirstNumber(q)
                           /\ SecondNumber(q)' = SecondNumber(q)
  BY DEF FirstNumber, SecondNumber, LockOrder, tables, webhooks, SubmitDelete, Goto
<1>b. /\ pc'[d] = "del_lock" /\ reply'[d] = reply[d]
      /\ \A q \in Procs \ {d} : pc'[q] = pc[q] /\ reply'[q] = reply[q]
  BY DEF IInv, TypeOK, Procs, SubmitDelete, Goto
<1>c. UNCHANGED <<status, user, currency, balance, seq, keys, transactions,
                  keyLock, rowLock, req, converted, reply, queue, posting,
                  posted, crashes>>
  BY DEF tables, locks, webhooks, SubmitDelete, Goto
<1>d. /\ pc[d] = "idle" /\ target'[d] \in Deletions
      /\ \A q \in Deletes \ {d} : target'[q] = target[q]
  BY DEF IInv, TypeOK, SubmitDelete
<1>1. TypeOK'
  <2>1. TypeOK
    BY DEF IInv
  <2>2. pc' \in [Procs -> Steps]
    BY <2>1, <1>d DEF TypeOK, Steps, DatabaseSteps, Procs, SubmitDelete, Goto
  <2>3. target' \in [Deletes -> Deletions \cup {NoTarget}]
    BY <2>1, <1>d DEF TypeOK, SubmitDelete, Goto
  <2> QED
    BY <1>c, <2>1, <2>2, <2>3 DEF TypeOK
<1>2. BodiesKnown'
  BY <1>b, <1>c, <1>d, BodyFacts, NamesAssumption DEF IInv, BodiesKnown, KeySteps, Procs
<1>3. StepsHoldLocks'
  BY <1>a, <1>b, <1>c, <1>d, BodyFacts, NamesAssumption
  DEF IInv, StepsHoldLocks, KeySteps, FirstSteps, SecondSteps, Procs
<1>4. LocksHaveHolders'
  BY <1>a, <1>b, <1>c, <1>d, BodyFacts, NamesAssumption
  DEF IInv, LocksHaveHolders, KeySteps, FirstSteps, SecondSteps, Procs
<1>5. ChecksStand'
  BY <1>a, <1>b, <1>c, <1>d, BodyFacts, NamesAssumption
  DEF IInv, ChecksStand, KeySteps, FirstSteps, SecondSteps, CheckedSteps, Procs
<1>6. RecordsAgree'
  BY <1>b, <1>c, <1>d, BodyFacts, NamesAssumption
  DEF IInv, RecordsAgree, KeysMatchTransactions, DuplicateMeansRecorded,
      DeletedWalletsEmpty, Reported, Procs, Row
<1> QED
  BY <1>1, <1>2, <1>3, <1>4, <1>5, <1>6 DEF IInv

(* A deletion takes the row of an active wallet. *)
LEMMA DeleteLockStep ==
  ASSUME IInv, NEW d \in Deletes, pc[d] = "del_lock",
         RowFree(target[d][2]), status[target[d][2]] = "active",
         TakeRow(d, target[d][2], "del_check")
  PROVE  IInv'
<1>a. \A q \in Transfers : /\ FirstNumber(q)' = FirstNumber(q)
                           /\ SecondNumber(q)' = SecondNumber(q)
  BY DEF FirstNumber, SecondNumber, LockOrder, tables, webhooks, RowFree, TakeRow, Goto
<1>b. /\ pc'[d] = "del_check" /\ reply'[d] = reply[d]
      /\ \A q \in Procs \ {d} : pc'[q] = pc[q] /\ reply'[q] = reply[q]
  BY DEF IInv, TypeOK, Procs, RowFree, TakeRow, Goto
<1>c. UNCHANGED <<status, user, currency, balance, seq, keys, transactions,
                  keyLock, req, target, converted, reply, queue, posting,
                  posted, crashes>>
  BY DEF tables, locks, webhooks, RowFree, TakeRow, Goto
<1>d. /\ target[d][2] \in Numbers
      /\ rowLock[target[d][2]] = NoOne /\ rowLock'[target[d][2]] = d
      /\ \A n \in Numbers \ {target[d][2]} : rowLock'[n] = rowLock[n]
  <2>1. target[d][2] \in Numbers
    BY BodyFacts DEF IInv
  <2> QED
    BY <2>1 DEF IInv, TypeOK, RowFree, TakeRow
<1>1. TypeOK'
  <2>1. TypeOK
    BY DEF IInv
  <2>2. rowLock' \in [Numbers -> Procs \cup {NoOne}]
    BY <2>1, <1>d DEF TypeOK, Procs, RowFree, TakeRow, Goto
  <2>3. pc' \in [Procs -> Steps]
    BY <2>1, <1>d DEF TypeOK, Steps, DatabaseSteps, Procs, RowFree, TakeRow, Goto
  <2> QED
    BY <1>c, <2>1, <2>2, <2>3 DEF TypeOK
<1>2. BodiesKnown'
  BY <1>b, <1>c, <1>d, BodyFacts, NamesAssumption DEF IInv, BodiesKnown, KeySteps, Procs
<1>3. StepsHoldLocks'
  BY <1>a, <1>b, <1>c, <1>d, BodyFacts, NamesAssumption
  DEF IInv, StepsHoldLocks, KeySteps, FirstSteps, SecondSteps, Procs
<1>4. LocksHaveHolders'
  BY <1>a, <1>b, <1>c, <1>d, BodyFacts, NamesAssumption
  DEF IInv, LocksHaveHolders, KeySteps, FirstSteps, SecondSteps, Procs
<1>5. ChecksStand'
  BY <1>a, <1>b, <1>c, <1>d, BodyFacts, NamesAssumption
  DEF IInv, ChecksStand, KeySteps, FirstSteps, SecondSteps, CheckedSteps, Procs
<1>6. RecordsAgree'
  BY <1>b, <1>c, <1>d, BodyFacts, NamesAssumption
  DEF IInv, RecordsAgree, KeysMatchTransactions, DuplicateMeansRecorded,
      DeletedWalletsEmpty, Reported, Procs, Row
<1> QED
  BY <1>1, <1>2, <1>3, <1>4, <1>5, <1>6 DEF IInv

(* A deletion commits: the wallet it locked is empty. *)
LEMMA DeleteCommitStep ==
  ASSUME IInv, NEW d \in Deletes, DeleteCommit(d)
  PROVE  IInv'
<1>a. \A q \in Transfers : /\ FirstNumber(q)' = FirstNumber(q)
                           /\ SecondNumber(q)' = SecondNumber(q)
  BY DEF FirstNumber, SecondNumber, LockOrder, tables, webhooks, DeleteCommit, Release, Answer, Goto
<1>b. /\ pc'[d] = "done" /\ reply'[d] = "ok"
      /\ \A q \in Procs \ {d} : pc'[q] = pc[q] /\ reply'[q] = reply[q]
  BY DEF IInv, TypeOK, Procs, DeleteCommit, Release, Answer, Goto
<1>c. UNCHANGED <<user, currency, balance, seq, keys, transactions, req,
                  target, converted, queue, posting, posted, crashes>>
  BY DEF tables, locks, webhooks, DeleteCommit, Release, Answer, Goto
<1>d. /\ pc[d] = "del_commit" /\ target[d][2] \in Numbers
      /\ balance[target[d][2]] = 0 /\ rowLock[target[d][2]] = d
      /\ status[target[d][2]] = "active"
      /\ status'[target[d][2]] = "deleted"
      /\ \A n \in Numbers \ {target[d][2]} : status'[n] = status[n]
  <2>1. pc[d] = "del_commit"
    BY DEF DeleteCommit
  <2>2. target[d][2] \in Numbers
    BY <2>1, BodyFacts DEF IInv
  <2>3. /\ balance[target[d][2]] = 0 /\ rowLock[target[d][2]] = d
        /\ status[target[d][2]] = "active"
    BY <2>1 DEF IInv, ChecksStand, StepsHoldLocks
  <2> QED
    BY <2>1, <2>2, <2>3 DEF IInv, TypeOK, DeleteCommit
<1>e. /\ \A k \in Keys : keyLock'[k] = IF keyLock[k] = d THEN NoOne ELSE keyLock[k]
      /\ \A n \in Numbers : rowLock'[n] = IF rowLock[n] = d THEN NoOne ELSE rowLock[n]
  BY DEF DeleteCommit, Release
<1>1. TypeOK'
  BY <1>c, <1>d DEF IInv, TypeOK, Steps, Procs, DeleteCommit, Release, Answer, Goto
<1>2. BodiesKnown'
  BY <1>b, <1>c, <1>d, BodyFacts, NamesAssumption DEF IInv, BodiesKnown, KeySteps, Procs
<1>3. StepsHoldLocks'
  BY <1>a, <1>b, <1>c, <1>d, <1>e, BodyFacts, NamesAssumption
  DEF IInv, StepsHoldLocks, KeySteps, FirstSteps, SecondSteps, Procs
<1>4. LocksHaveHolders'
  BY <1>a, <1>b, <1>c, <1>d, <1>e, BodyFacts, NamesAssumption
  DEF IInv, LocksHaveHolders, KeySteps, FirstSteps, SecondSteps, Procs
<1>5. ChecksStand'
  BY <1>a, <1>b, <1>c, <1>d, BodyFacts, NamesAssumption
  DEF IInv, ChecksStand, StepsHoldLocks, KeySteps, FirstSteps, SecondSteps,
      CheckedSteps, Procs
<1>6. RecordsAgree'
  BY <1>b, <1>c, <1>d, BodyFacts, NamesAssumption
  DEF IInv, RecordsAgree, KeysMatchTransactions, DuplicateMeansRecorded,
      DeletedWalletsEmpty, Reported, Procs, Row
<1> QED
  BY <1>1, <1>2, <1>3, <1>4, <1>5, <1>6 DEF IInv

(* A commit moves the money of the rows it locked and records the transfer. *)
LEMMA CommitStep ==
  ASSUME IInv, NEW r \in Transfers, pc[r] = "commit", ApplyCommit(r),
         \/ Goto(r, "push_webhook") /\ UNCHANGED reply
         \/ Answer(r, "error")
  PROVE  IInv'
<1>a. \A q \in Transfers : /\ FirstNumber(q)' = FirstNumber(q)
                           /\ SecondNumber(q)' = SecondNumber(q)
  BY DEF FirstNumber, SecondNumber, LockOrder, tables, webhooks, ApplyCommit, Release, Answer, Goto
<1>b. /\ \/ pc'[r] = "push_webhook" /\ reply'[r] = reply[r]
         \/ pc'[r] = "done" /\ reply'[r] = "error"
      /\ \A q \in Procs \ {r} : pc'[q] = pc[q] /\ reply'[q] = reply[q]
  BY DEF IInv, TypeOK, Procs, ApplyCommit, Release, Answer, Goto
<1>c. UNCHANGED <<status, user, currency, seq, req, target, converted,
                  queue, posting, posted, crashes>>
  BY DEF tables, locks, webhooks, ApplyCommit, Release, Answer, Goto
<1>d. /\ req[r] \in Inputs /\ req[r].key \in Keys /\ req[r].from # req[r].to
      /\ req[r].from \in Numbers /\ req[r].to \in Numbers
      /\ req[r].amount \in Amounts /\ req[r].amount \in Int
      /\ req[r].key \notin keys /\ keyLock[req[r].key] = r
      /\ rowLock[req[r].from] = r /\ rowLock[req[r].to] = r
      /\ status[req[r].from] = "active" /\ status[req[r].to] = "active"
      /\ balance[req[r].from] >= req[r].amount
      /\ balance[req[r].to] + converted[r] \in 0 .. MaxInt
      /\ converted[r] \in Int
  <2>1. /\ req[r] \in Inputs /\ req[r].key \in Keys
        /\ req[r].from \in Numbers /\ req[r].to \in Numbers
        /\ req[r].amount \in Int
        /\ {FirstNumber(r), SecondNumber(r)} = {req[r].from, req[r].to}
    BY BodyFacts DEF IInv
  <2>2. /\ keyLock[req[r].key] = r
        /\ rowLock[FirstNumber(r)] = r /\ rowLock[SecondNumber(r)] = r
    BY DEF IInv, StepsHoldLocks, KeySteps, FirstSteps, SecondSteps
  <2>3. /\ req[r].from # req[r].to /\ req[r].key \notin keys
        /\ status[FirstNumber(r)] = "active" /\ status[SecondNumber(r)] = "active"
        /\ balance[req[r].from] >= req[r].amount
        /\ balance[req[r].to] + converted[r] \in 0 .. MaxInt
    BY DEF IInv, ChecksStand, KeySteps, FirstSteps, SecondSteps, CheckedSteps
  <2>4. req[r].amount \in Amounts /\ converted[r] \in Int
    BY <2>1, InputsAssumption DEF IInv, TypeOK
  <2> QED
    BY <2>1, <2>2, <2>3, <2>4
<1>e. /\ \A k \in Keys : keyLock'[k] = IF keyLock[k] = r THEN NoOne ELSE keyLock[k]
      /\ \A n \in Numbers : rowLock'[n] = IF rowLock[n] = r THEN NoOne ELSE rowLock[n]
  BY DEF ApplyCommit, Release
<1>f. /\ balance'[req[r].from] = balance[req[r].from] - req[r].amount
      /\ balance'[req[r].to] = balance[req[r].to] + converted[r]
      /\ \A n \in Numbers \ {req[r].from, req[r].to} : balance'[n] = balance[n]
  BY <1>d DEF IInv, TypeOK, ApplyCommit
<1>g. keys' = keys \cup {req[r].key} /\ transactions' = transactions \cup {Row(r)}
  BY DEF ApplyCommit
<1>h. balance' \in [Numbers -> Nat]
  <2> DEFINE paid == [balance EXCEPT ![req[r].from] = @ - req[r].amount]
  <2>1. paid \in [Numbers -> Nat] /\ paid[req[r].to] = balance[req[r].to]
    <3>1. balance \in [Numbers -> Nat] /\ balance[req[r].from] - req[r].amount \in Nat
      BY <1>d DEF IInv, TypeOK
    <3> QED
      BY <1>d, <3>1
  <2>2. balance' = [paid EXCEPT ![req[r].to] = @ + converted[r]]
    BY DEF ApplyCommit
  <2>3. balance[req[r].to] + converted[r] \in Nat
    BY <1>d
  <2> HIDE DEF paid
  <2> QED
    BY <2>1, <2>2, <2>3, <1>d
<1>1. TypeOK'
  <2>1. Row(r) \in [id : Keys, from : Numbers, to : Numbers,
                   amount : Amounts, converted : Int]
    BY <1>d DEF Row
  <2>2. keys' \subseteq Keys /\ transactions' \subseteq [id : Keys, from : Numbers,
          to : Numbers, amount : Amounts, converted : Int]
    BY <2>1, <1>d, <1>g DEF IInv, TypeOK
  <2>3. pc' \in [Procs -> Steps] /\ reply' \in [Procs -> {"none", "ok", "duplicate", "error"}]
    BY DEF IInv, TypeOK, Steps, Answer, Goto
  <2>4. keyLock' \in [Keys -> Transfers \cup {NoOne}] /\ rowLock' \in [Numbers -> Procs \cup {NoOne}]
    BY DEF IInv, TypeOK, ApplyCommit, Release
  <2> QED
    BY <2>2, <2>3, <2>4, <1>c, <1>h DEF IInv, TypeOK
<1>2. BodiesKnown'
  BY <1>b, <1>c, <1>d, BodyFacts, NamesAssumption DEF IInv, BodiesKnown, KeySteps, Procs
<1>3. StepsHoldLocks'
  BY <1>a, <1>b, <1>c, <1>d, <1>e, BodyFacts, NamesAssumption
  DEF IInv, StepsHoldLocks, KeySteps, FirstSteps, SecondSteps, Procs
<1>4. LocksHaveHolders'
  BY <1>a, <1>b, <1>c, <1>d, <1>e, BodyFacts, NamesAssumption
  DEF IInv, LocksHaveHolders, KeySteps, FirstSteps, SecondSteps, Procs
<1>5. ChecksStand'
  <2>1. ASSUME NEW q \in Transfers, q # r, pc[q] \in KeySteps
        PROVE  req[q].key \notin keys'
    BY <2>1, <1>d, <1>g DEF IInv, ChecksStand, StepsHoldLocks
  <2>2. ASSUME NEW q \in Transfers, q # r, pc[q] \in SecondSteps
        PROVE  balance'[req[q].from] = balance[req[q].from]
               /\ balance'[req[q].to] = balance[req[q].to]
    <3>1. /\ {FirstNumber(q), SecondNumber(q)} = {req[q].from, req[q].to}
          /\ req[q].from \in Numbers /\ req[q].to \in Numbers
      BY <2>2, BodyFacts DEF IInv, KeySteps, FirstSteps, SecondSteps
    <3>2. rowLock[FirstNumber(q)] = q /\ rowLock[SecondNumber(q)] = q
      BY <2>2 DEF IInv, StepsHoldLocks, KeySteps, FirstSteps, SecondSteps
    <3>3. rowLock[req[q].from] = q /\ rowLock[req[q].to] = q
      BY <3>1, <3>2
    <3>4. {req[q].from, req[q].to} \subseteq Numbers \ {req[r].from, req[r].to}
      BY <3>1, <3>3, <2>2, <1>d
    <3> QED
      BY <3>4, <1>f
  <2>3. ASSUME NEW d \in Deletes, pc[d] \in {"del_check", "del_commit"}
        PROVE  balance'[target[d][2]] = balance[target[d][2]]
    <3>1. target[d][2] \in Numbers /\ rowLock[target[d][2]] = d /\ d # r
      BY <2>3, BodyFacts, NamesAssumption DEF IInv, StepsHoldLocks
    <3> QED
      BY <3>1, <1>d, <1>f
  <2>4. ASSUME NEW q \in Transfers, pc'[q] \in {"insert_key"} \cup KeySteps
        PROVE  q # r /\ pc'[q] = pc[q]
    BY <2>4, <1>b DEF KeySteps, Procs
  <2>5. ASSUME NEW d \in Deletes PROVE pc'[d] = pc[d]
    BY <2>5, <1>b, NamesAssumption DEF Procs
  <2> QED
    BY <1>a, <1>c, <2>1, <2>2, <2>3, <2>4, <2>5
    DEF IInv, ChecksStand, KeySteps, FirstSteps, SecondSteps, CheckedSteps
<1>6. RecordsAgree'
  <2>1. KeysMatchTransactions'
    <3>1. Row(r).id = req[r].key
      BY DEF Row
    <3>2. keys = {t.id : t \in transactions}
          /\ \A t, u \in transactions : t.id = u.id => t = u
      BY DEF IInv, RecordsAgree, KeysMatchTransactions
    <3>3. \A t \in transactions : t.id # req[r].key
      BY <3>2, <1>d
    <3>4. keys' = {t.id : t \in transactions'}
      BY <3>1, <3>2, <1>g
    <3>5. \A t, u \in transactions' : t.id = u.id => t = u
      BY <3>1, <3>2, <3>3, <1>g
    <3> QED
      BY <3>4, <3>5 DEF KeysMatchTransactions
  <2>2. DuplicateMeansRecorded'
    BY <1>b, <1>c, <1>g DEF IInv, RecordsAgree, DuplicateMeansRecorded, Procs
  <2>3. DeletedWalletsEmpty'
    BY <1>c, <1>d, <1>f DEF IInv, RecordsAgree, DeletedWalletsEmpty
  <2>4. ASSUME NEW q \in Transfers PROVE Row(q)' = Row(q)
    BY <1>c DEF Row
  <2>5. ASSUME NEW q \in Transfers, Reported(q)'
        PROVE  q = r \/ (Reported(q) /\ req[q].key # req[r].key)
    <3>1. CASE q = r
      BY <3>1
    <3>2. CASE q # r
      <4>1. Reported(q)
        BY <2>5, <3>2, <1>b DEF Reported, Procs
      <4>2. Row(q) \in transactions
        BY <4>1 DEF IInv, RecordsAgree
      <4>3. Row(q).id = req[q].key
        BY DEF Row
      <4>4. req[q].key \in keys
        BY <4>2, <4>3 DEF IInv, RecordsAgree, KeysMatchTransactions
      <4> QED
        BY <4>1, <4>4, <1>d
    <3> QED
      BY <3>1, <3>2
  <2>6. \A q \in Transfers : reply'[q] # "none" => pc'[q] = "done"
    BY <1>b DEF IInv, RecordsAgree, Procs
  <2>7. \A q \in Transfers : Reported(q)' => Row(q)' \in transactions'
    BY <2>4, <2>5, <1>g DEF IInv, RecordsAgree
  <2>8. \A p, q \in Transfers :
          Reported(p)' /\ Reported(q)' /\ req'[p].key = req'[q].key => p = q
    BY <2>5, <1>c DEF IInv, RecordsAgree
  <2> QED
    BY <2>1, <2>2, <2>3, <2>6, <2>7, <2>8 DEF RecordsAgree
<1> QED
  BY <1>1, <1>2, <1>3, <1>4, <1>5, <1>6 DEF IInv

(* A transfer request arrives. *)
LEMMA SubmitStep ==
  ASSUME IInv, NEW r \in Transfers, NEW in \in Inputs, Submit(r, in)
  PROVE  IInv'
<1>b. /\ \/ pc'[r] = "read_sender" /\ reply'[r] = reply[r] /\ in.key # NoKey
         \/ pc'[r] = "done" /\ reply'[r] = "error"
      /\ \A q \in Procs \ {r} : pc'[q] = pc[q] /\ reply'[q] = reply[q]
  BY DEF IInv, TypeOK, Procs, Submit, Answer, Goto
<1>c. UNCHANGED <<status, user, currency, balance, seq, keys, transactions,
                  keyLock, rowLock, target, converted, queue, posting,
                  posted, crashes>>
  BY DEF tables, locks, webhooks, Submit, Answer, Goto
<1>d. /\ pc[r] = "idle" /\ req'[r] = in
      /\ \A q \in Transfers \ {r} : req'[q] = req[q]
  BY DEF IInv, TypeOK, Submit
<1>e. \A q \in Transfers \ {r} : /\ FirstNumber(q)' = FirstNumber(q)
                                 /\ SecondNumber(q)' = SecondNumber(q)
  BY <1>d DEF FirstNumber, SecondNumber, LockOrder
<1>1. TypeOK'
  <2>1. TypeOK
    BY DEF IInv
  <2>2. pc' \in [Procs -> Steps]
    <3>1. \E s \in Steps : Goto(r, s)
      BY DEF Steps, DatabaseSteps, Submit, Answer
    <3> QED
      BY <2>1, <3>1 DEF TypeOK, Procs, Goto
  <2>3. req' \in [Transfers -> Inputs \cup {NoInput}]
    BY <2>1, <1>d DEF TypeOK, Submit, Answer, Goto
  <2>4. reply' \in [Procs -> {"none", "ok", "duplicate", "error"}]
    BY <2>1, <1>d DEF TypeOK, Procs, Submit, Answer, Goto
  <2> QED
    BY <1>c, <2>1, <2>2, <2>3, <2>4 DEF TypeOK
<1>2. BodiesKnown'
  BY <1>b, <1>c, <1>d, BodyFacts, NamesAssumption DEF IInv, BodiesKnown, KeySteps, Procs
<1>3. StepsHoldLocks'
  BY <1>b, <1>c, <1>d, <1>e, BodyFacts, NamesAssumption
  DEF IInv, StepsHoldLocks, KeySteps, FirstSteps, SecondSteps, Procs
<1>4. LocksHaveHolders'
  BY <1>b, <1>c, <1>d, <1>e, BodyFacts, NamesAssumption
  DEF IInv, LocksHaveHolders, KeySteps, FirstSteps, SecondSteps, Procs
<1>5. ChecksStand'
  BY <1>b, <1>c, <1>d, <1>e, BodyFacts, NamesAssumption
  DEF IInv, ChecksStand, KeySteps, FirstSteps, SecondSteps, CheckedSteps, Procs
<1>6. RecordsAgree'
  BY <1>b, <1>c, <1>d, BodyFacts, NamesAssumption
  DEF IInv, RecordsAgree, KeysMatchTransactions, DuplicateMeansRecorded,
      DeletedWalletsEmpty, Reported, Procs, Row
<1> QED
  BY <1>1, <1>2, <1>3, <1>4, <1>5, <1>6 DEF IInv

(* A new wallet touches no wallet a request has read. *)
LEMMA CreateWalletStep ==
  ASSUME IInv, NEW u \in Users, NEW c \in Currencies, CreateWallet(u, c)
  PROVE  IInv'
<1>a. \A q \in Transfers : /\ FirstNumber(q)' = FirstNumber(q)
                           /\ SecondNumber(q)' = SecondNumber(q)
  BY DEF FirstNumber, SecondNumber, LockOrder, tables, webhooks, CreateWallet
<1>b. pc' = pc
  BY DEF IInv, TypeOK, Procs, CreateWallet
<1>c. UNCHANGED <<keys, transactions, keyLock, rowLock, pc, req, target,
                  converted, reply, queue, posting, posted, crashes>>
  BY DEF tables, locks, webhooks, CreateWallet
<1>d. /\ seq + 1 \in Numbers /\ seq' = seq + 1
      /\ status[seq + 1] = "absent" /\ status'[seq + 1] = "active"
      /\ \A n \in Numbers \ {seq + 1} :
           /\ status'[n] = status[n] /\ balance'[n] = balance[n]
           /\ currency'[n] = currency[n]
  <2>1. seq + 1 \in Numbers
    BY BoundsAssumption DEF IInv, TypeOK, CreateWallet, Numbers
  <2>2. status[seq + 1] = "absent"
    BY <2>1, BodyFacts DEF IInv, BodiesKnown
  <2> QED
    BY <2>1, <2>2 DEF IInv, TypeOK, CreateWallet
<1>1. TypeOK'
  BY <1>c, <1>d, BoundsAssumption DEF IInv, TypeOK, CreateWallet, Numbers
<1>2. BodiesKnown'
  BY <1>b, <1>c, <1>d, BodyFacts, NamesAssumption DEF IInv, BodiesKnown, KeySteps, Procs
<1>3. StepsHoldLocks'
  BY <1>a, <1>b, <1>c, <1>d, BodyFacts, NamesAssumption
  DEF IInv, StepsHoldLocks, KeySteps, FirstSteps, SecondSteps, Procs
<1>4. LocksHaveHolders'
  BY <1>a, <1>b, <1>c, <1>d, BodyFacts, NamesAssumption
  DEF IInv, LocksHaveHolders, KeySteps, FirstSteps, SecondSteps, Procs
<1>5. ChecksStand'
  <2>1. ASSUME NEW r \in Transfers, pc[r] \in {"insert_key"} \cup KeySteps
        PROVE  /\ req[r].from \in Numbers \ {seq + 1} /\ req[r].to \in Numbers \ {seq + 1}
               /\ FirstNumber(r) \in Numbers \ {seq + 1}
               /\ SecondNumber(r) \in Numbers \ {seq + 1}
    <3>1. req[r].from <= seq /\ req[r].to <= seq
      BY <2>1 DEF IInv, BodiesKnown
    <3>2. pc[r] \notin {"idle", "done"}
      BY <2>1 DEF KeySteps
    <3> QED
      BY <3>1, <3>2, BodyFacts DEF IInv
  <2>2. ASSUME NEW d \in Deletes, pc[d] \in {"del_check", "del_commit"}
        PROVE  target[d][2] \in Numbers \ {seq + 1}
    <3>1. target[d][2] \in Numbers
      BY <2>2, BodyFacts DEF IInv
    <3>2. status[target[d][2]] = "active"
      BY <2>2 DEF IInv, ChecksStand
    <3> QED
      BY <3>1, <3>2, <1>d
  <2>3. ASSUME NEW r \in Transfers, pc[r] \in {"insert_key"} \cup KeySteps
        PROVE  /\ status'[FirstNumber(r)] = status[FirstNumber(r)]
               /\ status'[SecondNumber(r)] = status[SecondNumber(r)]
               /\ balance'[req[r].from] = balance[req[r].from]
               /\ balance'[req[r].to] = balance[req[r].to]
               /\ currency'[req[r].from] = currency[req[r].from]
               /\ currency'[req[r].to] = currency[req[r].to]
    BY <2>1, <2>3, <1>d
  <2>4. ASSUME NEW d \in Deletes, pc[d] \in {"del_check", "del_commit"}
        PROVE  /\ status'[target[d][2]] = status[target[d][2]]
               /\ balance'[target[d][2]] = balance[target[d][2]]
    BY <2>2, <2>4, <1>d
  <2> QED
    BY <1>a, <1>b, <1>c, <2>3, <2>4
    DEF IInv, ChecksStand, KeySteps, FirstSteps, SecondSteps, CheckedSteps
<1>6. RecordsAgree'
  BY <1>b, <1>c, <1>d, BodyFacts, NamesAssumption
  DEF IInv, RecordsAgree, KeysMatchTransactions, DuplicateMeansRecorded,
      DeletedWalletsEmpty, Reported, Procs, Row
<1> QED
  BY <1>1, <1>2, <1>3, <1>4, <1>5, <1>6 DEF IInv

(* The webhook goroutine takes an event. *)
LEMMA TakeWebhookStep ==
  ASSUME IInv, TakeWebhook
  PROVE  IInv'
<1>a. \A q \in Transfers : /\ FirstNumber(q)' = FirstNumber(q)
                           /\ SecondNumber(q)' = SecondNumber(q)
  BY DEF FirstNumber, SecondNumber, LockOrder, tables, webhooks, TakeWebhook
<1>b. pc' = pc
  BY DEF IInv, TypeOK, Procs, TakeWebhook
<1>c. UNCHANGED <<status, user, currency, balance, seq, keys, transactions,
                  keyLock, rowLock, pc, req, target, converted, reply,
                  crashes>>
  BY DEF tables, locks, webhooks, TakeWebhook
<1>1. TypeOK'
  <2>1. TypeOK
    BY DEF IInv
  <2>2. queue' \in Seq(Keys)
    BY <2>1 DEF TypeOK, TakeWebhook
  <2>3. posting' \in Keys \cup {NoKey}
    BY <2>1 DEF TypeOK, TakeWebhook
  <2>4. posted' \in [Keys -> Nat]
    BY <2>1 DEF TypeOK, TakeWebhook
  <2> QED
    BY <1>c, <2>1, <2>2, <2>3, <2>4 DEF TypeOK
<1>2. BodiesKnown'
  BY <1>b, <1>c, BodyFacts, NamesAssumption DEF IInv, BodiesKnown, KeySteps, Procs
<1>3. StepsHoldLocks'
  BY <1>a, <1>b, <1>c, BodyFacts, NamesAssumption
  DEF IInv, StepsHoldLocks, KeySteps, FirstSteps, SecondSteps, Procs
<1>4. LocksHaveHolders'
  BY <1>a, <1>b, <1>c, BodyFacts, NamesAssumption
  DEF IInv, LocksHaveHolders, KeySteps, FirstSteps, SecondSteps, Procs
<1>5. ChecksStand'
  BY <1>a, <1>b, <1>c, BodyFacts, NamesAssumption
  DEF IInv, ChecksStand, KeySteps, FirstSteps, SecondSteps, CheckedSteps, Procs
<1>6. RecordsAgree'
  BY <1>b, <1>c, BodyFacts, NamesAssumption
  DEF IInv, RecordsAgree, KeysMatchTransactions, DuplicateMeansRecorded,
      DeletedWalletsEmpty, Reported, Procs, Row
<1> QED
  BY <1>1, <1>2, <1>3, <1>4, <1>5, <1>6 DEF IInv

(* A post returns. *)
LEMMA PostReturnsStep ==
  ASSUME IInv, PostReturns
  PROVE  IInv'
<1>a. \A q \in Transfers : /\ FirstNumber(q)' = FirstNumber(q)
                           /\ SecondNumber(q)' = SecondNumber(q)
  BY DEF FirstNumber, SecondNumber, LockOrder, tables, webhooks, PostReturns
<1>b. pc' = pc
  BY DEF IInv, TypeOK, Procs, PostReturns
<1>c. UNCHANGED <<status, user, currency, balance, seq, keys, transactions,
                  keyLock, rowLock, pc, req, target, converted, reply,
                  queue, posted, crashes>>
  BY DEF tables, locks, webhooks, PostReturns
<1>1. TypeOK'
  <2>1. TypeOK
    BY DEF IInv
  <2>2. posting' \in Keys \cup {NoKey}
    BY <2>1 DEF TypeOK, PostReturns
  <2> QED
    BY <1>c, <2>1, <2>2 DEF TypeOK
<1>2. BodiesKnown'
  BY <1>b, <1>c, BodyFacts, NamesAssumption DEF IInv, BodiesKnown, KeySteps, Procs
<1>3. StepsHoldLocks'
  BY <1>a, <1>b, <1>c, BodyFacts, NamesAssumption
  DEF IInv, StepsHoldLocks, KeySteps, FirstSteps, SecondSteps, Procs
<1>4. LocksHaveHolders'
  BY <1>a, <1>b, <1>c, BodyFacts, NamesAssumption
  DEF IInv, LocksHaveHolders, KeySteps, FirstSteps, SecondSteps, Procs
<1>5. ChecksStand'
  BY <1>a, <1>b, <1>c, BodyFacts, NamesAssumption
  DEF IInv, ChecksStand, KeySteps, FirstSteps, SecondSteps, CheckedSteps, Procs
<1>6. RecordsAgree'
  BY <1>b, <1>c, BodyFacts, NamesAssumption
  DEF IInv, RecordsAgree, KeysMatchTransactions, DuplicateMeansRecorded,
      DeletedWalletsEmpty, Reported, Procs, Row
<1> QED
  BY <1>1, <1>2, <1>3, <1>4, <1>5, <1>6 DEF IInv

(* A restart ends every running request and frees every lock. *)
LEMMA CrashStep ==
  ASSUME IInv, Crash
  PROVE  IInv'
<1>b. \A q \in Procs : /\ pc'[q] \in {"idle", "done"}
                       /\ pc[q] # "idle" => pc'[q] = "done"
                       /\ pc[q] \in {"idle", "done"} => pc'[q] = pc[q]
  BY DEF Crash
<1>c. UNCHANGED <<status, user, currency, balance, seq, keys, transactions,
                  req, target, converted, reply, posted>>
  BY DEF tables, Crash
<1>d. /\ \A k \in Keys : keyLock'[k] = NoOne
      /\ \A n \in Numbers : rowLock'[n] = NoOne
  BY DEF Crash
<1>1. TypeOK'
  <2>1. keyLock' \in [Keys -> Transfers \cup {NoOne}] /\ rowLock' \in [Numbers -> Procs \cup {NoOne}]
    BY DEF Crash
  <2>2. pc' \in [Procs -> Steps]
    BY DEF Crash, Steps
  <2>3. queue' \in Seq(Keys) /\ posting' \in Keys \cup {NoKey}
    BY DEF Crash
  <2>4. crashes' \in 0 .. MaxCrashes
    BY BoundsAssumption DEF IInv, TypeOK, Crash
  <2> QED
    BY <1>c, <2>1, <2>2, <2>3, <2>4 DEF IInv, TypeOK
<1>2. BodiesKnown'
  <2>1. \A r \in Transfers : pc'[r] \in {"idle", "done"}
    BY <1>b DEF Procs
  <2>2. \A d \in Deletes : pc'[d] \in {"idle", "done"}
    BY <1>b DEF Procs
  <2>3. \A n \in Numbers : status[n] = "absent" <=> n > seq
    BY DEF IInv, BodiesKnown
  <2> QED
    BY <1>c, <2>1, <2>2, <2>3 DEF BodiesKnown, KeySteps
<1>3. StepsHoldLocks' /\ LocksHaveHolders' /\ ChecksStand'
  <2>1. \A p \in Procs : pc'[p] \notin {"insert_key", "del_check", "del_commit"} \cup KeySteps
    BY <1>b DEF KeySteps
  <2>2. StepsHoldLocks'
    BY <2>1 DEF StepsHoldLocks, KeySteps, FirstSteps, SecondSteps, Procs
  <2>3. LocksHaveHolders'
    BY <1>d, NamesAssumption DEF LocksHaveHolders, Procs
  <2>4. ChecksStand'
    BY <2>1 DEF ChecksStand, KeySteps, FirstSteps, SecondSteps, CheckedSteps, Procs
  <2> QED
    BY <2>2, <2>3, <2>4
<1>4. RecordsAgree'
  <2>1. KeysMatchTransactions' /\ DuplicateMeansRecorded' /\ DeletedWalletsEmpty'
    BY <1>c DEF IInv, RecordsAgree, KeysMatchTransactions, DuplicateMeansRecorded,
                DeletedWalletsEmpty
  <2>2. ASSUME NEW r \in Transfers PROVE Row(r)' = Row(r) /\ (Reported(r)' => Reported(r))
    BY <1>b, <1>c DEF Row, Reported, Procs
  <2>3. \A r \in Transfers : reply'[r] # "none" => pc'[r] = "done"
    BY <1>b, <1>c DEF IInv, RecordsAgree, Procs
  <2> QED
    BY <1>c, <2>1, <2>2, <2>3 DEF IInv, RecordsAgree
<1> QED
  BY <1>1, <1>2, <1>3, <1>4 DEF IInv

(* A stuttering step. *)
LEMMA StutterStep ==
  ASSUME IInv, UNCHANGED vars
  PROVE  IInv'
<1>1. TypeOK'
  BY DEF IInv, TypeOK, vars
<1>2. BodiesKnown'
  BY DEF IInv, BodiesKnown, vars
<1>3. StepsHoldLocks'
  BY DEF IInv, StepsHoldLocks, FirstNumber, SecondNumber, LockOrder, vars
<1>4. LocksHaveHolders'
  BY DEF IInv, LocksHaveHolders, FirstNumber, SecondNumber, LockOrder, vars
<1>5. ChecksStand'
  BY DEF IInv, ChecksStand, FirstNumber, SecondNumber, LockOrder, vars
<1>6. RecordsAgree'
  BY DEF IInv, RecordsAgree, KeysMatchTransactions, DuplicateMeansRecorded,
         DeletedWalletsEmpty, Reported, Row, vars
<1> QED
  BY <1>1, <1>2, <1>3, <1>4, <1>5, <1>6 DEF IInv

(* Every step of a request that runs preserves the invariant: each statement
   either goes on, which has a lemma above, or rolls back. *)
LEMMA TransferStepKeeps ==
  ASSUME IInv, NEW r \in Transfers, TransferStep(r)
  PROVE  IInv'
<1>r. r \in Procs
  BY DEF Procs
<1>1. CASE ReadSender(r) \/ ReadReceiver(r) \/ PushWebhook(r)
  BY <1>1, ReadSenderStep, ReadReceiverStep, PushWebhookStep
<1>2. CASE InsertKey(r)
  <2>1. CASE req[r].key \in keys /\ Rollback(r, "duplicate")
    BY <1>r, <1>2, <2>1, RollbackStep DEF InsertKey, DatabaseSteps
  <2>2. CASE req[r].key \notin keys
    BY <1>2, <2>2, InsertKeyStep DEF InsertKey, Goto
  <2> QED
    BY <1>2, <2>1, <2>2 DEF InsertKey
<1>3. CASE LockFirst(r)
  <2>1. CASE Rollback(r, "error")
    BY <1>r, <1>3, <2>1, RollbackStep DEF LockFirst, DatabaseSteps
  <2>2. CASE status[FirstNumber(r)] = "active" /\ TakeRow(r, FirstNumber(r), "lock_second")
    BY <1>3, <2>2, LockFirstStep DEF LockFirst
  <2> QED
    BY <1>3, <2>1, <2>2 DEF LockFirst
<1>4. CASE LockSecond(r)
  <2>1. CASE Rollback(r, "error")
    BY <1>r, <1>4, <2>1, RollbackStep DEF LockSecond, DatabaseSteps
  <2>2. CASE status[SecondNumber(r)] = "active" /\ TakeRow(r, SecondNumber(r), "debit")
    BY <1>4, <2>2, LockSecondStep DEF LockSecond
  <2> QED
    BY <1>4, <2>1, <2>2 DEF LockSecond
<1>5. CASE Debit(r)
  <2>1. CASE Rollback(r, "error")
    BY <1>r, <1>5, <2>1, RollbackStep DEF Debit, DatabaseSteps
  <2>2. CASE ~Rollback(r, "error")
    BY <1>5, <2>2, DebitStep DEF Debit, Statement, Goto
  <2> QED
    BY <2>1, <2>2
<1>6. CASE Credit(r)
  <2>1. CASE Rollback(r, "error")
    BY <1>r, <1>6, <2>1, RollbackStep DEF Credit, DatabaseSteps
  <2>2. CASE ~Rollback(r, "error")
    BY <1>6, <2>2, CreditStep DEF Credit, Statement, Goto
  <2> QED
    BY <2>1, <2>2
<1>7. CASE InsertTransaction(r)
  <2>1. CASE Rollback(r, "error")
    BY <1>r, <1>7, <2>1, RollbackStep DEF InsertTransaction, DatabaseSteps
  <2>2. CASE ~Rollback(r, "error")
    BY <1>7, <2>2, InsertTransactionStep DEF InsertTransaction, Statement, Goto
  <2> QED
    BY <2>1, <2>2
<1>8. CASE Commit(r)
  BY <1>8, CommitStep DEF Commit
<1> QED
  BY <1>1, <1>2, <1>3, <1>4, <1>5, <1>6, <1>7, <1>8 DEF TransferStep

LEMMA DeleteStepKeeps ==
  ASSUME IInv, NEW d \in Deletes, DeleteStep(d)
  PROVE  IInv'
<1>r. d \in Procs
  BY DEF Procs
<1>1. CASE DeleteLock(d)
  <2>1. CASE Rollback(d, "error")
    BY <1>r, <1>1, <2>1, RollbackStep DEF DeleteLock, DatabaseSteps
  <2>2. CASE ~Rollback(d, "error")
    BY <1>1, <2>2, DeleteLockStep DEF DeleteLock
  <2> QED
    BY <2>1, <2>2
<1>2. CASE DeleteCheck(d)
  <2>1. CASE Rollback(d, "error")
    BY <1>r, <1>2, <2>1, RollbackStep DEF DeleteCheck, DatabaseSteps
  <2>2. CASE ~Rollback(d, "error")
    BY <1>2, <2>2, DeleteCheckStep DEF DeleteCheck, Statement, Goto
  <2> QED
    BY <2>1, <2>2
<1>3. CASE DeleteCommit(d)
  BY <1>3, DeleteCommitStep
<1> QED
  BY <1>1, <1>2, <1>3 DEF DeleteStep

LEMMA NextKeeps == IInv /\ [Next]_vars => IInv'
<1> SUFFICES ASSUME IInv, [Next]_vars PROVE IInv'
  OBVIOUS
<1>1. ASSUME NEW r \in Transfers, NEW in \in Inputs, Submit(r, in) PROVE IInv'
  BY <1>1, SubmitStep
<1>2. ASSUME NEW r \in Transfers, TransferStep(r) PROVE IInv'
  BY <1>2, TransferStepKeeps
<1>3. ASSUME NEW r \in Transfers, CommitUnacknowledged(r) PROVE IInv'
  BY <1>3, CommitStep DEF CommitUnacknowledged
<1>4. ASSUME NEW d \in Deletes, NEW in \in Deletions, SubmitDelete(d, in) PROVE IInv'
  BY <1>4, SubmitDeleteStep
<1>5. ASSUME NEW d \in Deletes, DeleteStep(d) PROVE IInv'
  BY <1>5, DeleteStepKeeps
<1>6. ASSUME NEW p \in Procs, Abort(p) PROVE IInv'
  BY <1>6, RollbackStep DEF Abort
<1>7. ASSUME NEW in \in Openings, CreateWallet(in[1], in[2]) PROVE IInv'
  <2>1. in[1] \in Users /\ in[2] \in Currencies
    BY InputsAssumption
  <2> QED
    BY <1>7, <2>1, CreateWalletStep
<1>8. CASE TakeWebhook
  BY <1>8, TakeWebhookStep
<1>9. CASE PostReturns
  BY <1>9, PostReturnsStep
<1>10. CASE Crash
  BY <1>10, CrashStep
<1>11. CASE UNCHANGED vars
  BY <1>11, StutterStep
<1> QED
  BY <1>1, <1>2, <1>3, <1>4, <1>5, <1>6, <1>7, <1>8, <1>9, <1>10, <1>11
  DEF Next, Quiet

(* In every reachable state of transfers, deletions, wallet creations and
   restarts, the locks are held by the requests at the steps that took them,
   what those requests checked under the locks still stands, and the
   idempotency keys, the recorded transfers and the replies agree. *)
THEOREM Safety == Spec => []IInv
<1>1. Init => IInv
  BY InitIInv
<1>2. IInv /\ [Next]_vars => IInv'
  BY NextKeeps
<1> QED
  BY <1>1, <1>2, PTL DEF Spec

-----------------------------------------------------------------------------
(* What follows from the invariant. *)

(* The tables, the locks and the requests keep their types; in particular no
   balance is ever negative. *)
THEOREM TypeCorrect == Spec => []TypeOK
<1>1. IInv => TypeOK
  BY DEF IInv
<1> QED
  BY <1>1, Safety, PTL

(* Idempotency keys and recorded transfers match one to one, whatever rolls
   back, crashes or arrives twice. *)
THEOREM KeysAreTransactions == Spec => []KeysMatchTransactions
<1>1. IInv => KeysMatchTransactions
  BY DEF IInv, RecordsAgree
<1> QED
  BY <1>1, Safety, PTL

(* Nobody is told "already processed" of a transfer that never happened. *)
THEOREM DuplicatesAreRecorded == Spec => []DuplicateMeansRecorded
<1>1. IInv => DuplicateMeansRecorded
  BY DEF IInv, RecordsAgree
<1> QED
  BY <1>1, Safety, PTL

(* A success reply stands for a transfer of its own. *)
THEOREM SuccessesAreRecorded == Spec => []SuccessMeansRecorded
<1>1. IInv => SuccessMeansRecorded
  <2> SUFFICES ASSUME IInv PROVE SuccessMeansRecorded
    OBVIOUS
  <2>1. \A r \in Transfers : reply[r] = "ok" => Reported(r)
    BY DEF Reported
  <2> QED
    BY <2>1 DEF IInv, RecordsAgree, SuccessMeansRecorded
<1> QED
  BY <1>1, Safety, PTL

(* Deleting a wallet never loses money, whichever transfers race with it. *)
THEOREM NoMoneyInDeletedWallets == Spec => []DeletedWalletsEmpty
<1>1. IInv => DeletedWalletsEmpty
  BY DEF IInv, RecordsAgree
<1> QED
  BY <1>1, Safety, PTL

(* A transfer commits on checks that still hold. *)
THEOREM CommitsAreChecked == Spec => []ChecksHoldAtCommit
<1>1. IInv => ChecksHoldAtCommit
  <2> SUFFICES ASSUME IInv, NEW r \in Transfers, pc[r] = "commit"
               PROVE  /\ status[req[r].from] = "active" /\ status[req[r].to] = "active"
                      /\ balance[req[r].from] >= req[r].amount
                      /\ req[r].key \notin keys
                      /\ converted[r] \in Conversions(req[r].amount,
                           currency[req[r].from], currency[req[r].to])
    BY DEF ChecksHoldAtCommit
  <2>1. {FirstNumber(r), SecondNumber(r)} = {req[r].from, req[r].to}
    BY BodyFacts DEF IInv
  <2>2. /\ status[FirstNumber(r)] = "active" /\ status[SecondNumber(r)] = "active"
        /\ balance[req[r].from] >= req[r].amount
        /\ req[r].key \notin keys
        /\ converted[r] \in Conversions(req[r].amount,
             currency[req[r].from], currency[req[r].to])
    BY DEF IInv, ChecksStand, KeySteps, FirstSteps, SecondSteps, CheckedSteps
  <2>3. status[req[r].from] = "active" /\ status[req[r].to] = "active"
    BY <2>1, <2>2
  <2> QED
    BY <2>2, <2>3
<1> QED
  BY <1>1, Safety, PTL

(* Transfers and deletions never wait for one another in a circle. *)
THEOREM NoWaitCycle == Spec => []WaitChainsAscend
<1>1. IInv => WaitChainsAscend
  <2> SUFFICES ASSUME IInv, NEW p \in Procs, NEW q \in Procs,
                      NEW m \in Numbers, NEW n \in Numbers,
                      WaitsFor(p, m), rowLock[m] = q, WaitsFor(q, n)
               PROVE  m < n
    BY DEF WaitChainsAscend
  <2>1. q \in Transfers
    BY NamesAssumption DEF IInv, LocksHaveHolders, WaitsFor, Procs
  <2>2. /\ pc[q] = "lock_second" /\ m = FirstNumber(q)
        /\ n = SecondNumber(q)
    BY <2>1, NamesAssumption
    DEF IInv, LocksHaveHolders, WaitsFor, KeySteps, FirstSteps, SecondSteps
  <2>3. /\ {FirstNumber(q), SecondNumber(q)} = {req[q].from, req[q].to}
        /\ req[q] \in Inputs
    BY <2>1, <2>2, BodyFacts DEF IInv
  <2>4. req[q].from # req[q].to
    BY <2>1, <2>2 DEF IInv, ChecksStand, KeySteps
  <2>5. m <= n /\ m # n
    BY <2>1, <2>2, <2>3, <2>4, LockOrderFacts
  <2> QED
    BY <2>5, BoundsAssumption DEF Numbers
<1> QED
  BY <1>1, Safety, PTL

-----------------------------------------------------------------------------
(* Refinement: the service implements AtomicTransfer. *)

LEMMA SameConversion ==
  \A a, f, t : Atomic!Conversions(a, f, t) = Conversions(a, f, t)
<1>1. \A x : Atomic!Products(x) = Products(x)
  BY DEF Atomic!Products, Products
<1>2. \A f, t : Atomic!GetRate(f, t) = GetRate(f, t)
  BY DEF Atomic!GetRate, Atomic!Rates, GetRate, Rates
<1>3. Atomic!Int64 = Int64
  BY DEF Atomic!Int64, Int64
<1> QED
  BY <1>1, <1>2, <1>3, Zenon DEF Atomic!Conversions, Conversions

(* A commit is the abstract transfer. *)
LEMMA CommitMoves ==
  ASSUME IInv, NEW r \in Transfers, pc[r] = "commit", ApplyCommit(r)
  PROVE  Atomic!Next
<1>1. /\ req[r] \in Inputs /\ req[r].key \in Keys
      /\ req[r].from \in Numbers /\ req[r].to \in Numbers
      /\ {FirstNumber(r), SecondNumber(r)} = {req[r].from, req[r].to}
  BY BodyFacts DEF IInv
<1>2. req[r].amount \in Amounts
  BY <1>1, InputsAssumption
<1>3. /\ status[FirstNumber(r)] = "active" /\ status[SecondNumber(r)] = "active"
      /\ req[r].from # req[r].to /\ req[r].amount > 0
      /\ balance[req[r].from] >= req[r].amount
      /\ req[r].key \notin keys
      /\ converted[r] \in Conversions(req[r].amount, currency[req[r].from],
                                      currency[req[r].to])
      /\ balance[req[r].to] + converted[r] \in 0 .. MaxInt
  BY DEF IInv, ChecksStand, KeySteps, FirstSteps, SecondSteps, CheckedSteps
<1>4. status[req[r].from] = "active" /\ status[req[r].to] = "active"
  BY <1>1, <1>3
<1>5. \A t \in transactions : t.id # req[r].key
  BY <1>3 DEF IInv, RecordsAgree, KeysMatchTransactions
<1>6. Atomic!Move(req[r].key, req[r].from, req[r].to, req[r].amount)
  BY <1>1, <1>3, <1>4, <1>5, SameConversion
  DEF Atomic!Move, ApplyCommit, Row, OpenNumbers
<1> QED
  BY <1>1, <1>2, <1>6 DEF Atomic!Next, Atomic!Numbers, Numbers

LEMMA StepSimulates ==
  IInv /\ [Next]_vars => [Atomic!Next]_(Atomic!vars)
<1> SUFFICES ASSUME IInv, [Next]_vars PROVE Atomic!Next \/ UNCHANGED Atomic!vars
  OBVIOUS
<1>t. UNCHANGED tables => UNCHANGED Atomic!vars
  BY DEF tables, Atomic!vars, OpenNumbers
<1>1. ASSUME NEW r \in Transfers, TransferStep(r)
      PROVE  Atomic!Next \/ UNCHANGED Atomic!vars
  <2>1. CASE Commit(r)
    BY <2>1, CommitMoves DEF Commit
  <2>2. CASE ~Commit(r)
    <3>1. UNCHANGED tables
      BY <1>1, <2>2 DEF TransferStep, ReadSender, ReadReceiver, InsertKey, LockFirst,
         LockSecond, Debit, Credit, InsertTransaction, PushWebhook, Statement,
         Rollback, TakeRow, tables
    <3> QED
      BY <3>1, <1>t
  <2> QED
    BY <2>1, <2>2
<1>2. ASSUME NEW d \in Deletes, DeleteStep(d)
      PROVE  Atomic!Next \/ UNCHANGED Atomic!vars
  <2>1. CASE DeleteCommit(d)
    <3>1. pc[d] = "del_commit"
      BY <2>1 DEF DeleteCommit
    <3>2. target[d][2] \in Numbers
      BY <3>1, BodyFacts DEF IInv
    <3>3. status[target[d][2]] = "active" /\ balance[target[d][2]] = 0
      BY <3>1 DEF IInv, ChecksStand
    <3>4. OpenNumbers' = OpenNumbers \ {target[d][2]}
      BY <2>1, <3>2 DEF DeleteCommit, OpenNumbers, IInv, TypeOK
    <3>5. Atomic!Close(target[d][2])
      BY <2>1, <3>2, <3>3, <3>4 DEF DeleteCommit, Atomic!Close, OpenNumbers
    <3> QED
      BY <3>2, <3>5 DEF Atomic!Next, Atomic!Numbers, Numbers
  <2>2. CASE ~DeleteCommit(d)
    <3>1. UNCHANGED tables
      BY <1>2, <2>2 DEF DeleteStep, DeleteLock, DeleteCheck, Statement, Rollback,
         TakeRow, tables
    <3> QED
      BY <3>1, <1>t
  <2> QED
    BY <2>1, <2>2
<1>3. ASSUME NEW in \in Openings, CreateWallet(in[1], in[2]) PROVE Atomic!Next
  <2>1. in[1] \in Users /\ in[2] \in Atomic!Currencies
    BY InputsAssumption DEF Currencies, Atomic!Currencies
  <2>2. seq + 1 \in Numbers
    BY <1>3, BoundsAssumption DEF IInv, TypeOK, CreateWallet, Numbers
  <2>3. OpenNumbers' = OpenNumbers \cup {seq + 1}
    BY <1>3, <2>2 DEF CreateWallet, OpenNumbers, IInv, TypeOK
  <2>4. Atomic!Open(in[1], in[2])
    BY <1>3, <2>2, <2>3 DEF CreateWallet, Atomic!Open, Atomic!Numbers, Numbers
  <2> QED
    BY <2>1, <2>4 DEF Atomic!Next
<1>4. ASSUME NEW r \in Transfers, CommitUnacknowledged(r) PROVE Atomic!Next
  BY <1>4, CommitMoves DEF CommitUnacknowledged
<1>5. CASE \/ \E r \in Transfers : \E in \in Inputs : Submit(r, in)
           \/ \E d \in Deletes : \E in \in Deletions : SubmitDelete(d, in)
           \/ \E p \in Procs : Abort(p)
           \/ TakeWebhook \/ PostReturns \/ Crash \/ UNCHANGED vars
  <2>1. UNCHANGED tables
    BY <1>5 DEF Submit, SubmitDelete, Abort, Rollback, TakeWebhook, PostReturns,
       Crash, vars, tables
  <2> QED
    BY <2>1, <1>t
<1> QED
  BY <1>1, <1>2, <1>3, <1>4, <1>5 DEF Next, Quiet

(* Whatever the interleaving of requests, rollbacks and restarts, the tables
   change as if each transfer, deletion and creation happened in one step. *)
THEOREM Refinement == Spec => ImplementsAtomic
<1>1. Init => Atomic!Init
  BY DEF Init, Atomic!Init, Atomic!Numbers, Numbers, OpenNumbers
<1>2. IInv /\ [Next]_vars => [Atomic!Next]_(Atomic!vars)
  BY StepSimulates
<1> QED
  BY <1>1, <1>2, Safety, PTL DEF Spec, ImplementsAtomic, Atomic!Spec
-----------------------------------------------------------------------------
(* An event is in the queue, or was taken, at most once, only for a recorded
   transfer, and not before the request that reports it has sent it. *)
EventsOnce ==
  /\ \A k \in Keys : posted[k] \in {0, 1} /\ (posted[k] = 1 => k \in keys)
  /\ \A i \in DOMAIN queue : queue[i] \in keys /\ posted[queue[i]] = 0
  /\ \A i, j \in DOMAIN queue : queue[i] = queue[j] => i = j
  /\ \A r \in Transfers : pc[r] = "push_webhook" =>
       /\ posted[req[r].key] = 0
       /\ \A i \in DOMAIN queue : queue[i] # req[r].key

(* A step that leaves the events alone and brings nobody to the send. *)
LEMMA EventsUndisturbed ==
  ASSUME EventsOnce, UNCHANGED <<queue, posted, keys>>,
         \A r \in Transfers : pc'[r] = "push_webhook" =>
           pc[r] = "push_webhook" /\ req'[r].key = req[r].key
  PROVE  EventsOnce'
BY DEF EventsOnce

(* The key of a request that is about to commit is new: no event carries it. *)
LEMMA CommitBringsEvent ==
  ASSUME IInv, EventsOnce, NEW r \in Transfers, pc[r] = "commit", ApplyCommit(r),
         \A q \in Transfers \ {r} : pc'[q] = pc[q]
  PROVE  EventsOnce'
<1>1. req[r].key \in Keys /\ req[r].key \notin keys
  BY BodyFacts DEF IInv, ChecksStand, KeySteps
<1>2. keys' = keys \cup {req[r].key} /\ UNCHANGED <<queue, posted, req>>
  BY DEF ApplyCommit, webhooks
<1>3. posted[req[r].key] = 0 /\ \A i \in DOMAIN queue : queue[i] # req[r].key
  BY <1>1 DEF EventsOnce
<1> QED
  BY <1>2, <1>3 DEF EventsOnce

(* Of the requests that share a key only one reports it, so its event is not
   yet in the queue and nobody else is about to send it. *)
LEMMA PushBringsEvent ==
  ASSUME IInv, EventsOnce, NEW r \in Transfers, PushWebhook(r)
  PROVE  EventsOnce'
<1> DEFINE k == req[r].key
<1>1. pc[r] = "push_webhook" /\ queue \in Seq(Keys) /\ pc \in [Procs -> Steps]
  BY DEF IInv, TypeOK, PushWebhook
<1>2. k \in Keys /\ k \in keys
  <2>1. k \in Keys
    BY <1>1, BodyFacts DEF IInv
  <2>2. Row(r) \in transactions
    BY <1>1 DEF IInv, RecordsAgree, Reported
  <2> QED
    BY <2>1, <2>2 DEF IInv, RecordsAgree, KeysMatchTransactions, Row
<1>3. \A q \in Transfers \ {r} : pc[q] = "push_webhook" => req[q].key # k
  BY <1>1 DEF IInv, RecordsAgree, Reported
<1>4. /\ queue' = Append(queue, k)
      /\ UNCHANGED <<posted, keys, req>>
      /\ pc'[r] = "done"
      /\ \A q \in Transfers \ {r} : pc'[q] = pc[q]
  BY <1>1 DEF PushWebhook, Answer, Goto, tables, Procs
<1>5. /\ DOMAIN queue = 1 .. Len(queue) /\ DOMAIN queue' = 1 .. (Len(queue) + 1)
      /\ \A i \in 1 .. Len(queue) : queue'[i] = queue[i]
      /\ queue'[Len(queue) + 1] = k /\ Len(queue) \in Nat
  BY <1>1, <1>2, <1>4
<1>6. posted[k] = 0 /\ \A i \in 1 .. Len(queue) : queue[i] # k
  BY <1>1, <1>5 DEF EventsOnce
<1>7. \A i \in DOMAIN queue' : queue'[i] \in keys /\ posted[queue'[i]] = 0
  BY <1>2, <1>5, <1>6 DEF EventsOnce
<1>8. \A i, j \in DOMAIN queue' : queue'[i] = queue'[j] => i = j
  BY <1>5, <1>6 DEF EventsOnce
<1>9. ASSUME NEW q \in Transfers, pc'[q] = "push_webhook"
      PROVE  posted[req[q].key] = 0 /\ \A i \in DOMAIN queue' : queue'[i] # req[q].key
  <2>1. q # r /\ pc[q] = "push_webhook"
    BY <1>4, <1>9
  <2> QED
    BY <1>3, <1>5, <2>1 DEF EventsOnce
<1> QED
  BY <1>4, <1>7, <1>8, <1>9 DEF EventsOnce

(* The event that leaves the queue is in it once and was not taken before. *)
LEMMA TakeMovesEvent ==
  ASSUME IInv, EventsOnce, TakeWebhook
  PROVE  EventsOnce'
<1> DEFINE k == queue[1]
<1>1. queue \in Seq(Keys) /\ queue # <<>> /\ posted \in [Keys -> Nat]
  BY DEF IInv, TypeOK, TakeWebhook
<1>2. /\ DOMAIN queue = 1 .. Len(queue) /\ DOMAIN queue' = 1 .. (Len(queue) - 1)
      /\ \A i \in 1 .. (Len(queue) - 1) : queue'[i] = queue[i + 1]
      /\ Len(queue) \in Nat /\ Len(queue) > 0 /\ 1 \in DOMAIN queue
  BY <1>1 DEF TakeWebhook
<1>3. k \in Keys /\ k \in keys /\ posted[k] = 0
  BY <1>1, <1>2 DEF EventsOnce
<1>4. /\ posted'[k] = 1
      /\ \A j \in Keys \ {k} : posted'[j] = posted[j]
      /\ UNCHANGED <<keys, req, pc>>
  BY <1>1, <1>3 DEF TakeWebhook, tables
<1>5. ASSUME NEW i \in DOMAIN queue'
      PROVE  queue'[i] # k /\ queue'[i] \in Keys
  <2>1. i \in Nat /\ i + 1 \in DOMAIN queue /\ i + 1 # 1 /\ queue'[i] = queue[i + 1]
    BY <1>2
  <2>2. queue[i + 1] \in Keys
    BY <1>1, <2>1
  <2> QED
    BY <1>2, <2>1, <2>2 DEF EventsOnce
<1>6. \A i \in DOMAIN queue' : queue'[i] \in keys /\ posted'[queue'[i]] = 0
  BY <1>2, <1>4, <1>5 DEF EventsOnce
<1>7. \A i, j \in DOMAIN queue' : queue'[i] = queue'[j] => i = j
  BY <1>2 DEF EventsOnce
<1>8. \A j \in Keys : posted'[j] \in {0, 1} /\ (posted'[j] = 1 => j \in keys)
  BY <1>3, <1>4 DEF EventsOnce
<1>9. ASSUME NEW r \in Transfers, pc[r] = "push_webhook"
      PROVE  /\ posted'[req[r].key] = 0
             /\ \A i \in DOMAIN queue' : queue'[i] # req[r].key
  <2>1. req[r].key \in Keys
    BY <1>9, BodyFacts DEF IInv
  <2>2. req[r].key # k
    BY <1>2, <1>9 DEF EventsOnce
  <2> QED
    BY <1>2, <1>4, <1>9, <2>1, <2>2 DEF EventsOnce
<1> QED
  BY <1>4, <1>6, <1>7, <1>8, <1>9 DEF EventsOnce

LEMMA EventsStep ==
  IInv /\ EventsOnce /\ [Next]_vars => EventsOnce'
<1> SUFFICES ASSUME IInv, EventsOnce, [Next]_vars PROVE EventsOnce'
  OBVIOUS
<1>p. pc \in [Procs -> Steps]
  BY DEF IInv, TypeOK
<1>1. ASSUME NEW r \in Transfers, TransferStep(r)
      PROVE  EventsOnce'
  <2>1. CASE Commit(r)
    BY <2>1, <1>p, CommitBringsEvent DEF Commit, Goto, Procs
  <2>2. CASE PushWebhook(r)
    BY <2>2, PushBringsEvent
  <2>3. CASE ~Commit(r) /\ ~PushWebhook(r)
    <3>1. UNCHANGED <<queue, posted, keys, req>>
      BY <1>1, <2>3 DEF TransferStep, ReadSender, ReadReceiver, InsertKey, LockFirst,
         LockSecond, Debit, Credit, InsertTransaction, Statement, Rollback, TakeRow,
         tables, webhooks
    <3>2. \E s \in Steps \ {"push_webhook"} : Goto(r, s)
      BY <1>1, <2>3 DEF TransferStep, ReadSender, ReadReceiver, InsertKey, LockFirst,
         LockSecond, Debit, Credit, InsertTransaction, Statement, Rollback, TakeRow,
         Answer, Steps, DatabaseSteps
    <3>3. \A q \in Transfers : pc'[q] = "push_webhook" => pc[q] = "push_webhook"
      BY <3>2, <1>p DEF Goto, Procs
    <3> QED
      BY <3>1, <3>3, EventsUndisturbed
  <2> QED
    BY <2>1, <2>2, <2>3
<1>2. ASSUME NEW d \in Deletes, DeleteStep(d)
      PROVE  EventsOnce'
  <2>1. UNCHANGED <<queue, posted, keys, req>>
    BY <1>2 DEF DeleteStep, DeleteLock, DeleteCheck, DeleteCommit, Statement, Rollback,
       TakeRow, tables, webhooks
  <2>2. \E s \in Steps \ {"push_webhook"} : Goto(d, s)
    BY <1>2 DEF DeleteStep, DeleteLock, DeleteCheck, DeleteCommit, Statement, Rollback,
       TakeRow, Answer, Steps, DatabaseSteps
  <2>3. \A q \in Transfers : pc'[q] = "push_webhook" => pc[q] = "push_webhook"
    BY <2>2, <1>p DEF Goto, Procs
  <2> QED
    BY <2>1, <2>3, EventsUndisturbed
<1>3. ASSUME NEW r \in Transfers, CommitUnacknowledged(r) PROVE EventsOnce'
  BY <1>3, <1>p, CommitBringsEvent DEF CommitUnacknowledged, Answer, Goto, Procs
<1>4. ASSUME NEW r \in Transfers, NEW in \in Inputs, Submit(r, in) PROVE EventsOnce'
  <2>1. pc[r] = "idle" /\ UNCHANGED <<queue, posted, keys>>
    BY <1>4 DEF Submit, tables, webhooks
  <2>2. /\ pc'[r] \in {"done", "read_sender"}
        /\ \A q \in Transfers \ {r} : pc'[q] = pc[q] /\ req'[q] = req[q]
    BY <1>4, <1>p DEF Submit, Answer, Goto, Procs, IInv, TypeOK
  <2> QED
    BY <2>1, <2>2, EventsUndisturbed
<1>5. ASSUME NEW d \in Deletes, NEW in \in Deletions, SubmitDelete(d, in)
      PROVE  EventsOnce'
  <2>1. UNCHANGED <<queue, posted, keys, req>>
    BY <1>5 DEF SubmitDelete, tables, webhooks
  <2>2. \A q \in Transfers : pc'[q] = "push_webhook" => pc[q] = "push_webhook"
    BY <1>5, <1>p DEF SubmitDelete, Goto, Procs
  <2> QED
    BY <2>1, <2>2, EventsUndisturbed
<1>6. ASSUME NEW p \in Procs, Abort(p) PROVE EventsOnce'
  <2>1. UNCHANGED <<queue, posted, keys, req>>
    BY <1>6 DEF Abort, Rollback, tables, webhooks
  <2>2. \A q \in Transfers : pc'[q] = "push_webhook" => pc[q] = "push_webhook"
    BY <1>6, <1>p DEF Abort, Rollback, Answer, Goto, Procs
  <2> QED
    BY <2>1, <2>2, EventsUndisturbed
<1>7. CASE \/ \E in \in Openings : CreateWallet(in[1], in[2])
           \/ PostReturns \/ UNCHANGED vars
  <2>1. UNCHANGED <<queue, posted, keys, pc, req>>
    BY <1>7 DEF CreateWallet, PostReturns, vars, tables, webhooks
  <2> QED
    BY <2>1, EventsUndisturbed
<1>8. CASE TakeWebhook
  BY <1>8, TakeMovesEvent
<1>9. CASE Crash
  <2>1. queue' = <<>> /\ UNCHANGED <<posted, keys>>
    BY <1>9 DEF Crash, tables
  <2>2. \A r \in Transfers : pc'[r] # "push_webhook"
    BY <1>9 DEF Crash, Procs
  <2> QED
    BY <2>1, <2>2 DEF EventsOnce
<1> QED
  BY <1>1, <1>2, <1>3, <1>4, <1>5, <1>6, <1>7, <1>8, <1>9 DEF Next, Quiet

(* However requests repeat an ID and wherever the server stops, at most one
   event is sent for a transfer, and none for one that is not recorded. *)
THEOREM WebhooksOnce == Spec => []WebhookOncePerTransfer
<1>1. Init => EventsOnce
  BY DEF Init, EventsOnce, Procs
<1>2. IInv /\ EventsOnce => WebhookOncePerTransfer
  <2> DEFINE Places(k) == {i \in DOMAIN queue : queue[i] = k}
             events(k) == posted[k] + Cardinality(Places(k))
  <2> SUFFICES ASSUME IInv, EventsOnce, NEW k \in Keys
               PROVE  events(k) <= 1 /\ (events(k) = 1 => k \in keys)
    BY DEF WebhookOncePerTransfer
  <2>1. posted[k] \in {0, 1} /\ (posted[k] = 1 => k \in keys)
    BY DEF EventsOnce
  <2>2. ASSUME NEW i \in Places(k) PROVE k \in keys /\ posted[k] = 0 /\ Places(k) = {i}
    BY <2>2 DEF EventsOnce
  <2>3. CASE Places(k) = {}
    <3>1. Cardinality(Places(k)) = 0
      BY <2>3, FS_EmptySet
    <3> HIDE DEF Places
    <3> QED
      BY <2>1, <3>1
  <2>4. CASE Places(k) # {}
    <3>1. PICK i \in Places(k) : TRUE
      BY <2>4
    <3>2. k \in keys /\ posted[k] = 0 /\ Places(k) = {i}
      BY <2>2, <3>1
    <3>3. Cardinality(Places(k)) = 1
      BY <3>2, FS_Singleton
    <3> HIDE DEF Places
    <3> QED
      BY <3>2, <3>3
  <2> QED
    BY <2>3, <2>4
<1>3. IInv /\ EventsOnce /\ [Next]_vars => EventsOnce'
  BY EventsStep
<1> QED
  BY <1>1, <1>2, <1>3, Safety, PTL DEF Spec

-----------------------------------------------------------------------------
(* The balances are what the recorded transfers make of the opening balances;
   a record names wallets that were created before it was written. *)
HistoryInv ==
  /\ IsFiniteSet(transactions)
  /\ \A t \in transactions : t.from <= seq /\ t.to <= seq
  /\ BalancesMatchHistory

LEMMA EffectType ==
  ASSUME IInv, NEW n
  PROVE  \A t \in transactions : Effect(n)[t] \in Int
<1> TAKE t \in transactions
<1>1. t.converted \in Int /\ t.amount \in Int
  BY InputsAssumption DEF IInv, TypeOK
<1>2. Effect(n)[t] = (IF t.to = n THEN t.converted ELSE 0)
                     - (IF t.from = n THEN t.amount ELSE 0)
  BY DEF Effect
<1> QED
  BY <1>1, <1>2

LEMMA InitHistory == Init => HistoryInv
<1> SUFFICES ASSUME Init PROVE HistoryInv
  OBVIOUS
<1>1. transactions = {} /\ IsFiniteSet(transactions)
  BY FS_EmptySet DEF Init
<1>2. ASSUME NEW n \in Numbers, status[n] # "absent"
      PROVE  balance[n] = (IF n <= SeedCount THEN SeedWallet[n].balance ELSE 0) + NetOf(n)
  <2>1. n <= SeedCount /\ balance[n] = SeedWallet[n].balance
    BY <1>2 DEF Init
  <2>2. balance[n] \in Nat
    BY <2>1, InputsAssumption
  <2>3. NetOf(n) = 0
    <3>1. DOMAIN Effect(n) = transactions
      BY DEF Effect
    <3>2. SumFunctionOnSet(Effect(n), transactions) = 0
      BY <1>1, SumZero
    <3> QED
      BY <3>1, <3>2 DEF NetOf, SumFunction
  <2> QED
    BY <2>1, <2>2, <2>3
<1> QED
  BY <1>1, <1>2 DEF HistoryInv, BalancesMatchHistory

(* A step that writes no record and no balance and creates no wallet. *)
LEMMA HistoryUndisturbed ==
  ASSUME HistoryInv, UNCHANGED <<balance, seq, transactions>>,
         \A n \in Numbers : status'[n] # "absent" => status[n] # "absent"
  PROVE  HistoryInv'
BY DEF HistoryInv, BalancesMatchHistory, NetOf, Effect

(* The commit writes one new record, and the two balances it says. *)
LEMMA CommitWritesHistory ==
  ASSUME IInv, HistoryInv, NEW r \in Transfers, pc[r] = "commit", ApplyCommit(r)
  PROVE  HistoryInv'
<1> DEFINE a == req[r].from
           b == req[r].to
<1>1. /\ a \in Numbers /\ b \in Numbers /\ a # b /\ a <= seq /\ b <= seq
      /\ req[r].amount \in Int /\ converted[r] \in Int
      /\ req[r].key \notin keys
  BY BodyFacts, InputsAssumption
  DEF IInv, TypeOK, BodiesKnown, ChecksStand, KeySteps
<1>2. Row(r) \notin transactions
  BY <1>1 DEF IInv, RecordsAgree, KeysMatchTransactions, Row
<1>3. transactions' = transactions \cup {Row(r)} /\ UNCHANGED <<seq, status>>
  BY DEF ApplyCommit
<1>4. /\ balance'[a] = balance[a] - req[r].amount
      /\ balance'[b] = balance[b] + converted[r]
      /\ \A n \in Numbers \ {a, b} : balance'[n] = balance[n]
  BY <1>1 DEF ApplyCommit, IInv, TypeOK
<1>5. IsFiniteSet(transactions')
  BY <1>3, FS_AddElement DEF HistoryInv
<1>6. \A t \in transactions' : t.from <= seq /\ t.to <= seq
  BY <1>1, <1>3 DEF HistoryInv, Row
<1>7. ASSUME NEW n \in Numbers
      PROVE  /\ NetOf(n)' = NetOf(n) + (IF b = n THEN converted[r] ELSE 0)
                                      - (IF a = n THEN req[r].amount ELSE 0)
             /\ NetOf(n) \in Int
  <2> DEFINE f == Effect(n)
             g == Effect(n)'
  <2>1. DOMAIN f = transactions /\ DOMAIN g = transactions \cup {Row(r)}
    BY <1>3 DEF Effect
  <2>2. \A t \in transactions : f[t] \in Int /\ g[t] = f[t]
    <3>1. \A t \in transactions : g[t] = f[t]
      BY <1>3 DEF Effect
    <3> QED
      BY <3>1, EffectType
  <2>3. /\ g[Row(r)] = (IF b = n THEN converted[r] ELSE 0)
                        - (IF a = n THEN req[r].amount ELSE 0)
        /\ g[Row(r)] \in Int
    BY <1>1, <1>3 DEF Effect, Row
  <2>4. NetOf(n) = SumFunctionOnSet(f, transactions)
    BY <2>1 DEF NetOf, SumFunction
  <2>5. NetOf(n)' = SumFunctionOnSet(g, transactions \cup {Row(r)})
    BY <2>1 DEF NetOf, SumFunction
  <2> HIDE DEF f, g
  <2>6. SumFunctionOnSet(g, transactions \cup {Row(r)})
          = SumFunctionOnSet(f, transactions) + g[Row(r)]
    BY <1>2, <2>2, <2>3, SumGrows DEF HistoryInv
  <2>7. SumFunctionOnSet(f, transactions) \in Int
    BY <2>2, SumType DEF HistoryInv
  <2> QED
    BY <1>1, <2>3, <2>4, <2>5, <2>6, <2>7
<1>8. ASSUME NEW n \in Numbers, status'[n] # "absent"
      PROVE  balance'[n] = (IF n <= SeedCount THEN SeedWallet[n].balance ELSE 0) + NetOf(n)'
  <2> DEFINE opening == IF n <= SeedCount THEN SeedWallet[n].balance ELSE 0
  <2>1. balance[n] = opening + NetOf(n)
    BY <1>3, <1>8 DEF HistoryInv, BalancesMatchHistory
  <2>2. opening \in Int
    BY InputsAssumption
  <2> HIDE DEF opening
  <2>3. balance'[n] = opening + NetOf(n)'
    BY <1>1, <1>4, <1>7, <2>1, <2>2
  <2> QED
    BY <2>3 DEF opening
<1> QED
  BY <1>3, <1>5, <1>6, <1>8 DEF HistoryInv, BalancesMatchHistory

(* No record names a wallet that is created after it. *)
LEMMA NewWalletHasNoHistory ==
  ASSUME IInv, HistoryInv, NEW in \in Openings, CreateWallet(in[1], in[2])
  PROVE  HistoryInv'
<1> DEFINE m == seq + 1
<1>1. /\ seq' = m /\ seq \in Nat /\ SeedCount \in Nat /\ SeedCount <= seq
      /\ UNCHANGED transactions /\ m \in Numbers
      /\ transactions \subseteq [id : Keys, from : Numbers, to : Numbers,
                                 amount : Amounts, converted : Int]
  BY BoundsAssumption DEF CreateWallet, IInv, TypeOK, Numbers
<1>2. /\ balance'[m] = 0
      /\ \A n \in Numbers \ {m} : balance'[n] = balance[n] /\ status'[n] = status[n]
  BY <1>1 DEF CreateWallet, IInv, TypeOK
<1>3. \A n \in Numbers : NetOf(n)' = NetOf(n)
  BY <1>1 DEF NetOf, Effect
<1>4. NetOf(m) = 0
  <2>1. \A t \in transactions : t.from # m /\ t.to # m
    BY <1>1 DEF HistoryInv, Numbers
  <2>2. DOMAIN Effect(m) = transactions /\ \A t \in transactions : Effect(m)[t] = 0
    BY <2>1 DEF Effect
  <2>3. SumFunctionOnSet(Effect(m), transactions) = 0
    BY <2>2, SumZero DEF HistoryInv
  <2> QED
    BY <2>2, <2>3 DEF NetOf, SumFunction
<1>5. ASSUME NEW n \in Numbers, status'[n] # "absent"
      PROVE  balance'[n] = (IF n <= SeedCount THEN SeedWallet[n].balance ELSE 0) + NetOf(n)'
  <2>1. CASE n = m
    BY <1>1, <1>2, <1>3, <1>4, <2>1
  <2>2. CASE n # m
    BY <1>2, <1>3, <1>5, <2>2 DEF HistoryInv, BalancesMatchHistory
  <2> QED
    BY <2>1, <2>2
<1>6. \A t \in transactions' : t.from <= seq' /\ t.to <= seq'
  BY <1>1 DEF HistoryInv, Numbers
<1> QED
  BY <1>1, <1>5, <1>6 DEF HistoryInv, BalancesMatchHistory

LEMMA HistoryStep ==
  IInv /\ HistoryInv /\ [Next]_vars => HistoryInv'
<1> SUFFICES ASSUME IInv, HistoryInv, [Next]_vars PROVE HistoryInv'
  OBVIOUS
<1>1. ASSUME NEW r \in Transfers, TransferStep(r) PROVE HistoryInv'
  <2>1. CASE Commit(r)
    BY <2>1, CommitWritesHistory DEF Commit
  <2>2. CASE ~Commit(r)
    <3>1. UNCHANGED tables
      BY <1>1, <2>2 DEF TransferStep, ReadSender, ReadReceiver, InsertKey, LockFirst,
         LockSecond, Debit, Credit, InsertTransaction, PushWebhook, Statement,
         Rollback, TakeRow, tables
    <3> QED
      BY <3>1, HistoryUndisturbed DEF tables
  <2> QED
    BY <2>1, <2>2
<1>2. ASSUME NEW d \in Deletes, DeleteStep(d) PROVE HistoryInv'
  <2>1. CASE DeleteCommit(d)
    <3>1. pc[d] = "del_commit" /\ UNCHANGED <<balance, seq, transactions>>
      BY <2>1 DEF DeleteCommit
    <3>2. status[target[d][2]] = "active"
      BY <3>1 DEF IInv, ChecksStand
    <3>3. \A n \in Numbers : status'[n] # "absent" => status[n] # "absent"
      BY <2>1, <3>2 DEF DeleteCommit, IInv, TypeOK
    <3> QED
      BY <3>1, <3>3, HistoryUndisturbed
  <2>2. CASE ~DeleteCommit(d)
    <3>1. UNCHANGED tables
      BY <1>2, <2>2 DEF DeleteStep, DeleteLock, DeleteCheck, Statement, Rollback,
         TakeRow, tables
    <3> QED
      BY <3>1, HistoryUndisturbed DEF tables
  <2> QED
    BY <2>1, <2>2
<1>3. ASSUME NEW in \in Openings, CreateWallet(in[1], in[2]) PROVE HistoryInv'
  BY <1>3, NewWalletHasNoHistory
<1>4. ASSUME NEW r \in Transfers, CommitUnacknowledged(r) PROVE HistoryInv'
  BY <1>4, CommitWritesHistory DEF CommitUnacknowledged
<1>5. CASE \/ \E r \in Transfers : \E in \in Inputs : Submit(r, in)
           \/ \E d \in Deletes : \E in \in Deletions : SubmitDelete(d, in)
           \/ \E p \in Procs : Abort(p)
           \/ TakeWebhook \/ PostReturns \/ Crash \/ UNCHANGED vars
  <2>1. UNCHANGED tables
    BY <1>5 DEF Submit, SubmitDelete, Abort, Rollback, TakeWebhook, PostReturns,
       Crash, vars, tables
  <2> QED
    BY <2>1, HistoryUndisturbed DEF tables
<1> QED
  BY <1>1, <1>2, <1>3, <1>4, <1>5 DEF Next, Quiet

(* Whatever the interleaving, each balance is the opening balance plus what
   the recorded transfers brought less what they took. *)
THEOREM BalancesAreHistory == Spec => []BalancesMatchHistory
<1>1. HistoryInv => BalancesMatchHistory
  BY DEF HistoryInv
<1> QED
  BY <1>1, InitHistory, HistoryStep, Safety, PTL DEF Spec
=============================================================================
