------------------------------ MODULE MCGateway ------------------------------
(* Two merchants whose owners also pay: the payments lock the two settlement
   wallets in either order while a charge credits one of them and the fee
   account, or while a virtual card spends from one of them. *)
EXTENDS Gateway, TLC

CONSTANTS alice, bob, w1, w2, w3, foodeli, kiosk, s1, s2, v1

UsersMC == {alice, bob}
CurrenciesMC == {"TRY"}
WalletsMC == {w1, w2, w3}
WalletRowMC ==
  w1 :> [user |-> alice, currency |-> "TRY", balance |-> 40] @@
  w2 :> [user |-> bob, currency |-> "TRY", balance |-> 40] @@
  w3 :> [user |-> alice, currency |-> "TRY", balance |-> 40]
MerchantsMC == {foodeli, kiosk}
MerchantRowMC ==
  foodeli :> [wallet |-> w1, bps |-> 500] @@
  kiosk :> [wallet |-> w2, bps |-> 1000]
SessionInputsMC ==
  {[merchant |-> foodeli, amount |-> 40, currency |-> "TRY"],
   [merchant |-> kiosk, amount |-> 40, currency |-> "TRY"]}
PayInputsMC ==
  {[session |-> s1, user |-> bob, wallet |-> w2],
   [session |-> s2, user |-> alice, wallet |-> w1],
   [session |-> s2, user |-> alice, wallet |-> w3]}
SeedingsMC == {Accounts}
TodayMC == [year |-> 2026, month |-> 7]
PaymentCardsMC ==
  {[number |-> <<4, 1, 1, 1, 1, 1, 1, 1, 1, 1, 1, 1, 0, 0, 0, 0>>,
    month |-> 12, year |-> 28, cvv |-> 3]}
ChargeInputsMC ==
  {[merchant |-> foodeli, key |-> NoKey, amount |-> 40, card |-> sent] : sent \in PaymentCardsMC}
CardInputsMC == {[user |-> alice, wallet |-> w1, limit |-> 40]}
CardPayInputsMC == {[card |-> v1, amount |-> 20, valid |-> TRUE]}

(* The parts of the state space, in which sessions do not expire and each is of
   one merchant: two payments and the charge; two payments and the virtual card;
   one payment of one session, the charge and the virtual card, with the wallet
   that the circle of all three needs.  With the card, nothing stops, wallets
   stay and the card is not frozen: Checkout and Cards explore that.  No step
   that fairness is stated for leaves a part. *)
NothingElse ==
  crashes = 0 /\ open = Wallets /\ \A c \in Cards : cardStatus[c] \in {"absent", "ACTIVE"}
Paying == {p \in Payments : pc[p] # "idle"}
TwoWallets == \A p \in Paying : body[p].wallet # w3

WithCharge ==
  /\ (\A c \in Cards : making[c] = "count") /\ (\A p \in CardPayments : cardPc[p] = "idle")
  /\ TwoWallets
WithCard == (\A c \in Charges : stage[c] = "idle") /\ NothingElse /\ TwoWallets
WithBoth ==
  /\ NothingElse
  /\ Cardinality(Paying) <= 1 /\ Cardinality({s \in Sessions : status[s] # "absent"}) <= 1
EachOfOne == order[s1].merchant # kiosk /\ order[s2].merchant # foodeli
OnePart == late = {} /\ EachOfOne /\ (WithCharge \/ WithCard \/ WithBoth)
=============================================================================
