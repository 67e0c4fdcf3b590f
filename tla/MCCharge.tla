------------------------------ MODULE MCCharge ------------------------------
(* One merchant with a fee of five percent and one whose fee takes the whole
   amount; a key sent with two cards and two amounts; an amount whose fee
   rounds to nothing; one whose fee wraps to a negative one; charges without a
   key.  One card is of the service's own, one an expired test card that is
   accepted, one has a wrong digit, one too few of them.  A system account may
   be missing. *)
EXTENDS OrderlyCharge, CardIssue, TLC

CONSTANTS alice, bob, w1, w2, foodeli, kiosk, k1

UsersMC == {alice, bob}
CurrenciesMC == {"TRY"}
WalletsMC == {w1, w2}
WalletRowMC ==
  w1 :> [user |-> alice, currency |-> "TRY", balance |-> 0] @@
  w2 :> [user |-> bob, currency |-> "TRY", balance |-> 0]
MerchantsMC == {foodeli, kiosk}
MerchantRowMC ==
  foodeli :> [wallet |-> w1, bps |-> 500] @@
  kiosk :> [wallet |-> w2, bps |-> 10000]

TodayMC == [year |-> 2026, month |-> 7]
Card(digits, month, year) == [number |-> digits, month |-> month, year |-> year, cvv |-> 3]
OwnCard == Card(CardNumber(<<1, 2, 3, 4, 5, 6, 7, 8, 9>>), 7, 26)
TestCard == Card(<<4, 1, 1, 1, 1, 1, 1, 1, 1, 1, 1, 1, 0, 0, 0, 0>>, 12, 20)
WrongDigit == Card([OwnCard.number EXCEPT ![15] = 8], 12, 28)
ShortNumber == Card(<<4, 1, 1>>, 12, 28)
PaymentCardsMC == {OwnCard, TestCard, WrongDigit, ShortNumber}
SeedingsMC == {Accounts, {"clearing"}}
ChargeInputsMC ==
  {[merchant |-> foodeli, key |-> k1, amount |-> 40, card |-> OwnCard],
   [merchant |-> foodeli, key |-> k1, amount |-> 10, card |-> TestCard],
   [merchant |-> foodeli, key |-> k1, amount |-> 40, card |-> WrongDigit],
   [merchant |-> foodeli, key |-> NoKey, amount |-> 40, card |-> OwnCard],
   [merchant |-> foodeli, key |-> NoKey, amount |-> 2000, card |-> OwnCard],
   [merchant |-> foodeli, key |-> NoKey, amount |-> 40, card |-> ShortNumber],
   [merchant |-> kiosk, key |-> k1, amount |-> 40, card |-> OwnCard]}
Symmetric == Permutations(Charges)

(* Every digit in every place, and numbers that end in 5001, 5002 and 5003. *)
DrawnMC ==
  {[i \in 1 .. 9 |-> IF i = 1 THEN (d % 9) + 1 ELSE (d + i) % 10] : d \in Digits}
    \cup {<<a, 0, 0, 0, b, 0, 5, 0, 0>> : a \in 1 .. 9, b \in Digits}

-----------------------------------------------------------------------------
(* Charges, or the number of a card in place of any charge. *)
RecordedInit == OrderlyInit /\ NumberInit

RecordedNext ==
  \/ number = <<>> /\ OrderlyNext /\ UNCHANGED number
  \/ (\A c \in Charges : stage[c] = "idle") /\ GiveNumber /\ UNCHANGED orderlyVars
  \/ number # <<>> /\ UNCHANGED <<orderlyVars, number>>

RecordedSpec == RecordedInit /\ [][RecordedNext]_<<orderlyVars, number>>
=============================================================================
