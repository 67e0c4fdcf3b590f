----------------------------- MODULE MCCheckout -----------------------------
(* Two merchants whose owners also pay: their settlement wallets are the
   wallets they pay from, so two payments can wait for each other.  MaxInt lets
   the fee of 20 be what it should be, and the product of 40 wrap.  The fee
   account may be missing. *)
EXTENDS Checkout, TLC

CONSTANTS alice, bob, w1, w2, foodeli, kiosk, s1, s2

UsersMC == {alice, bob}
CurrenciesMC == {"TRY", "USD"}
WalletsMC == {w1, w2}
WalletRowMC ==
  w1 :> [user |-> alice, currency |-> "TRY", balance |-> 60] @@
  w2 :> [user |-> bob, currency |-> "TRY", balance |-> 40]
MerchantsMC == {foodeli, kiosk}
MerchantRowMC ==
  foodeli :> [wallet |-> w1, bps |-> 500] @@
  kiosk :> [wallet |-> w2, bps |-> 0]
SeedingsMC == {Accounts, {"clearing"}}
SessionInputsMC ==
  {[merchant |-> foodeli, amount |-> 40, currency |-> "TRY"],
   [merchant |-> foodeli, amount |-> 20, currency |-> "TRY"],
   [merchant |-> kiosk, amount |-> 40, currency |-> "TRY"],
   [merchant |-> kiosk, amount |-> 40, currency |-> "USD"]}
PayInputsMC ==
  {[session |-> s1, user |-> alice, wallet |-> w1],
   [session |-> s1, user |-> bob, wallet |-> w2],
   [session |-> s2, user |-> alice, wallet |-> w1],
   [session |-> s2, user |-> bob, wallet |-> w1]}
Symmetric == Permutations(Payments)
=============================================================================
