-------------------------- MODULE MCWalletTransfer --------------------------
(* Small instances of WalletTransfer for TLC. *)
EXTENDS WalletTransfer, TLC

CONSTANTS alice, bob, k1, k2, k3

UsersMC == {alice, bob}
KeysMC == {k1, k2}

Wallet(u, c, b) == [user |-> u, currency |-> c, balance |-> b]
Request(k, f, t, a) == [key |-> k, from |-> f, to |-> t, amount |-> a]

(* Two TRY wallets and a USD one.  24 kurus buy a cent, or nothing when the
   product is as inexact as Significand lets it be; a cent buys 47 kurus, which is
   out of range. *)
SeedMC == <<Wallet(alice, "TRY", 30), Wallet(bob, "TRY", 0),
            Wallet(bob, "USD", 1), Wallet(alice, "TRY", 0)>>

(* Two requests share k1 and drain wallet 1; k2 converts TRY to USD, goes back
   down the lock order, or is refused by a CHECK, the key or the wallets. *)
InputsMC ==
  {Request(k1, 1, 2, 30), Request(k2, 1, 3, 24), Request(k2, 3, 2, 1),
   Request(k2, 2, 1, -30), Request(k2, 1, 4, 5), Request(k2, 2, 2, 1),
   Request(NoKey, 1, 2, 1)}

AmountsMC == {-30, 1, 5, 10, 24, 30}
DeletionsMC == {<<bob, 2>>, <<alice, 2>>, <<alice, 1>>}

OpeningsMC == {<<alice, "TRY">>}

(* Three wallets in a ring and a request that shares a key: every order in
   which three transfers can wait for rows and for the key. *)
SeedRing == <<Wallet(alice, "TRY", 10), Wallet(bob, "TRY", 10),
              Wallet(bob, "TRY", 0)>>
InputsRing == {Request(k1, 1, 2, 10), Request(k2, 2, 3, 10),
               Request(k3, 3, 1, 10), Request(k2, 2, 1, 10)}
KeysRing == {k1, k2, k3}
DeletionsRing == {<<bob, 3>>}

Symmetric == Permutations(Transfers)
=============================================================================
