------------------------------- MODULE MCCards -------------------------------
(* Two cards of one user, on one wallet or on two, whose limits together
   exceed the first wallet's balance; a payment that takes all of a limit, one
   that two of them take, and one with wrong details. *)
EXTENDS Cards, TLC

CONSTANTS alice, w1, w2, c1, c2

UsersMC == {alice}
WalletsMC == {w1, w2}
OpeningMC == w1 :> 50 @@ w2 :> 10
CardInputsMC ==
  {[user |-> alice, wallet |-> w1, limit |-> 40],
   [user |-> alice, wallet |-> w2, limit |-> 60]}
PayInputsMC ==
  {[card |-> c1, amount |-> 40, valid |-> TRUE],
   [card |-> c2, amount |-> 20, valid |-> TRUE],
   [card |-> c2, amount |-> 20, valid |-> FALSE]}
=============================================================================
