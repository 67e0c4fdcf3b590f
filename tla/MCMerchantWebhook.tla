-------------------------- MODULE MCMerchantWebhook --------------------------
(* Two events, a channel that one of them fills, a restart and a loss of the
   connection. *)
EXTENDS MerchantWebhook, TLC

Symmetric == Permutations(Events)
=============================================================================
