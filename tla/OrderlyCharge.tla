---------------------------- MODULE OrderlyCharge ----------------------------
(***************************************************************************)
(* Charge with a history of the Idempotency-Keys that were not used in     *)
(* order, which no action reads.                                           *)
(***************************************************************************)
EXTENDS Charge

(* The keys, each of a merchant, that were sent again before their answer,
   whose record was missed, or that were in flight when the server stopped. *)
VARIABLE disorder

KeyOf(c) == <<request[c].merchant, request[c].key>>
InFlight(c) == stage[c] \notin {"idle", "done"}
Busy == {KeyOf(c) : c \in {d \in Charges : InFlight(d) /\ request[d].key # NoKey}}
Disturb(keys) == disorder' = disorder \cup (keys \cap Busy)

OrderlyInit == Init /\ disorder = {}

OrderlyNext ==
  \/ \E c \in Charges :
       \/ \E in \in ChargeInputs : SubmitCharge(c, in) /\ Disturb({<<in.merchant, in.key>>})
       \/ (ChargeStep(c) \/ AbortSettlement(c)) /\ UNCHANGED disorder
       \/ MissRecord(c) /\ Disturb({KeyOf(c)})
  \/ Crash /\ Disturb(Busy)
  \/ \E w \in Wallets : CloseWallet(w) /\ UNCHANGED <<chargeVars, disorder>>
  \/ Quiet /\ UNCHANGED disorder

orderlyVars == <<vars, disorder>>
OrderlySpec == OrderlyInit /\ [][OrderlyNext]_orderlyVars

(* A key that is sent again only after its answer, with its record found and
   stored, is billed once and answered alike, whatever else fails. *)
OrderlyKeysWork ==
  LET orderly(c, d) == SameKey(c, d) /\ KeyOf(c) \notin disorder
  IN  /\ \A r, s \in charges :
           (r.status = "SUCCEEDED" /\ s.status = "SUCCEEDED" /\ orderly(r.id, s.id)) => r = s
      /\ \A c, d \in Charges :
           (orderly(c, d) /\ {answer[c], answer[d]} \cap {NoResponse, Failed} = {})
             => answer[c] = answer[d]
=============================================================================
