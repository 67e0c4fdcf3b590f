------------------------------ MODULE CardIssue ------------------------------
(* The number that is given to a virtual card when it is created. *)
EXTENDS CardNumbers

CONSTANT Drawn   \* the nine random digits, the first not 0

ASSUME DrawnAssumption == Drawn \subseteq {d \in [1 .. 9 -> Digits] : d[1] # 0}

VARIABLE number  \* the number that was given, or <<>>

NumberInit == number = <<>>

GiveNumber ==
  /\ number = <<>>
  /\ \E drawn \in Drawn : number' = CardNumber(drawn)

NumberSpec == NumberInit /\ [][GiveNumber]_number

(* What the Luhn check promises of the numbers of virtual cards, and what the
   gateway makes of them. *)
CardNumbersSound == number # <<>> => CheckDigitDetects(number) /\ OwnCardAccepted(number)
=============================================================================
