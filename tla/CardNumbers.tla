----------------------------- MODULE CardNumbers -----------------------------
(***************************************************************************)
(* The numbers of cards: the Luhn check, the numbers the service gives to  *)
(* its virtual cards, and the verdict of ValidateAndSimulateCard.  A number*)
(* is the sequence of its digits, without the blanks and dashes that are   *)
(* removed first; any other character is written NoDigit, and a month or a *)
(* year that cannot be read as -1.                                         *)
(***************************************************************************)
EXTENDS Integers, SequencesExt

CONSTANT Today   \* [year, month]: the date of the server

ASSUME TodayAssumption == Today \in [year : Nat, month : 1 .. 12]

Digits == 0 .. 9
NoDigit == 10
Lengths == 13 .. 19

(* The digit sum of 2d. *)
Doubled(d) == IF 2 * d > 9 THEN 2 * d - 9 ELSE 2 * d

(* Where the digits are, and how many of them follow the i-th character. *)
Places(number) == {i \in DOMAIN number : number[i] \in Digits}
After(number, i) == Cardinality({j \in Places(number) : j > i})

(* Every other digit is doubled, counted from the right: from the last one if
   first is 0, from the one before it if first is 1. *)
LuhnSum(number, first) ==
  SumFunction([i \in Places(number) |->
    IF After(number, i) % 2 = first THEN Doubled(number[i]) ELSE number[i]])

LuhnCheckDigit(prefix) == (10 - (LuhnSum(prefix, 0) % 10)) % 10

(* Mutation: the doubling starts with the last digit. *)
ValidLuhnFromLast(number) ==
  Cardinality(Places(number)) \in Lengths /\ LuhnSum(number, 0) % 10 = 0

ValidLuhn(number) ==
  Cardinality(Places(number)) \in Lengths /\ LuhnSum(number, 1) % 10 = 0

(* GenerateCardNumber with the nine digits it draws, the first not 0. *)
CardNumber(drawn) ==
  LET prefix == <<4, 1, 1, 1, 1, 1>> \o drawn
  IN  Append(prefix, LuhnCheckDigit(prefix))

EndsIn(number, group) == IsSuffix(group, number)

(* The endings of the test cards. *)
RefusedEnding(number) == \E d \in 1 .. 3 : EndsIn(number, <<5, 0, 0, d>>)
AcceptedEnding(number) == EndsIn(number, <<0, 0, 0, 0>>)

Expired(card) ==
  LET year == IF card.year < 100 THEN card.year + 2000 ELSE card.year
  IN  year < Today.year \/ (year = Today.year /\ card.month < Today.month)

(* The ending is looked at before the date and the check digit. *)
Accepted(card) ==
  /\ Len(card.number) \in Lengths
  /\ card.cvv \in 3 .. 4
  /\ ~RefusedEnding(card.number)
  /\ \/ AcceptedEnding(card.number)
     \/ card.month \in 1 .. 12 /\ ~Expired(card) /\ ValidLuhn(card.number)

-----------------------------------------------------------------------------
(* What the check digit promises of the number of a virtual card: it passes
   the Luhn check, no number with one wrong digit does, and one with two
   neighbours swapped does only if they are 0 and 9. *)
CheckDigitDetects(number) ==
  LET swapped(i) == [[number EXCEPT ![i] = number[i + 1]] EXCEPT ![i + 1] = number[i]]
  IN  /\ ValidLuhn(number)
      /\ \A i \in DOMAIN number : \A d \in Digits \ {number[i]} :
           ~ValidLuhn([number EXCEPT ![i] = d])
      /\ \A i \in 1 .. Len(number) - 1 :
           ValidLuhn(swapped(i))
             <=> number[i] = number[i + 1] \/ {number[i], number[i + 1]} = {0, 9}

(* A virtual card that is not expired is accepted by the gateway unless its
   number happens to end like a test card that is refused. *)
OwnCardAccepted(number) ==
  LET card == [number |-> number, month |-> Today.month, year |-> Today.year, cvv |-> 3]
  IN  Accepted(card) <=> ~RefusedEnding(number)
=============================================================================
