---------------------------- MODULE ExchangeRate ----------------------------
(***************************************************************************)
(* The rates of MockExchangeService and the conversion Transfer applies to *)
(* an amount, in minor units.  Every rate of the table has at most three   *)
(* decimals, so a rate is kept as an integer number of thousandths.        *)
(***************************************************************************)
EXTENDS FixedWidth

CONSTANT Significand   \* the significands of float64: 2^53 in the code

ASSUME SignificandAssumption == Significand \in Nat \ {0}

Currencies == {"TRY", "USD", "EUR"}

Rates ==
  [TRY |-> [TRY |-> 1000,  USD |-> 21,   EUR |-> 19],
   USD |-> [TRY |-> 47060, USD |-> 1000, EUR |-> 930],
   EUR |-> [TRY |-> 54460, USD |-> 1070, EUR |-> 1000]]

GetRate(from, to) == Rates[from][to]

(* The amount, the rate and their product are each rounded to a float64, which
   moves the product by less than four parts in Significand, and math.Round
   adds half a unit: what may come out for x thousandths. *)
Products(x) ==
  LET slack == 500 + (4 * (IF x >= 0 THEN x ELSE -x)) \div Significand
  IN  -((slack - x) \div 1000) .. (x + slack) \div 1000

(* Go does not say what int64 makes of a float64 out of its range: one of its
   ends, on the platforms there are. *)
Conversions(amount, from, to) ==
  LET products == Products(amount * GetRate(from, to))
  IN  (products \cap Int64)
      \cup (IF products \subseteq Int64 THEN {} ELSE {-(MaxInt + 1), MaxInt})
=============================================================================
