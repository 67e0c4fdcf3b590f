----------------------------- MODULE FixedWidth ------------------------------
(***************************************************************************)
(* Go's int64: the result of an operation keeps 64 bits, and a division    *)
(* drops the fraction.  PostgreSQL's BIGINT has the same range, but fails  *)
(* the statement instead of keeping the low bits.                          *)
(***************************************************************************)
EXTENDS Integers

CONSTANT MaxInt   \* the largest int64: 2^63 - 1 in the code

ASSUME MaxIntAssumption == MaxInt \in Nat \ {0}

Width == 2 * (MaxInt + 1)
Int64 == -(MaxInt + 1) .. MaxInt

(* What is left of a sum, difference or product. *)
Wrapped(x) == IF x \in Int64 THEN x ELSE ((x + MaxInt + 1) % Width) - (MaxInt + 1)

(* x / y for a positive y. *)
Quotient(x, y) == IF x >= 0 THEN x \div y ELSE -((-x) \div y)
=============================================================================
