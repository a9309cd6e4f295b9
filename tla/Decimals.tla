------------------------------- MODULE Decimals -------------------------------
(***************************************************************************)
(* Numbers as their decimal digits, the most significant first.            *)
(***************************************************************************)
EXTENDS Integers, Sequences

Digits == 0 .. 9

\* to_string() of a number.
Decimal[n \in Nat] == IF n < 10 THEN <<n>> ELSE Append(Decimal[n \div 10], n % 10)

\* The number that digits stand for.
Value(digits) ==
    LET value[i \in 0 .. Len(digits)] == IF i = 0 THEN 0 ELSE 10 * value[i - 1] + digits[i]
    IN  value[Len(digits)]
=============================================================================
