------------------------------ MODULE Numerals ------------------------------
(***************************************************************************)
(* Numbers written with digits, the highest digit first.                   *)
(***************************************************************************)
EXTENDS Integers, Sequences

\* The number that digits stand for.
NumberOf(digits, base) ==
  LET upTo[i \in 0..Len(digits)] == IF i = 0 THEN 0 ELSE upTo[i - 1] * base + digits[i]
  IN  upTo[Len(digits)]

\* The lowest n digits of a number, each of them as many bits wide.
LowDigits(num, bits, n) == [i \in 1..n |-> (num \div 2^(bits * (n - i))) % 2^bits]

=============================================================================
