------------------------------ MODULE Numerals ------------------------------
(***************************************************************************)
(* Numbers written in a base b: as a sequence of digits, the least         *)
(* significant first.                                                      *)
(***************************************************************************)
EXTENDS Integers, Sequences

Power(b, n) ==
  LET power[i \in 0..n] == IF i = 0 THEN 1 ELSE b * power[i - 1]
  IN  power[n]

(* The w least significant digits of v.                                    *)
DigitsOf(b, v, w) == [i \in 1..w |-> (v \div Power(b, i - 1)) % b]

(* The number that the digits s make, from the most significant one on.    *)
NumberOf(b, s) ==
  LET upper[i \in 0..Len(s)] ==
        IF i = 0 THEN 0 ELSE s[Len(s) - i + 1] + b * upper[i - 1]
  IN  upper[Len(s)]

=============================================================================
