-------------------------------- MODULE Util --------------------------------
(* What std::cmp, Option and the integer types of Rust give the modelled   *)
(* code: saturating arithmetic, the lesser and the larger of two values,   *)
(* and a value that stands for Option::None among the natural numbers.     *)
EXTENDS Integers, Sequences, FiniteSets

Absent == -1
Present(x) == x # Absent

AtLeast(a, b) == IF a > b THEN a ELSE b
AtMost(a, b) == IF a < b THEN a ELSE b

\* saturating_sub()
SatSub(a, b) == IF a > b THEN a - b ELSE 0

\* Iterator::min() of Options that are filtered first
MinPresent(S) ==
  LET T == S \ {Absent}
  IN  IF T = {} THEN Absent ELSE CHOOSE x \in T : \A y \in T : x <= y

Ran(s) == {s[i] : i \in DOMAIN s}
\* A LET whose value TLC computes once.
With(x, Body(_)) == Body(x)

=============================================================================
