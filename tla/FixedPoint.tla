----------------------------- MODULE FixedPoint -----------------------------
(***************************************************************************)
(* The two rounding operations every transform is built from (common.hpp). *)
(***************************************************************************)
EXTENDS Integers

CONSTANT FixedOne  \* kFixedOne

\* The shift is arithmetic: it rounds down, also what is negative.
FixedMulRound(value, r) ==
  LET prod == value * r
      half == FixedOne \div 2
  IN  (IF prod >= 0 THEN prod + half ELSE prod - half) \div FixedOne

QuantRoundDiv(d, q) ==
  IF q <= 1 THEN d
  ELSE IF d >= 0 THEN (d + q \div 2) \div q
  ELSE -((-d + q \div 2) \div q)

Abs(x) == IF x < 0 THEN -x ELSE x
=============================================================================
