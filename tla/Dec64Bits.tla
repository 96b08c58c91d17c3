------------------------------ MODULE Dec64Bits -----------------------------
(***************************************************************************)
(* The bitwise operations of internal/dec64/dec64.go: of numbers with      *)
(* exponent 0, else NaN.                                                   *)
(***************************************************************************)
EXTENDS Dec64, Bitwise

Integral(a) == a.exp = 0
Domain(c) == IF Fits(c) THEN New(c, 0) ELSE NAN
\* Of two words in two's complement.
Bits(op, a, b) ==
  LET x == a % 2^WordBits
      y == b % 2^WordBits
  IN  Word(CASE op = "&" -> x & y [] op = "|" -> x | y [] op = "^" -> x ^^ y)
Bitwise2(op, a, b) == IF Integral(a) /\ Integral(b) THEN Domain(Bits(op, a.coef, b.coef)) ELSE NAN
BitNot(a) == IF Integral(a) THEN Domain(-a.coef - 1) ELSE NAN
ShiftLeft(a, n) ==
  IF Integral(a) /\ Integral(n) /\ n.coef \in 0..(WordBits - 2)
  THEN Domain(Word(a.coef * 2^n.coef)) ELSE NAN
ShiftRight(a, n) ==
  IF Integral(a) /\ Integral(n) /\ n.coef \in 0..(WordBits - 2)
  THEN Domain(a.coef \div 2^n.coef) ELSE NAN
=============================================================================
