------------------------------- MODULE Decimals -----------------------------
(***************************************************************************)
(* What decimal arithmetic promises, over numbers without bounds: the      *)
(* specification module Dec64's operations are compared with.              *)
(***************************************************************************)
EXTENDS Dec64

\* The numbers of a Dec64, NaN aside.
Decimals == [coef : -MAX_COEFF..MAX_COEFF, exp : -MaxExp..MaxExp]

\* x as a multiple of 10^e, and the exponent at which two numbers align.
Scaled(x, e) == x.coef * TenTo[x.exp - e]
Meet(x, y) == Min({x.exp, y.exp})

Exactly(op, x, y) ==
  LET e == Meet(x, y) IN
  CASE op = "+" -> [coef |-> Scaled(x, e) + Scaled(y, e), exp |-> e]
    [] op = "-" -> [coef |-> Scaled(x, e) - Scaled(y, e), exp |-> e]
    [] op = "%" -> [coef |-> Rem(Scaled(x, e), Scaled(y, e)), exp |-> e]
    [] op = "*" -> [coef |-> x.coef * y.coef, exp |-> x.exp + y.exp]

Same(x, y) == Scaled(x, Meet(x, y)) = Scaled(y, Meet(x, y))
\* Nearer to zero by less than a k-th part: without some of the last digits.
Near(x, y, k) ==
  LET d == Scaled(x, Meet(x, y))
      e == Scaled(y, Meet(x, y))
  IN  0 <= d /\ d <= e /\ k * (e - d) < e

\* The operands align in one word, and so do their sum and difference.
InWord(x, y) ==
  LET a == Scaled(x, Meet(x, y))
      b == Scaled(y, Meet(x, y))
  IN  {a, b, a + b, a - b} \subseteq -MaxWord..MaxWord

\* The exponents of all digits of x are exponents of a Dec64.
InRange(x) ==
  /\ x.exp \in -MaxExp..MaxExp
  /\ \A j \in 0..(2 * WordDigits + 2) : TenTo[j] <= abs64(x.coef) => x.exp + j <= MaxExp

\* The last digit of a coefficient with no room for another one is worth less
\* than this part of it.
Resolution == TenTo[MaxDigits - 1]

\* What is promised of a result d, a number x that was normalised: d is x, or x
\* without its last digits, less than a k-th part of it.  Negative numbers that
\* lose digits or have a positive exponent are left aside: their zeros are added
\* without a bound.
Kept(d, x, k) ==
  /\ Fits(x.coef) /\ (x.coef >= 0 \/ x.exp <= 0) => Same(d, x)
  /\ ~Fits(x.coef) /\ x.coef >= 0 => Near(d, x, k)

\* q * y is x but for half a unit of the last digit: the last one asked for,
\* that the dividend has room for in a word, or the quotient in a coefficient.
QuotientOf(q, x, y) ==
  LET p == Max({n \in 0..Precision : n = 0 \/ abs64(x.coef) * TenTo[n] <= MaxWord})
      back == Exactly("*", q, y)
      e == Min({Meet(x, back), x.exp - p})
      off == 2 * abs64(Scaled(x, e) - Scaled(back, e))
  IN  \/ off <= y.coef * TenTo[x.exp - p - e]
      \/ off * Resolution <= abs64(Scaled(x, e))

\* The result d of an operation on x and y.
Close(op, x, y, d) ==
  CASE op = "/" -> (y.coef > 0 /\ (x.coef >= 0 \/ x.exp <= y.exp)) => QuotientOf(d, x, y)
    [] op = "*" -> Kept(d, Exactly(op, x, y), 10)
    [] op = "%" -> InWord(x, y) /\ y.coef # 0 => Kept(d, Exactly(op, x, y), Resolution)
    [] op \in {"+", "-"} -> InWord(x, y) => Kept(d, Exactly(op, x, y), Resolution)

\* The sign of the comparison of x and y.
Order(x, y) ==
  LET diff == Exactly("-", x, y).coef IN
  CASE diff < 0 -> -1 [] diff > 0 -> 1 [] OTHER -> 0
=============================================================================
