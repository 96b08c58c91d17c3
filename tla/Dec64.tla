-------------------------------- MODULE Dec64 -------------------------------
(***************************************************************************)
(* Slug's numbers (internal/dec64/dec64.go): coef * 10^exp in one machine  *)
(* word, 56 bits for the coefficient and 8 for the exponent in the code,   *)
(* CoefBits and ExpBits here.  A coefficient that does not fit the field   *)
(* and a product that does not fit the word wrap around, as in Go.         *)
(***************************************************************************)
EXTENDS Integers, FiniteSetsExt

CONSTANTS CoefBits, ExpBits,
          MaxDigits,   \* the decimal digits of the largest coefficient, 16
          Precision    \* the digits the operator / asks for, 14

TenTo[n \in Nat] == IF n = 0 THEN 1 ELSE 10 * TenTo[n - 1]

\* A coefficient is wider than an exponent and holds two digits or more, and an
\* exponent is wide enough to count the digits of a word.
ASSUME WordAssumption ==
  /\ CoefBits \in Nat /\ ExpBits \in Nat /\ CoefBits > ExpBits /\ ExpBits > 1
  /\ CoefBits + ExpBits <= 3 * (2^(ExpBits - 1) - 1)
  /\ MaxDigits \in Nat /\ MaxDigits > 1 /\ TenTo[MaxDigits] < 2^(CoefBits - 1)
  /\ Precision \in 0..MaxDigits

Signed(n, bits) == ((n + 2^(bits - 1)) % 2^bits) - 2^(bits - 1)
WordBits == CoefBits + ExpBits
Word(n) == Signed(n, WordBits)
Exp(n) == Signed(n, ExpBits)
MaxWord == 2^(WordBits - 1) - 1
MAX_COEFF == 2^(CoefBits - 1) - 1
MaxExp == 2^(ExpBits - 1) - 1
Fits(c) == c \in -MAX_COEFF..MAX_COEFF

New(coef, exp) == [coef |-> Signed(coef, CoefBits), exp |-> Exp(exp)]
ZERO == New(0, 0)
NAN == New(0, -MaxExp - 1)
IsNaN(a) == a.exp = -MaxExp - 1
IsZero(a) == a.coef = 0 /\ ~IsNaN(a)

abs64(n) == IF n < 0 THEN -n ELSE n
\* Division and remainder of Go: toward zero.
Quo(a, b) == IF (a < 0) = (b < 0) THEN abs64(a) \div abs64(b) ELSE -(abs64(a) \div abs64(b))
Rem(a, b) == a - b * Quo(a, b)

\* A word has WordDigits digits or one more.
WordDigits == CHOOSE n \in 0..WordBits : TenTo[n] <= MaxWord /\ TenTo[n + 1] > MaxWord
Pow10[n \in 0..MaxExp] == IF n = 0 THEN 1 ELSE Word(10 * Pow10[n - 1])

-----------------------------------------------------------------------------
(* Normalisation: the loops of normalizeTowardZero, each by the number of   *)
(* its iterations, which is the first one after which it stops.             *)

Digits == [coef : Int, exp : Int]
Dropped(c, e, n) == [coef |-> Quo(c, TenTo[n]), exp |-> Exp(e + n)]     \* n digits less

\* Mutant: digits are dropped without their exponent.
DropsExponent(c, e) ==
  [Dropped(c, e, Min({k \in 0..(WordDigits + 1) : Fits(Quo(c, TenTo[k]))})) EXCEPT !.exp = e]

ScaledDown(c, e) ==
  Dropped(c, e, Min({k \in 0..(WordDigits + 1) : Fits(Quo(c, TenTo[k])) \/ e + k = MaxExp}))
Stripped(c, e, all) ==
  Dropped(c, e, Min({k \in 0..(WordDigits + 1) : c % TenTo[k + 1] # 0 \/ (~all /\ e + k = 0)}))
\* The bound is on one side only: a negative coefficient is always below it.
ZerosAdded(c, e, n) == [coef |-> Word(c * TenTo[n]), exp |-> e - n]
ScaledUp(c, e) ==
  ZerosAdded(c, e, Min({k \in 0..e : Word(c * TenTo[k]) >= MAX_COEFF \div 10 \/ k = e}))

\* Without zeros at the end of a long coefficient or after the point, and
\* with a small positive exponent as zeros of the coefficient.
Packed[d \in Digits] == New(d.coef, d.exp)
Pointed[d \in Digits] ==
  CASE d.exp < 0 -> Stripped(d.coef, d.exp, FALSE)
    [] d.exp > 0 /\ d.exp < MaxDigits -> ScaledUp(d.coef, d.exp)
    [] OTHER -> d
Adjusted[d \in Digits] ==
  Packed[Pointed[IF abs64(d.coef) >= TenTo[MaxDigits] THEN Stripped(d.coef, d.exp, TRUE) ELSE d]]
IfFits[d \in Digits] == IF Fits(d.coef) THEN Adjusted[d] ELSE NAN
Normal[d \in Digits] == IF d.coef = 0 THEN ZERO ELSE IfFits[ScaledDown(d.coef, d.exp)]
normalizeTowardZero(coef, exp) == Normal[[coef |-> coef, exp |-> exp]]
Normalize(a) == normalizeTowardZero(a.coef, a.exp)

\* Both at the smaller exponent.  The difference of the exponents is an
\* exponent itself, and the products are words.
Shifted(c, n) == IF n <= 0 THEN c ELSE Word(c * Pow10[n])
normalizePair(a, b) ==
  [a |-> IF a.exp > b.exp THEN Shifted(a.coef, Exp(a.exp - b.exp)) ELSE a.coef,
   b |-> IF b.exp > a.exp THEN Shifted(b.coef, Exp(b.exp - a.exp)) ELSE b.coef,
   exp |-> IF a.exp < b.exp THEN a.exp ELSE b.exp]

-----------------------------------------------------------------------------
(* Operations                                                              *)

Add(a, b) == LET p == normalizePair(a, b) IN normalizeTowardZero(Word(p.a + p.b), p.exp)
Neg(a) == New(-a.coef, a.exp)
Sub(a, b) == Add(a, Neg(b))
Mod(a, b) == LET p == normalizePair(a, b) IN
             IF IsZero(b) THEN NAN ELSE normalizeTowardZero(Rem(p.a, p.b), p.exp)
Cmp(a, b) == LET p == normalizePair(a, b) IN
             CASE p.a < p.b -> -1 [] p.a > p.b -> 1 [] OTHER -> 0

FactorPair == [a : Nat, b : Nat]
\* Digits are dropped from the larger factor until the product is a word.
Cut[f \in FactorPair] ==
  IF f.a >= f.b THEN [f EXCEPT !.a = @ \div 10] ELSE [f EXCEPT !.b = @ \div 10]
Factors(ua, ub) ==
  LET f[n \in Nat] == IF n = 0 THEN [a |-> ua, b |-> ub] ELSE Cut[f[n - 1]] IN f
Mul(a, b) ==
  LET f == Factors(abs64(a.coef), abs64(b.coef))
      n == Min({k \in 0..(WordDigits + 1) : f[k].a * f[k].b <= MaxWord})
      p == f[n].a * f[n].b
  IN  IF a.coef = 0 \/ b.coef = 0 THEN ZERO
      ELSE normalizeTowardZero(IF (a.coef < 0) # (b.coef < 0) THEN -p ELSE p,
                               Exp(Exp(a.exp + b.exp) + n))

\* The dividend takes the digits asked for, while it is a word and the quotient
\* a coefficient.  The sign that comes back is the quotient's, not its own.
scaleForDiv(ca, cb, requested) ==
  LET room(k) == abs64(ca) * TenTo[k] <= MaxWord /\ (abs64(ca) * TenTo[k]) \div abs64(cb) <= MAX_COEFF
      n == Max({k \in 0..requested : k = 0 \/ room(k)})
      cur == abs64(ca) * TenTo[n]
  IN  CASE ca = 0 -> [c |-> ca, p |-> 0]
        [] ca # 0 /\ (ca < 0) # (cb < 0) -> [c |-> -cur, p |-> n]
        [] OTHER -> [c |-> cur, p |-> n]

\* RoundHalfEven, the only mode the operators use.
Rounded(c, cb) ==
  LET q == Quo(c, cb)
      r == 2 * abs64(Rem(c, cb))
      away == r > abs64(cb) \/ (r = abs64(cb) /\ q % 2 # 0)
  IN  CASE ~away -> q
        [] away /\ (c > 0) = (cb > 0) -> q + 1
        [] OTHER -> q - 1
Div(a, b) ==
  LET s == scaleForDiv(a.coef, b.coef, Precision) IN
  IF b.coef = 0 THEN NAN
  ELSE normalizeTowardZero(Rounded(s.c, b.coef), Exp(a.exp - b.exp - s.p))

\* int64(math.Pow10(exp)) is 0 for a negative exponent: a number with decimals
\* converts to 0.  Beyond the word amd64 gives the smallest word.
ToInt64(a) ==
  CASE a.exp < 0 -> 0
    [] a.exp \in 0..WordDigits -> Word(a.coef * TenTo[a.exp])
    [] OTHER -> IF a.coef % 2 = 0 THEN 0 ELSE -MaxWord - 1
=============================================================================
