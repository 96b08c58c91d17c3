---------------------------- MODULE Dec64_proofs ----------------------------
(***************************************************************************)
(* Proofs about Dec64, for all widths of a coefficient and an exponent     *)
(* that satisfy WordAssumption, the 56 and 8 bits of the code among them:  *)
(* what the operations return is what module Decimals promises.            *)
(* The loops of the code are least numbers of iterations, found by         *)
(* LeastElement; powers are known by induction over sets of naturals.      *)
(***************************************************************************)
EXTENDS Decimals, TLAPS, FiniteSets, FiniteSetTheorems, WellFoundedInduction

----------------------------------------------------------------------------
(* Least elements and recursion over the naturals *)

\* A set of naturals has a least element; the number of iterations of each loop
\* of normalizeTowardZero is one.
LEMMA LeastElement ==
  ASSUME NEW T, T \subseteq Nat, T # {}
  PROVE  \E m \in T : \A i \in T : m <= i
<1> DEFINE R == OpToRel(<, Nat)
<1>1. IsWellFoundedOn(R, Nat)
  BY NatLessThanWellFounded
<1>2. \A x, y \in Nat : x < y => <<x, y>> \in R
  BY DEF OpToRel
<1> HIDE DEF R
<1>3. PICK m \in T : \A i \in T : ~(<<i, m>> \in R)
  BY <1>1, WFMin
<1>4. \A i \in T : i \in Nat /\ m \in Nat /\ ~(i < m)
  BY <1>2, <1>3
<1>5. \A i \in T : m <= i
  BY <1>4
<1> QED BY <1>5

\* Induction, with a set for the formula.
LEMMA Inductive ==
  ASSUME NEW T, 0 \in T, \A n \in Nat : n \in T => n + 1 \in T
  PROVE  Nat \subseteq T
<1> DEFINE Bad == {n \in Nat : n \notin T}
<1> SUFFICES ASSUME Bad # {} PROVE FALSE
  OBVIOUS
<1>1. PICK m \in Bad : \A i \in Bad : m <= i
  BY LeastElement
<1>2. m \in Nat /\ m # 0 /\ m - 1 \in Nat /\ m - 1 < m
  BY <1>1
<1>3. m - 1 \in T
  BY <1>1, <1>2
<1>4. (m - 1) + 1 \in T
  BY <1>2, <1>3
<1>5. (m - 1) + 1 = m
  BY <1>2
<1> QED BY <1>1, <1>4, <1>5

\* The least element is what Min chooses.
LEMMA MinOfNats ==
  ASSUME NEW T, T \subseteq Nat, T # {}
  PROVE  Min(T) \in T /\ \A i \in T : Min(T) <= i
<1>1. \E m \in T : \A i \in T : m <= i
  BY LeastElement
<1> QED BY <1>1 DEF Min

\* Of two integers Min chooses the smaller one.
LEMMA MinOfTwo ==
  ASSUME NEW a \in Int, NEW b \in Int
  PROVE  Min({a, b}) = IF a <= b THEN a ELSE b
<1>1. CASE a <= b
  <2>1. \A x \in {a, b} : (\A y \in {a, b} : x <= y) => x = a
    BY <1>1
  <2> QED BY <1>1, <2>1 DEF Min
<1>2. CASE ~(a <= b)
  <2>1. \A x \in {a, b} : (\A y \in {a, b} : x <= y) => x = b
    BY <1>2
  <2>2. \A y \in {a, b} : b <= y
    BY <1>2
  <2> QED BY <1>2, <2>1, <2>2 DEF Min
<1> QED BY <1>1, <1>2

\* The largest one of a bounded set is what Max chooses.
LEMMA MaxOfNats ==
  ASSUME NEW T, NEW h \in Nat, T \subseteq 0..h, T # {}
  PROVE  Max(T) \in T /\ \A i \in T : Max(T) >= i
<1> DEFINE U == {h - i : i \in T}
<1>1. U \subseteq Nat /\ U # {}
  OBVIOUS
<1>2. PICK u \in U : \A i \in U : u <= i
  BY <1>1, LeastElement
<1>3. PICK m \in T : u = h - m
  BY <1>2
<1>4. ASSUME NEW i \in T PROVE m >= i
  <2>1. h - i \in U
    BY <1>4
  <2>2. u <= h - i
    BY <1>2, <2>1
  <2> QED BY <1>3, <2>2
<1>5. \E x \in T : \A y \in T : x >= y
  BY <1>4
<1> QED BY <1>5 DEF Max

\* What a loop computes: its state after every number of iterations.
Runs(S, s, c, n) == {g \in [0..n -> S] : g[0] = c /\ \A i \in 0..(n - 1) : g[i + 1] = s[g[i]]}

\* A loop has a run of every length.
LEMMA RunsExist ==
  ASSUME NEW S, NEW s \in [S -> S], NEW c \in S
  PROVE  \A n \in Nat : Runs(S, s, c, n) # {}
<1> DEFINE T == {n \in Nat : Runs(S, s, c, n) # {}}
<1>1. 0 \in T
  <2>1. [i \in 0..0 |-> c] \in Runs(S, s, c, 0)
    BY DEF Runs
  <2> QED BY <2>1
<1>2. ASSUME NEW n \in Nat, n \in T PROVE n + 1 \in T
  <2>1. PICK g : g \in Runs(S, s, c, n)
    BY <1>2
  <2>2. g \in [0..n -> S] /\ g[0] = c /\ \A i \in 0..(n - 1) : g[i + 1] = s[g[i]]
    BY <2>1 DEF Runs
  <2> DEFINE h == [i \in 0..(n + 1) |-> IF i = n + 1 THEN s[g[n]] ELSE g[i]]
  <2>3. g[n] \in S /\ s[g[n]] \in S
    BY <2>2
  <2>4. ASSUME NEW i \in 0..(n + 1) PROVE h[i] \in S
    BY <2>2, <2>3
  <2>5. h \in [0..(n + 1) -> S]
    BY <2>4
  <2>6. h[0] = c
    BY <2>2
  <2>7. ASSUME NEW i \in 0..((n + 1) - 1) PROVE h[i + 1] = s[h[i]]
    <3>1. CASE i = n
      BY <3>1
    <3>2. CASE i # n
      <4>1. i \in 0..(n - 1) /\ i + 1 # n + 1 /\ i + 1 \in 0..(n + 1) /\ i # n + 1
        BY <3>2
      <4>2. h[i + 1] = g[i + 1] /\ h[i] = g[i]
        BY <4>1
      <4> QED BY <2>2, <4>1, <4>2
    <3> QED BY <3>1, <3>2
  <2> HIDE DEF h
  <2>8. h \in Runs(S, s, c, n + 1)
    BY <2>5, <2>6, <2>7 DEF Runs
  <2> QED BY <2>8
<1> HIDE DEF T
<1>3. Nat \subseteq T
  BY <1>1, <1>2, Inductive
<1> QED BY <1>3 DEF T

\* What two runs of a loop have both reached is the same.
LEMMA RunsAgree ==
  ASSUME NEW S, NEW s \in [S -> S], NEW c \in S, NEW n \in Nat, NEW m \in Nat,
         NEW g \in Runs(S, s, c, n), NEW h \in Runs(S, s, c, m)
  PROVE  \A i \in Nat : (i <= n /\ i <= m) => g[i] = h[i]
<1> DEFINE T == {i \in Nat : (i <= n /\ i <= m) => g[i] = h[i]}
<1>1. 0 \in T
  BY DEF Runs
<1>2. ASSUME NEW i \in Nat, i \in T PROVE i + 1 \in T
  <2>1. CASE ~(i + 1 <= n /\ i + 1 <= m)
    BY <2>1
  <2>2. CASE i + 1 <= n /\ i + 1 <= m
    <3>1. i <= n /\ i <= m /\ i \in 0..(n - 1) /\ i \in 0..(m - 1)
      BY <2>2
    <3>2. g[i + 1] = s[g[i]] /\ h[i + 1] = s[h[i]]
      BY <3>1 DEF Runs
    <3> QED BY <1>2, <3>1, <3>2
  <2> QED BY <2>1, <2>2
<1> HIDE DEF T
<1>3. Nat \subseteq T
  BY <1>1, <1>2, Inductive
<1> QED BY <1>3 DEF T

\* f holds the states of a loop that starts at c and steps by s.
Iteration(S, s, c, f) == f \in [Nat -> S] /\ f[0] = c /\ \A n \in Nat : f[n + 1] = s[f[n]]

\* A loop has a state after every number of iterations.
LEMMA Iterates ==
  ASSUME NEW S, NEW s, s \in [S -> S], NEW c \in S
  PROVE  \E f : Iteration(S, s, c, f)
<1> DEFINE pick(n) == CHOOSE g : g \in Runs(S, s, c, n)
           f == [n \in Nat |-> pick(n)[n]]
<1>1. ASSUME NEW n \in Nat PROVE pick(n) \in Runs(S, s, c, n)
  <2>1. \E g : g \in Runs(S, s, c, n)
    BY RunsExist
  <2> QED BY <2>1
<1> HIDE DEF pick
<1>2. ASSUME NEW n \in Nat PROVE pick(n)[n] \in S
  BY <1>1 DEF Runs
<1>3. f \in [Nat -> S]
  BY <1>2
<1>4. f[0] = c
  BY <1>1 DEF Runs
<1>5. ASSUME NEW n \in Nat PROVE f[n + 1] = s[f[n]]
  <2>1. pick(n + 1) \in Runs(S, s, c, n + 1) /\ pick(n) \in Runs(S, s, c, n)
    BY <1>1
  <2>2. pick(n + 1)[n + 1] = s[pick(n + 1)[n]]
    BY <2>1 DEF Runs
  <2>3. pick(n + 1)[n] = pick(n)[n]
    BY <2>1, RunsAgree
  <2> QED BY <2>2, <2>3
<1> HIDE DEF f
<1>6. Iteration(S, s, c, f)
  BY <1>3, <1>4, <1>5 DEF Iteration
<1> QED BY <1>6

----------------------------------------------------------------------------
(* Powers *)

\* The recursive definition of TenTo defines a function.
LEMMA TenToDef ==
  TenTo = [n \in Nat |-> IF n = 0 THEN 1 ELSE 10 * TenTo[n - 1]]
<1> DEFINE s == [x \in Int |-> 10 * x]
<1>1. s \in [Int -> Int] /\ 1 \in Int
  OBVIOUS
<1>2. PICK f : f \in [Nat -> Int] /\ f[0] = 1 /\ \A n \in Nat : f[n + 1] = s[f[n]]
  <2> HIDE DEF s
  <2>1. \E f : Iteration(Int, s, 1, f)
    BY <1>1, Iterates, Zenon
  <2> QED BY <2>1 DEF Iteration
<1>3. ASSUME NEW n \in Nat PROVE f[n] = IF n = 0 THEN 1 ELSE 10 * f[n - 1]
  <2>1. CASE n = 0
    BY <1>2, <2>1
  <2>2. CASE n # 0
    <3>1. n - 1 \in Nat /\ (n - 1) + 1 = n /\ f[n - 1] \in Int
      BY <1>2, <2>2
    <3>2. f[(n - 1) + 1] = s[f[n - 1]]
      BY <1>2, <3>1
    <3>3. s[f[n - 1]] = 10 * f[n - 1]
      BY <3>1
    <3> QED BY <2>2, <3>1, <3>2, <3>3
  <2> QED BY <2>1, <2>2
<1> HIDE DEF s
<1>4. f = [n \in Nat |-> IF n = 0 THEN 1 ELSE 10 * f[n - 1]]
  BY <1>2, <1>3
<1>5. \E g : g = [n \in Nat |-> IF n = 0 THEN 1 ELSE 10 * g[n - 1]]
  BY <1>4
<1> QED BY <1>5, Zenon DEF TenTo

\* The next power of ten.
LEMMA TenToNext ==
  /\ TenTo[0] = 1
  /\ \A n \in Nat : TenTo[n + 1] = 10 * TenTo[n]
<1>1. \A n \in Nat : TenTo[n] = IF n = 0 THEN 1 ELSE 10 * TenTo[n - 1]
  BY TenToDef
<1>2. ASSUME NEW n \in Nat PROVE TenTo[n + 1] = 10 * TenTo[n]
  <2>1. n + 1 \in Nat /\ n + 1 # 0 /\ (n + 1) - 1 = n
    OBVIOUS
  <2> QED BY <1>1, <2>1
<1> QED BY <1>1, <1>2

\* Powers of ten are positive integers.
LEMMA TenToType ==
  \A n \in Nat : TenTo[n] \in Nat /\ TenTo[n] >= 1 /\ TenTo[n] > n
<1> DEFINE T == {n \in Nat : TenTo[n] \in Nat /\ TenTo[n] >= 1 /\ TenTo[n] > n}
<1>1. 0 \in T
  BY TenToNext
<1>2. ASSUME NEW n \in Nat, n \in T PROVE n + 1 \in T
  BY <1>2, TenToNext
<1> HIDE DEF T
<1>3. Nat \subseteq T
  BY <1>1, <1>2, Inductive
<1> QED BY <1>3 DEF T

\* The product of two powers of ten.
LEMMA TenToPlus ==
  ASSUME NEW m \in Nat, NEW n \in Nat
  PROVE  TenTo[m + n] = TenTo[m] * TenTo[n]
<1> DEFINE T == {k \in Nat : TenTo[m + k] = TenTo[m] * TenTo[k]}
<1>1. 0 \in T
  BY TenToNext, TenToType
<1>2. ASSUME NEW k \in Nat, k \in T PROVE k + 1 \in T
  <2>1. m + k \in Nat /\ (m + k) + 1 = m + (k + 1)
    OBVIOUS
  <2>2. TenTo[m + (k + 1)] = 10 * TenTo[m + k]
    BY <2>1, TenToNext
  <2>3. TenTo[m + k] = TenTo[m] * TenTo[k]
    BY <1>2
  <2>4. TenTo[k + 1] = 10 * TenTo[k]
    BY TenToNext
  <2>5. TenTo[m] \in Int /\ TenTo[k] \in Int
    BY TenToType
  <2>6. 10 * (TenTo[m] * TenTo[k]) = TenTo[m] * (10 * TenTo[k])
    BY <2>5
  <2> QED BY <2>2, <2>3, <2>4, <2>6
<1> HIDE DEF T
<1>3. Nat \subseteq T
  BY <1>1, <1>2, Inductive
<1> QED BY <1>3 DEF T

\* Larger powers are multiples of smaller ones.
LEMMA TenToLess ==
  ASSUME NEW m \in Nat, NEW n \in Nat, m <= n
  PROVE  /\ TenTo[n] = TenTo[m] * TenTo[n - m]
         /\ TenTo[m] <= TenTo[n]
         /\ m < n => 10 * TenTo[m] <= TenTo[n]
<1>1. n - m \in Nat /\ m + (n - m) = n
  OBVIOUS
<1>2. TenTo[n] = TenTo[m] * TenTo[n - m]
  BY <1>1, TenToPlus
<1>3. TenTo[m] \in Nat /\ TenTo[n - m] \in Nat /\ TenTo[n - m] >= 1
  BY <1>1, TenToType
<1>4. TenTo[m] <= TenTo[n]
  BY <1>2, <1>3
<1>5. ASSUME m < n PROVE 10 * TenTo[m] <= TenTo[n]
  <2>1. n - m - 1 \in Nat /\ (n - m - 1) + 1 = n - m
    BY <1>5
  <2>2. TenTo[n - m] = 10 * TenTo[n - m - 1]
    BY <2>1, TenToNext
  <2>3. TenTo[n - m - 1] \in Nat /\ TenTo[n - m - 1] >= 1
    BY <2>1, TenToType
  <2>4. TenTo[n - m] >= 10
    BY <2>2, <2>3
  <2> HIDE DEF TenTo
  <2> QED BY ONLY <1>2, <1>3, <2>4
<1> QED BY <1>2, <1>4, <1>5

\* Subsets with and without one more element.
LEMMA TwoToNext ==
  ASSUME NEW n \in Nat
  PROVE  2^(n + 1) = 2 * 2^n /\ 2^n \in Nat /\ 2^n >= 1
<1> DEFINE S == 1..n
           x == n + 1
           A == SUBSET S
           B == {a \cup {x} : a \in A}
           f == [a \in A |-> a \cup {x}]
<1>1. IsFiniteSet(S) /\ Cardinality(S) = n
  BY FS_Interval
<1>2. x \notin S /\ S \cup {x} = 1..(n + 1)
  OBVIOUS
<1>3. IsFiniteSet(1..(n + 1)) /\ Cardinality(1..(n + 1)) = n + 1
  <2>1. Cardinality(1..(n + 1)) = IF 1 > n + 1 THEN 0 ELSE (n + 1) - 1 + 1
    BY FS_Interval
  <2> QED BY <2>1, FS_Interval
<1> HIDE DEF S
<1>4. IsFiniteSet(A) /\ Cardinality(A) = 2^n
  BY <1>1, FS_SUBSET
<1>5. f \in Bijection(A, B)
  <2>1. \A a, b \in A : a \cup {x} = b \cup {x} => a = b
    BY <1>2
  <2>2. f \in [A -> B]
    OBVIOUS
  <2>3. \A b \in B : \E a \in A : f[a] = b
    OBVIOUS
  <2>4. \A a, b \in A : f[a] = f[b] => a = b
    BY <2>1
  <2> HIDE DEF A, B, f
  <2> QED BY <2>2, <2>3, <2>4 DEF Bijection, Injection, Surjection, IsInjective
<1>6. IsFiniteSet(B) /\ Cardinality(B) = Cardinality(A)
  BY <1>4, <1>5, FS_Bijection DEF ExistsBijection
<1>7. A \cap B = {}
  BY <1>2
<1>8. A \cup B = SUBSET (S \cup {x})
  <2>1. ASSUME NEW a \in SUBSET (S \cup {x}) PROVE a \in A \cup B
    <3>1. CASE x \in a
      <4>1. a \ {x} \in A /\ a = (a \ {x}) \cup {x}
        BY <3>1
      <4> QED BY <4>1
    <3>2. CASE x \notin a
      BY <3>2
    <3> QED BY <3>1, <3>2
  <2> QED BY <2>1
<1> HIDE DEF A, B, f
<1>9. Cardinality(A \cup B) = Cardinality(A) + Cardinality(B) - Cardinality(A \cap B)
  BY <1>4, <1>6, FS_Union
<1>10. Cardinality(A \cap B) = 0
  BY <1>7, FS_EmptySet
<1>11. Cardinality(A \cup B) = 2^(n + 1)
  BY <1>2, <1>3, <1>8, FS_SUBSET
<1>12. Cardinality(A) \in Nat
  BY <1>4, FS_CardinalityType
<1>13. {} \in A
  BY DEF A
<1>14. Cardinality(A) # 0
  BY <1>4, <1>13, FS_EmptySet
<1> QED BY <1>4, <1>6, <1>9, <1>10, <1>11, <1>12, <1>14

----------------------------------------------------------------------------
(* Words, coefficients and exponents *)

\* Larger exponents have larger powers of two.
LEMMA TwoToLess ==
  ASSUME NEW m \in Nat, NEW n \in Nat
  PROVE  2^m <= 2^(m + n)
<1> DEFINE T == {k \in Nat : 2^m <= 2^(m + k)}
<1>1. 0 \in T
  <2>1. 2^m \in Nat /\ m + 0 = m
    BY TwoToNext
  <2> QED BY <2>1
<1>2. ASSUME NEW k \in Nat, k \in T PROVE k + 1 \in T
  <2>1. (m + k) \in Nat /\ m + (k + 1) = (m + k) + 1
    OBVIOUS
  <2>2. 2^(m + (k + 1)) = 2 * 2^(m + k) /\ 2^(m + k) \in Nat /\ 2^m \in Nat
    BY <2>1, TwoToNext
  <2> QED BY <1>2, <2>2
<1> HIDE DEF T
<1>3. Nat \subseteq T
  BY <1>1, <1>2, Inductive
<1> QED BY <1>3 DEF T

\* A decimal digit holds more than three binary ones.
LEMMA TenToOverTwo ==
  \A n \in Nat : 2^(3 * n) <= TenTo[n] /\ 2^n <= TenTo[n]
<1> DEFINE T == {n \in Nat : 2^(3 * n) <= TenTo[n] /\ 2^n <= TenTo[n]}
<1>1. 0 \in T
  <2>1. 3 * 0 = 0 /\ 2^0 = 1
    OBVIOUS
  <2> QED BY <2>1, TenToNext
<1>2. ASSUME NEW n \in Nat, n \in T PROVE n + 1 \in T
  <2>1. 3 * n \in Nat /\ 3 * n + 1 \in Nat /\ 3 * n + 2 \in Nat
    OBVIOUS
  <2>2. 2^(3 * n + 1) = 2 * 2^(3 * n) /\ 2^(3 * n) \in Nat
    BY <2>1, TwoToNext
  <2>3. 2^((3 * n + 1) + 1) = 2 * 2^(3 * n + 1)
    BY <2>1, TwoToNext
  <2>4. 2^((3 * n + 2) + 1) = 2 * 2^(3 * n + 2)
    BY <2>1, TwoToNext
  <2>5. (3 * n + 1) + 1 = 3 * n + 2 /\ (3 * n + 2) + 1 = 3 * (n + 1)
    OBVIOUS
  <2>6. 2^(3 * (n + 1)) = 8 * 2^(3 * n)
    BY <2>2, <2>3, <2>4, <2>5
  <2>7. 2^(n + 1) = 2 * 2^n /\ 2^n \in Nat
    BY TwoToNext
  <2>8. TenTo[n + 1] = 10 * TenTo[n] /\ TenTo[n] \in Nat
    BY TenToNext, TenToType
  <2> QED BY <1>2, <2>2, <2>6, <2>7, <2>8
<1> HIDE DEF T
<1>3. Nat \subseteq T
  BY <1>1, <1>2, Inductive
<1> QED BY <1>3 DEF T

\* The sizes of the word and its two fields.
LEMMA Widths ==
  /\ WordBits \in Nat /\ WordBits - 1 \in Nat
  /\ 2^(WordBits - 1) \in Nat /\ 2^WordBits = 2 * 2^(WordBits - 1)
  /\ 2^(CoefBits - 1) \in Nat /\ 2^CoefBits = 2 * 2^(CoefBits - 1)
  /\ 2^(ExpBits - 1) \in Nat /\ 2^ExpBits = 2 * 2^(ExpBits - 1)
  /\ MaxWord \in Nat /\ MAX_COEFF \in Nat /\ MaxExp \in Nat
  /\ MAX_COEFF <= MaxWord
  /\ MAX_COEFF >= TenTo[MaxDigits] /\ MAX_COEFF >= 100
  /\ WordBits <= 3 * MaxExp
<1>1. /\ CoefBits \in Nat /\ ExpBits \in Nat /\ CoefBits > ExpBits /\ ExpBits > 1
      /\ CoefBits + ExpBits <= 3 * (2^(ExpBits - 1) - 1)
      /\ MaxDigits \in Nat /\ MaxDigits > 1 /\ TenTo[MaxDigits] < 2^(CoefBits - 1)
  BY WordAssumption
<1>2. WordBits \in Nat /\ WordBits - 1 \in Nat /\ (WordBits - 1) + 1 = WordBits
  BY <1>1 DEF WordBits
<1>3. CoefBits - 1 \in Nat /\ (CoefBits - 1) + 1 = CoefBits
  BY <1>1
<1>4. ExpBits - 1 \in Nat /\ (ExpBits - 1) + 1 = ExpBits
  BY <1>1
<1>5. 2^(WordBits - 1) \in Nat /\ 2^(WordBits - 1) >= 1 /\ 2^WordBits = 2 * 2^(WordBits - 1)
  BY <1>2, TwoToNext
<1>6. 2^(CoefBits - 1) \in Nat /\ 2^(CoefBits - 1) >= 1 /\ 2^CoefBits = 2 * 2^(CoefBits - 1)
  BY <1>3, TwoToNext
<1>7. 2^(ExpBits - 1) \in Nat /\ 2^(ExpBits - 1) >= 1 /\ 2^ExpBits = 2 * 2^(ExpBits - 1)
  BY <1>4, TwoToNext
<1>8. MaxWord \in Nat /\ MAX_COEFF \in Nat /\ MaxExp \in Nat
  BY <1>5, <1>6, <1>7 DEF MaxWord, MAX_COEFF, MaxExp
<1>9. MAX_COEFF <= MaxWord
  <2>1. (CoefBits - 1) + ExpBits = WordBits - 1
    BY <1>1 DEF WordBits
  <2>2. 2^(CoefBits - 1) <= 2^(WordBits - 1)
    BY <1>1, <1>3, <2>1, TwoToLess
  <2> QED BY <1>5, <1>6, <2>2 DEF MaxWord, MAX_COEFF
<1>10. TenTo[MaxDigits] \in Nat /\ TenTo[MaxDigits] >= 100
  <2>1. TenTo[0] = 1 /\ TenTo[0 + 1] = 10 * TenTo[0] /\ TenTo[1 + 1] = 10 * TenTo[1]
    BY TenToNext
  <2>2. TenTo[2] = 100
    BY <2>1
  <2>3. TenTo[2] <= TenTo[MaxDigits]
    <3>1. 2 \in Nat /\ 2 <= MaxDigits
      BY <1>1
    <3> QED BY <1>1, <3>1, TenToLess
  <2> QED BY <1>1, <2>2, <2>3, TenToType
<1>11. MAX_COEFF >= TenTo[MaxDigits] /\ MAX_COEFF >= 100
  BY <1>1, <1>6, <1>10 DEF MAX_COEFF
<1>12. WordBits <= 3 * MaxExp
  BY <1>1 DEF WordBits, MaxExp
<1> QED BY <1>2, <1>5, <1>6, <1>7, <1>8, <1>9, <1>11, <1>12

\* WordDigits is what its definition looks for, and an exponent counts more.
LEMMA WordDigitsFit ==
  /\ WordDigits \in Nat /\ WordDigits < MaxExp
  /\ TenTo[WordDigits] <= MaxWord /\ TenTo[WordDigits + 1] > MaxWord
<1> DEFINE T == {n \in Nat : TenTo[n + 1] > MaxWord}
<1>0. WordBits \in Nat /\ WordBits - 1 \in Nat /\ MaxWord \in Nat /\ MaxExp \in Nat
  BY Widths
<1>1. WordBits - 1 \in T
  <2>1. (WordBits - 1) + 1 = WordBits
    BY <1>0
  <2>2. 2^WordBits <= TenTo[WordBits] /\ TenTo[WordBits] \in Nat
    BY <1>0, TenToOverTwo, TenToType
  <2>3. MaxWord < 2^WordBits
    BY Widths DEF MaxWord
  <2>4. 2^WordBits \in Nat
    BY Widths
  <2> QED BY <1>0, <2>1, <2>2, <2>3, <2>4
<1>2. T \subseteq Nat /\ T # {}
  BY <1>1
<1>3. PICK m \in T : \A i \in T : m <= i
  <2> HIDE DEF T
  <2> QED BY <1>2, LeastElement
<1>4. m \in Nat /\ TenTo[m + 1] > MaxWord /\ m <= WordBits - 1
  BY <1>1, <1>3
<1>5. TenTo[m] <= MaxWord
  <2>1. CASE m = 0
    <3>1. MaxWord >= 100
      BY Widths
    <3> QED BY <1>0, <2>1, <3>1, TenToNext
  <2>2. CASE m # 0
    <3>1. m - 1 \in Nat /\ (m - 1) + 1 = m /\ m - 1 < m
      BY <1>4, <2>2
    <3>2. m - 1 \notin T
      BY <1>3, <1>4, <3>1
    <3>3. TenTo[m] \in Nat /\ ~(TenTo[m] > MaxWord)
      BY <1>4, <3>1, <3>2, TenToType
    <3> QED BY <1>0, <3>3
  <2> QED BY <2>1, <2>2
<1>6. m \in 0..WordBits
  BY <1>0, <1>4
<1>7. \E n \in 0..WordBits : TenTo[n] <= MaxWord /\ TenTo[n + 1] > MaxWord
  BY <1>4, <1>5, <1>6
<1> HIDE DEF T
<1>8. WordDigits \in 0..WordBits /\ TenTo[WordDigits] <= MaxWord /\ TenTo[WordDigits + 1] > MaxWord
  BY <1>7, Zenon DEF WordDigits
<1>9. WordDigits < MaxExp
  <2>1. WordDigits \in Nat
    BY <1>0, <1>8
  <2> SUFFICES ASSUME MaxExp <= WordDigits PROVE FALSE
    BY <1>0, <2>1
  <2>2. TenTo[MaxExp] <= TenTo[WordDigits]
    BY <1>0, <2>1, TenToLess
  <2>3. 2^(3 * MaxExp) <= TenTo[MaxExp]
    BY <1>0, TenToOverTwo
  <2>4. 2^WordBits <= 2^(3 * MaxExp)
    <3>1. 3 * MaxExp - WordBits \in Nat /\ WordBits + (3 * MaxExp - WordBits) = 3 * MaxExp
      BY <1>0, Widths
    <3> QED BY <1>0, <3>1, TwoToLess
  <2>5. MaxWord < 2^WordBits
    BY Widths DEF MaxWord
  <2>6. 2^WordBits \in Nat /\ 2^(3 * MaxExp) \in Nat /\ TenTo[MaxExp] \in Nat /\ TenTo[WordDigits] \in Nat
    <3>1. 3 * MaxExp \in Nat
      BY <1>0
    <3> QED BY <1>0, <2>1, <3>1, TwoToNext, TenToType
  <2> QED BY <1>0, <1>8, <2>2, <2>3, <2>4, <2>5, <2>6
<1> QED BY <1>0, <1>8, <1>9

----------------------------------------------------------------------------
(* Remainders and wrapping *)

\* Quotient and remainder of a division by a positive number.
LEMMA Division ==
  ASSUME NEW a \in Int, NEW b \in Int, b > 0
  PROVE  /\ a \div b \in Int /\ a % b \in 0..(b - 1)
         /\ a = b * (a \div b) + (a % b)
OBVIOUS

\* A multiple of b strictly between -b and b is 0.
LEMMA SmallMultiple ==
  ASSUME NEW b \in Int, b > 0, NEW k \in Int, b * k < b, b * k > -b
  PROVE  k = 0
<1>1. CASE k >= 1
  <2>1. b * k >= b
    BY <1>1
  <2> QED BY <2>1
<1>2. CASE k <= -1
  <2>1. b * k <= -b
    BY <1>2
  <2> QED BY <2>1
<1> QED BY <1>1, <1>2

\* There is one quotient and remainder.
LEMMA DivisionUnique ==
  ASSUME NEW b \in Int, b > 0, NEW q \in Int, NEW r \in 0..(b - 1)
  PROVE  (b * q + r) \div b = q /\ (b * q + r) % b = r
<1> DEFINE a == b * q + r
<1>1. a \in Int /\ b * q \in Int
  OBVIOUS
<1> HIDE DEF a
<1>2. a \div b \in Int /\ a % b \in 0..(b - 1) /\ a = b * (a \div b) + (a % b)
  BY <1>1, Division
<1>3. a = b * q + r
  BY DEF a
<1> DEFINE p == a \div b
           s == a % b
<1>4. p \in Int /\ s \in 0..(b - 1) /\ b * q + r = b * p + s
  BY <1>2, <1>3
<1> HIDE DEF p, s
<1>5. b * (q - p) = s - r
  <2>1. b * (q - p) = b * q - b * p /\ b * p \in Int
    BY <1>4
  <2> QED BY <1>1, <1>4, <2>1
<1>6. s - r < b /\ s - r > -b
  BY <1>4
<1>7. q - p = 0
  BY <1>4, <1>5, <1>6, SmallMultiple
<1>8. q = p
  BY <1>4, <1>7
<1>9. s = r
  BY <1>4, <1>8
<1> QED BY <1>8, <1>9 DEF p, s, a

\* A multiple of the divisor leaves the remainder alone.
LEMMA RemainderOfSum ==
  ASSUME NEW b \in Int, b > 0, NEW a \in Int, NEW k \in Int
  PROVE  (a + b * k) % b = a % b
<1> DEFINE q == a \div b
           r == a % b
<1>1. q \in Int /\ r \in 0..(b - 1) /\ a = b * q + r
  BY Division
<1> HIDE DEF q, r
<1>2. a + b * k = b * (q + k) + r
  <2>1. b * (q + k) = b * q + b * k /\ b * q \in Int /\ b * k \in Int
    BY <1>1
  <2> QED BY <1>1, <2>1
<1>3. (b * (q + k) + r) % b = r
  BY <1>1, DivisionUnique
<1>4. (a + b * k) % b = r
  BY <1>2, <1>3
<1> QED BY <1>4 DEF r

\* A number in the range of a field is stored as it is.
LEMMA SignedIsSmall ==
  ASSUME NEW h \in Nat, NEW n \in Int, -h <= n, n < h
  PROVE  ((n + h) % (2 * h)) - h = n
<1>1. 2 * h \in Int /\ 2 * h > 0 /\ n + h \in 0..(2 * h - 1)
  OBVIOUS
<1> DEFINE b == 2 * h
           r == n + h
<1>2. b \in Int /\ b > 0 /\ r \in 0..(b - 1)
  BY <1>1
<1> HIDE DEF b, r
<1>3. (b * 0 + r) % b = r
  BY <1>2, DivisionUnique
<1>4. b * 0 + r = r
  BY <1>2
<1>5. r % b = r
  BY <1>3, <1>4
<1> QED BY <1>5 DEF b, r

\* Wrapping adds a multiple of the size of the field and ends in its range.
LEMMA SignedStep ==
  ASSUME NEW h \in Nat, h > 0, NEW n \in Int
  PROVE  \E k \in Int : /\ ((n + h) % (2 * h)) - h = n + (2 * h) * k
                        /\ ((n + h) % (2 * h)) - h \in -h..(h - 1)
<1> DEFINE b == 2 * h
           a == n + h
           q == a \div b
           r == a % b
<1>1. b \in Int /\ b > 0 /\ a \in Int
  OBVIOUS
<1> HIDE DEF a, b
<1>2. q \in Int /\ r \in 0..(b - 1) /\ a = b * q + r
  BY <1>1, Division
<1> HIDE DEF q, r
<1>3. r - h = n + b * (-q)
  <2>1. b * (-q) = -(b * q) /\ b * q \in Int
    BY <1>1, <1>2
  <2> QED BY <1>1, <1>2, <2>1 DEF a
<1>4. r - h \in -h..(h - 1)
  BY <1>2 DEF b
<1>5. -q \in Int
  BY <1>2
<1>6. \E k \in Int : r - h = n + b * k /\ r - h \in -h..(h - 1)
  BY <1>3, <1>4, <1>5
<1> QED BY <1>6 DEF r, a, b

\* Numbers that fit a field are stored as they are.
LEMMA WordIs ==
  ASSUME NEW n \in Int, -MaxWord - 1 <= n, n <= MaxWord
  PROVE  Word(n) = n
<1> DEFINE h == 2^(WordBits - 1)
<1>1. h \in Nat /\ 2^WordBits = 2 * h /\ MaxWord = h - 1
  BY Widths DEF MaxWord
<1> HIDE DEF h
<1>2. ((n + h) % (2 * h)) - h = n
  BY <1>1, SignedIsSmall
<1>3. Word(n) = ((n + h) % 2^WordBits) - h
  BY DEF Word, Signed, h
<1> QED BY <1>1, <1>2, <1>3

\* Exponents of a Dec64 are stored as they are.
LEMMA ExpIs ==
  ASSUME NEW n \in Int, -MaxExp - 1 <= n, n <= MaxExp
  PROVE  Exp(n) = n
<1> DEFINE h == 2^(ExpBits - 1)
<1>1. h \in Nat /\ 2^ExpBits = 2 * h /\ MaxExp = h - 1
  BY Widths DEF MaxExp
<1> HIDE DEF h
<1>2. ((n + h) % (2 * h)) - h = n
  BY <1>1, SignedIsSmall
<1>3. Exp(n) = ((n + h) % 2^ExpBits) - h
  BY DEF Exp, Signed, h
<1> QED BY <1>1, <1>2, <1>3

\* Coefficients that fit are stored as they are.
LEMMA CoefIs ==
  ASSUME NEW n \in Int, Fits(n)
  PROVE  Signed(n, CoefBits) = n
<1> DEFINE h == 2^(CoefBits - 1)
<1>1. h \in Nat /\ 2^CoefBits = 2 * h /\ MAX_COEFF = h - 1
  BY Widths DEF MAX_COEFF
<1> HIDE DEF h
<1>2. -h <= n /\ n < h
  BY <1>1 DEF Fits
<1>3. ((n + h) % (2 * h)) - h = n
  BY <1>1, <1>2, SignedIsSmall
<1>4. Signed(n, CoefBits) = ((n + h) % 2^CoefBits) - h
  BY DEF Signed, h
<1> QED BY <1>1, <1>3, <1>4

\* A word that wrapped is off by a multiple of 2^WordBits.
LEMMA WordWraps ==
  ASSUME NEW n \in Int
  PROVE  /\ Word(n) \in (-MaxWord - 1)..MaxWord
         /\ \E k \in Int : Word(n) = n + 2^WordBits * k
<1> DEFINE h == 2^(WordBits - 1)
<1>1. h \in Nat /\ 2^WordBits = 2 * h /\ MaxWord = h - 1 /\ MaxWord \in Nat
  BY Widths DEF MaxWord
<1>2. h > 0
  BY <1>1
<1>3. Word(n) = ((n + h) % 2^WordBits) - h
  BY DEF Word, Signed
<1> HIDE DEF h
<1>4. \E k \in Int : /\ ((n + h) % (2 * h)) - h = n + (2 * h) * k
                     /\ ((n + h) % (2 * h)) - h \in -h..(h - 1)
  BY <1>1, <1>2, SignedStep
<1>5. \E k \in Int : Word(n) = n + (2 * h) * k /\ Word(n) \in -h..(h - 1)
  BY <1>1, <1>3, <1>4
<1>6. Word(n) \in (-MaxWord - 1)..MaxWord
  BY <1>1, <1>5
<1> QED BY <1>1, <1>5, <1>6

\* Multiples of the size of a word do not change what is stored.
LEMMA WordOfSum ==
  ASSUME NEW n \in Int, NEW k \in Int
  PROVE  Word(n + 2^WordBits * k) = Word(n)
<1> DEFINE b == 2^WordBits
           h == 2^(WordBits - 1)
<1>1. b \in Int /\ b > 0 /\ h \in Int
  BY Widths DEF MaxWord
<1>2. Word(n + b * k) = ((n + b * k + h) % b) - h /\ Word(n) = ((n + h) % b) - h
  BY DEF Word, Signed
<1> HIDE DEF b, h
<1>3. n + b * k + h = (n + h) + b * k
  BY <1>1
<1>4. ((n + h) + b * k) % b = (n + h) % b
  <2> DEFINE a == n + h
  <2>1. a \in Int
    BY <1>1
  <2> HIDE DEF a
  <2>2. (a + b * k) % b = a % b
    BY <1>1, <2>1, RemainderOfSum
  <2> QED BY <2>2 DEF a
<1>5. Word(n + b * k) = Word(n)
  BY <1>2, <1>3, <1>4
<1> QED BY <1>5 DEF b

----------------------------------------------------------------------------
(* Division toward zero *)

\* Magnitudes are naturals.
LEMMA AbsType ==
  ASSUME NEW n \in Int
  PROVE  /\ abs64(n) \in Nat
         /\ n >= 0 => abs64(n) = n
         /\ n <= 0 => abs64(n) = -n
BY DEF abs64

\* The magnitude of a product.
LEMMA AbsOfProduct ==
  ASSUME NEW a \in Int, NEW b \in Nat
  PROVE  abs64(a * b) = abs64(a) * b
<1>1. CASE a >= 0
  <2>1. a * b >= 0 /\ a * b \in Int
    BY <1>1
  <2> QED BY <1>1, <2>1, AbsType
<1>2. CASE a < 0
  <2>1. a * b <= 0 /\ a * b \in Int /\ -(a * b) = (-a) * b
    BY <1>2
  <2> QED BY <1>2, <2>1, AbsType
<1> QED BY <1>1, <1>2

\* The quotient has the magnitude of the quotient of the magnitudes.
LEMMA QuoFacts ==
  ASSUME NEW c \in Int, NEW b \in Int, b > 0
  PROVE  /\ Quo(c, b) \in Int
         /\ c >= 0 => Quo(c, b) = c \div b /\ Quo(c, b) >= 0
         /\ c <= 0 => Quo(c, b) <= 0
         /\ abs64(Quo(c, b)) = abs64(c) \div b
         /\ b * abs64(Quo(c, b)) <= abs64(c)
         /\ abs64(c) < b * abs64(Quo(c, b)) + b
<1>1. abs64(b) = b
  BY AbsType
<1> DEFINE a == abs64(c)
           q == a \div b
           r == a % b
<1>2. a \in Nat
  BY AbsType
<1> HIDE DEF a
<1>3. q \in Int /\ r \in 0..(b - 1) /\ a = b * q + r
  BY <1>2, Division
<1>4. Quo(c, b) = IF (c < 0) = (b < 0) THEN q ELSE -q
  BY <1>1 DEF Quo, a
<1> HIDE DEF q, r
<1>5. q >= 0
  <2> SUFFICES ASSUME q <= -1 PROVE FALSE
    BY <1>3
  <2>1. b * q <= -b
    BY <1>3
  <2> QED BY <1>2, <1>3, <2>1
<1>6. b * q <= a /\ a < b * q + b
  <2>1. b * q \in Int
    BY <1>3
  <2> QED BY <1>2, <1>3, <2>1
<1>7. CASE c >= 0
  <2>1. Quo(c, b) = q /\ a = c
    BY <1>4, <1>7, AbsType DEF a
  <2>2. abs64(Quo(c, b)) = q
    BY <1>3, <1>5, <2>1, AbsType
  <2>3. c <= 0 => q <= 0
    <3> SUFFICES ASSUME c <= 0, q >= 1 PROVE FALSE
      BY <1>3
    <3>1. b * q >= b
      BY <1>3
    <3>2. b * q <= 0
      BY <1>6, <1>7, <2>1
    <3>3. b * q \in Int
      BY <1>3
    <3> QED BY <3>1, <3>2, <3>3
  <2> QED BY <1>3, <1>5, <1>6, <1>7, <2>1, <2>2, <2>3 DEF a, q
<1>8. CASE c < 0
  <2>1. Quo(c, b) = -q
    <3>1. (c < 0) = TRUE /\ (b < 0) = FALSE
      BY <1>8
    <3> QED BY <1>4, <3>1
  <2>2. abs64(Quo(c, b)) = q
    BY <1>3, <1>5, <2>1, AbsType
  <2> QED BY <1>3, <1>5, <1>6, <1>8, <2>1, <2>2 DEF a, q
<1> QED BY <1>7, <1>8

\* A quotient without remainder.
LEMMA QuoOfMultiple ==
  ASSUME NEW c \in Int, NEW b \in Int, b > 0, c % b = 0
  PROVE  c = Quo(c, b) * b
<1> DEFINE q == c \div b
<1>1. q \in Int /\ c = b * q
  BY Division
<1> HIDE DEF q
<1>2. CASE c >= 0
  <2>1. Quo(c, b) = q
    BY <1>2, QuoFacts DEF q
  <2> QED BY <1>1, <2>1
<1>3. CASE c < 0
  <2>1. -c = b * (-q) + 0
    BY <1>1
  <2>2. -q \in Int /\ 0 \in 0..(b - 1)
    BY <1>1
  <2>3. (b * (-q) + 0) \div b = -q
    <3> DEFINE z == 0
               p == -q
    <3>1. p \in Int /\ z \in 0..(b - 1)
      BY <2>2
    <3> HIDE DEF z, p
    <3>2. (b * p + z) \div b = p
      BY <3>1, DivisionUnique
    <3> QED BY <3>2 DEF z, p
  <2>4. (-c) \div b = -q
    BY <2>1, <2>3
  <2>5. abs64(c) = -c /\ abs64(b) = b /\ (c < 0) = TRUE /\ (b < 0) = FALSE
    BY <1>3, AbsType
  <2>6. Quo(c, b) = -((-c) \div b)
    BY <2>5 DEF Quo
  <2>7. Quo(c, b) = q
    BY <1>1, <2>4, <2>6
  <2> QED BY <1>1, <2>7
<1> QED BY <1>2, <1>3

\* Division by one, the power of ten of no digits.
LEMMA QuoOfOne ==
  ASSUME NEW c \in Int
  PROVE  Quo(c, 1) = c
<1>1. c = 1 * c + 0 /\ 0 \in 0..(1 - 1)
  OBVIOUS
<1>2. (1 * c + 0) % 1 = 0
  <2> DEFINE b == 1
             z == 0
  <2>1. b \in Int /\ b > 0 /\ z \in 0..(b - 1)
    OBVIOUS
  <2> HIDE DEF b, z
  <2>2. (b * c + z) % b = z
    BY <2>1, DivisionUnique
  <2> QED BY <2>2 DEF b, z
<1>3. c % 1 = 0
  BY <1>1, <1>2
<1>4. c = Quo(c, 1) * 1 /\ Quo(c, 1) \in Int
  BY <1>3, QuoOfMultiple, QuoFacts
<1> QED BY <1>4

----------------------------------------------------------------------------
(* Numbers at a common exponent *)

\* The exponent at which two numbers align is the lower one of theirs.
LEMMA MeetType ==
  ASSUME NEW x \in Digits, NEW y \in Digits
  PROVE  /\ Meet(x, y) \in Int /\ Meet(x, y) = IF x.exp <= y.exp THEN x.exp ELSE y.exp
         /\ Meet(x, y) <= x.exp /\ Meet(x, y) <= y.exp
<1>1. x.exp \in Int /\ y.exp \in Int
  BY DEF Digits
<1>2. Meet(x, y) = IF x.exp <= y.exp THEN x.exp ELSE y.exp
  BY <1>1, MinOfTwo DEF Meet
<1> QED BY <1>1, <1>2

\* A number is an integral multiple of a power of ten with a lower exponent.
LEMMA ScaledType ==
  ASSUME NEW x \in Digits, NEW e \in Int, e <= x.exp
  PROVE  /\ Scaled(x, e) \in Int /\ TenTo[x.exp - e] \in Nat /\ TenTo[x.exp - e] >= 1
         /\ Scaled(x, e) = x.coef * TenTo[x.exp - e]
<1>1. x.exp - e \in Nat /\ x.coef \in Int
  BY DEF Digits
<1> QED BY <1>1, TenToType DEF Scaled

\* At its own exponent a number is its coefficient.
LEMMA ScaledHere ==
  ASSUME NEW x \in Digits
  PROVE  Scaled(x, x.exp) = x.coef
<1>1. x.exp \in Int /\ x.coef \in Int /\ x.exp - x.exp = 0
  BY DEF Digits
<1> QED BY <1>1, TenToNext DEF Scaled

\* A lower exponent multiplies by a power of ten.
LEMMA ScaledLower ==
  ASSUME NEW x \in Digits, NEW m \in Int, NEW l \in Int, m <= l, l <= x.exp
  PROVE  Scaled(x, m) = Scaled(x, l) * TenTo[l - m] /\ TenTo[l - m] \in Nat /\ TenTo[l - m] >= 1
<1>1. x.exp \in Int /\ x.coef \in Int /\ x.exp - l \in Nat /\ l - m \in Nat
  BY DEF Digits
<1>2. (x.exp - l) + (l - m) = x.exp - m
  BY <1>1
<1>3. TenTo[x.exp - m] = TenTo[x.exp - l] * TenTo[l - m]
  BY <1>1, <1>2, TenToPlus
<1>4. TenTo[x.exp - l] \in Nat /\ TenTo[l - m] \in Nat /\ TenTo[l - m] >= 1
  BY <1>1, TenToType
<1> DEFINE c == x.coef
           s == TenTo[x.exp - l]
           t == TenTo[l - m]
<1>5. c \in Int /\ s \in Int /\ t \in Int
  BY <1>1, <1>4
<1>6. c * (s * t) = (c * s) * t
  <2> HIDE DEF c, s, t
  <2> QED BY <1>5
<1> QED BY <1>3, <1>4, <1>6 DEF Scaled

\* Which exponent two numbers are compared at does not matter.
LEMMA SameAt ==
  ASSUME NEW x \in Digits, NEW y \in Digits, NEW m \in Int, m <= x.exp, m <= y.exp
  PROVE  Same(x, y) <=> Scaled(x, m) = Scaled(y, m)
<1> DEFINE l == Meet(x, y)
           t == TenTo[l - m]
           a == Scaled(x, l)
           b == Scaled(y, l)
<1>1. l \in Int /\ m <= l /\ l <= x.exp /\ l <= y.exp
  <2>1. x.exp \in Int /\ y.exp \in Int
    BY DEF Digits
  <2> QED BY <2>1, MeetType
<1>2. Same(x, y) <=> a = b
  BY DEF Same
<1> HIDE DEF l
<1>3. Scaled(x, m) = a * t /\ Scaled(y, m) = b * t /\ t \in Nat /\ t >= 1
  BY <1>1, ScaledLower
<1>4. a \in Int /\ b \in Int
  BY <1>1, ScaledType
<1> HIDE DEF a, b, t
<1>5. a * t = b * t => a = b
  BY <1>3, <1>4
<1> QED BY <1>2, <1>3, <1>5

\* Nor does it matter for numbers that are near.
LEMMA NearAt ==
  ASSUME NEW x \in Digits, NEW y \in Digits, NEW m \in Int, m <= x.exp, m <= y.exp, NEW k \in Nat
  PROVE  Near(x, y, k) <=> /\ 0 <= Scaled(x, m) /\ Scaled(x, m) <= Scaled(y, m)
                           /\ k * (Scaled(y, m) - Scaled(x, m)) < Scaled(y, m)
<1> DEFINE l == Meet(x, y)
           t == TenTo[l - m]
           a == Scaled(x, l)
           b == Scaled(y, l)
<1>1. l \in Int /\ m <= l /\ l <= x.exp /\ l <= y.exp
  <2>1. x.exp \in Int /\ y.exp \in Int
    BY DEF Digits
  <2> QED BY <2>1, MeetType
<1>2. Near(x, y, k) <=> 0 <= a /\ a <= b /\ k * (b - a) < b
  BY DEF Near
<1> HIDE DEF l
<1>3. Scaled(x, m) = a * t /\ Scaled(y, m) = b * t /\ t \in Nat /\ t >= 1
  BY <1>1, ScaledLower
<1>4. a \in Int /\ b \in Int
  BY <1>1, ScaledType
<1> HIDE DEF a, b, t
<1>5. 0 <= a <=> 0 <= a * t
  BY <1>3, <1>4
<1>6. a <= b <=> a * t <= b * t
  BY <1>3, <1>4
<1>7. k * (b - a) < b <=> k * (b * t - a * t) < b * t
  <2> DEFINE w == k * (b - a)
             u == b - w
  <2>1. w \in Int /\ u \in Int /\ (w < b <=> u > 0)
    BY <1>4
  <2>2. w * t = k * (b * t - a * t)
    <3>1. (b - a) * t = b * t - a * t /\ b - a \in Int
      BY <1>3, <1>4
    <3> DEFINE v == b - a
    <3>2. v \in Int
      BY <3>1
    <3> HIDE DEF v
    <3>3. (k * v) * t = k * (v * t)
      BY <1>3, <3>2
    <3> QED BY <3>1, <3>3 DEF v
  <2>3. b * t \in Int /\ w * t \in Int
    BY <1>3, <1>4, <2>1
  <2> HIDE DEF w
  <2>4. u * t = b * t - w * t
    BY <1>3, <1>4, <2>1
  <2> HIDE DEF u
  <2>5. u > 0 <=> u * t > 0
    BY <1>3, <2>1
  <2>6. w < b <=> w * t < b * t
    BY <2>1, <2>3, <2>4, <2>5
  <2> QED BY <2>2, <2>6 DEF w
<1> QED BY <1>2, <1>3, <1>5, <1>6, <1>7

\* An exponent below three others.
LEMMA Below ==
  ASSUME NEW a \in Int, NEW b \in Int, NEW c \in Int
  PROVE  \E m \in Int : m <= a /\ m <= b /\ m <= c
<1>1. CASE a <= b /\ a <= c
  BY <1>1
<1>2. CASE b <= a /\ b <= c
  BY <1>2
<1>3. CASE c <= a /\ c <= b
  BY <1>3
<1> QED BY <1>1, <1>2, <1>3

\* Of two numbers that are the same both are the same as a third, or near it.
LEMMA SameIsTransitive ==
  ASSUME NEW x \in Digits, NEW y \in Digits, NEW z \in Digits, Same(x, y), NEW k \in Nat
  PROVE  /\ Same(y, z) => Same(x, z)
         /\ Near(y, z, k) => Near(x, z, k)
<1>1. x.exp \in Int /\ y.exp \in Int /\ z.exp \in Int
  BY DEF Digits
<1>2. PICK m \in Int : m <= x.exp /\ m <= y.exp /\ m <= z.exp
  BY <1>1, Below
<1>3. Scaled(x, m) = Scaled(y, m)
  BY <1>2, SameAt
<1>4. Same(y, z) => Scaled(x, m) = Scaled(z, m)
  BY <1>2, <1>3, SameAt
<1>5. Same(y, z) => Same(x, z)
  BY <1>2, <1>4, SameAt
<1>6. Near(y, z, k) => Near(x, z, k)
  BY <1>2, <1>3, NearAt
<1> QED BY <1>5, <1>6

\* Every number is the same as itself.
LEMMA SameAsItself ==
  ASSUME NEW x \in Digits
  PROVE  Same(x, x)
BY DEF Same

----------------------------------------------------------------------------
(* Dropping digits *)

\* A word with an exponent, whose digits all have exponents of a Dec64.
Roomy(x) ==
  /\ x \in Digits /\ x.coef \in -MaxWord..MaxWord /\ x.exp \in -MaxExp..MaxExp
  /\ \A j \in Nat : TenTo[j] <= abs64(x.coef) => x.exp + j <= MaxExp

\* A word has at most WordDigits + 1 digits.
LEMMA DigitsOfWord ==
  ASSUME NEW c \in -MaxWord..MaxWord, NEW j \in Nat, TenTo[j] <= abs64(c)
  PROVE  j <= WordDigits
<1>1. MaxWord \in Nat /\ WordDigits \in Nat /\ TenTo[WordDigits + 1] > MaxWord
  BY Widths, WordDigitsFit
<1>2. abs64(c) \in Nat /\ abs64(c) <= MaxWord
  BY <1>1, AbsType
<1> SUFFICES ASSUME j >= WordDigits + 1 PROVE FALSE
  BY <1>1
<1>3. TenTo[WordDigits + 1] <= TenTo[j]
  BY <1>1, TenToLess
<1>4. TenTo[j] \in Nat /\ TenTo[WordDigits + 1] \in Nat
  BY <1>1, TenToType
<1> QED BY <1>1, <1>2, <1>3, <1>4

\* Numbers in range have room for the exponents of their digits.
LEMMA InRangeIsRoomy ==
  ASSUME NEW x \in Digits, x.coef \in -MaxWord..MaxWord, InRange(x)
  PROVE  Roomy(x)
<1>1. ASSUME NEW j \in Nat, TenTo[j] <= abs64(x.coef) PROVE x.exp + j <= MaxExp
  <2>1. j <= WordDigits
    BY <1>1, DigitsOfWord
  <2>2. j \in 0..(2 * WordDigits + 2)
    BY <2>1, WordDigitsFit
  <2> QED BY <1>1, <2>2 DEF InRange
<1> QED BY <1>1 DEF InRange, Roomy

\* Without some of its digits a number has one digit left, or more.
LEMMA DroppedIs ==
  ASSUME NEW x, Roomy(x), x.coef # 0, NEW n \in Nat, TenTo[n] <= abs64(x.coef)
  PROVE  LET q == Quo(x.coef, TenTo[n]) IN
         /\ Dropped(x.coef, x.exp, n) = [coef |-> q, exp |-> x.exp + n]
         /\ Roomy([coef |-> q, exp |-> x.exp + n])
         /\ q \in Int /\ q # 0 /\ abs64(q) <= abs64(x.coef) /\ (q > 0 <=> x.coef > 0)
         /\ n <= WordDigits /\ x.exp + n <= MaxExp
<1> DEFINE c == x.coef
           b == TenTo[n]
           q == Quo(c, b)
           d == [coef |-> q, exp |-> x.exp + n]
<1>1. /\ c \in Int /\ c \in -MaxWord..MaxWord /\ MaxWord \in Nat /\ MaxExp \in Nat
      /\ x.exp \in Int /\ x.exp >= -MaxExp
  BY Widths DEF Roomy, Digits
<1>2. b \in Int /\ b >= 1 /\ b <= abs64(c)
  BY TenToType
<1>3. /\ q \in Int /\ (c >= 0 => q >= 0) /\ (c <= 0 => q <= 0)
      /\ b * abs64(q) <= abs64(c) /\ abs64(c) < b * abs64(q) + b
  <2>1. b > 0
    BY <1>2
  <2> HIDE DEF b, c
  <2> QED BY <1>1, <1>2, <2>1, QuoFacts
<1>4. abs64(q) \in Nat /\ abs64(c) \in Nat /\ abs64(c) <= MaxWord
  <2>1. abs64(q) \in Nat
    BY <1>3, AbsType
  <2> HIDE DEF q
  <2> QED BY <1>1, <2>1, AbsType
<1>5. x.exp + n <= MaxExp /\ n <= WordDigits
  BY <1>1, <1>2, DigitsOfWord DEF Roomy
<1>6. d = Dropped(c, x.exp, n)
  <2>1. Exp(x.exp + n) = x.exp + n
    <3>1. x.exp + n \in Int /\ -MaxExp - 1 <= x.exp + n
      BY <1>1
    <3> QED BY <1>5, <3>1, ExpIs
  <2> QED BY <2>1 DEF Dropped
<1> HIDE DEF c, b, q
<1>7. abs64(q) >= 1
  <2> SUFFICES ASSUME abs64(q) = 0 PROVE FALSE
    BY <1>4
  <2> QED BY <1>2, <1>3, <1>4
<1>8. q # 0
  <2> SUFFICES ASSUME q = 0 PROVE FALSE
    OBVIOUS
  <2>1. abs64(q) = 0
    BY DEF abs64
  <2> QED BY <1>7, <2>1
<1>9. abs64(q) <= abs64(c)
  <2>1. abs64(q) <= b * abs64(q)
    BY <1>2, <1>4
  <2>2. b * abs64(q) \in Int
    BY <1>2, <1>4
  <2> QED BY <1>3, <1>4, <2>1, <2>2
<1>10. ASSUME NEW j \in Nat, TenTo[j] <= abs64(q) PROVE (x.exp + n) + j <= MaxExp
  <2>1. TenTo[j + n] = TenTo[j] * b /\ TenTo[j] \in Nat
    BY TenToPlus, TenToType DEF b
  <2>2. TenTo[j] * b <= abs64(q) * b
    BY <1>2, <1>4, <1>10, <2>1
  <2>3. abs64(q) * b = b * abs64(q) /\ b * abs64(q) \in Int /\ TenTo[j] * b \in Int
    BY <1>2, <1>4, <2>1
  <2>4. TenTo[j + n] <= abs64(c)
    BY <1>3, <1>4, <2>1, <2>2, <2>3
  <2>5. j + n \in Nat
    OBVIOUS
  <2>6. x.exp + (j + n) <= MaxExp
    BY <2>4, <2>5 DEF Roomy, c
  <2> QED BY <1>1, <2>6
<1>11. q \in -MaxWord..MaxWord
  <2>1. abs64(q) <= MaxWord
    BY <1>1, <1>4, <1>9
  <2> QED BY <1>1, <1>3, <2>1 DEF abs64
<1>12. x.exp + n \in -MaxExp..MaxExp
  BY <1>1, <1>5
<1>13. d \in Digits /\ d.coef = q /\ d.exp = x.exp + n
  BY <1>1, <1>3 DEF Digits
<1> HIDE DEF d
<1>14. Roomy(d)
  BY <1>10, <1>11, <1>12, <1>13 DEF Roomy
<1>15. q > 0 <=> c > 0
  BY <1>1, <1>3, <1>8
<1> QED BY <1>3, <1>5, <1>6, <1>8, <1>9, <1>14, <1>15 DEF d, q, c, b

\* Dropping zeros changes nothing.
LEMMA ZerosDropped ==
  ASSUME NEW x \in Digits, NEW n \in Nat, x.coef % TenTo[n] = 0
  PROVE  /\ Same([coef |-> Quo(x.coef, TenTo[n]), exp |-> x.exp + n], x)
         /\ x.coef = Quo(x.coef, TenTo[n]) * TenTo[n]
<1> DEFINE q == Quo(x.coef, TenTo[n])
           d == [coef |-> q, exp |-> x.exp + n]
<1>1. x.coef \in Int /\ x.exp \in Int /\ TenTo[n] \in Int /\ TenTo[n] > 0
  BY TenToType DEF Digits
<1>2. q \in Int /\ x.coef = q * TenTo[n]
  BY <1>1, QuoFacts, QuoOfMultiple
<1> HIDE DEF q
<1>3. d \in Digits /\ d.exp - x.exp = n /\ x.exp <= d.exp /\ d.coef = q
  BY <1>1, <1>2 DEF Digits
<1> HIDE DEF d
<1>4. Scaled(d, x.exp) = q * TenTo[n]
  BY <1>3 DEF Scaled
<1>5. Scaled(x, x.exp) = x.coef
  BY ScaledHere
<1>6. Same(d, x)
  BY <1>1, <1>2, <1>3, <1>4, <1>5, SameAt
<1> QED BY <1>2, <1>6 DEF d, q

\* A word that is not 0 is no multiple of a power with more digits.
LEMMA NotAMultiple ==
  ASSUME NEW c \in -MaxWord..MaxWord, c # 0, NEW n \in Nat, n >= WordDigits
  PROVE  c % TenTo[n + 1] # 0
<1> DEFINE b == TenTo[n + 1]
<1>1. MaxWord \in Nat /\ WordDigits \in Nat /\ TenTo[WordDigits + 1] > MaxWord
  BY Widths, WordDigitsFit
<1>2. b \in Int /\ b > MaxWord
  <2>1. WordDigits + 1 \in Nat /\ n + 1 \in Nat /\ WordDigits + 1 <= n + 1
    BY <1>1
  <2>2. TenTo[WordDigits + 1] <= b /\ b \in Nat /\ TenTo[WordDigits + 1] \in Nat
    BY <2>1, TenToLess, TenToType
  <2> QED BY <1>1, <2>2
<1> HIDE DEF b
<1> SUFFICES ASSUME c % b = 0 PROVE FALSE
  BY DEF b
<1>3. c \in Int /\ c \div b \in Int /\ c = b * (c \div b)
  BY <1>1, <1>2, Division
<1>4. c \div b = 0
  <2>1. b * (c \div b) < b /\ b * (c \div b) > -b /\ b > 0
    BY <1>1, <1>2, <1>3
  <2> QED BY <1>2, <1>3, <2>1, SmallMultiple
<1> QED BY <1>2, <1>3, <1>4

\* The zeros a loop strips, with all or up to the point.
LEMMA StripFacts ==
  ASSUME NEW x, Roomy(x), x.coef # 0, NEW all \in BOOLEAN
  PROVE  LET d == Stripped(x.coef, x.exp, all) IN
         /\ Roomy(d) /\ Same(d, x) /\ d.coef # 0 /\ (d.coef > 0 <=> x.coef > 0)
         /\ abs64(d.coef) <= abs64(x.coef)
         /\ d.exp >= x.exp /\ x.coef = d.coef * TenTo[d.exp - x.exp]
         /\ (~all /\ x.exp < 0) => d.exp <= 0
<1> DEFINE c == x.coef
           T == {k \in 0..(WordDigits + 1) : c % TenTo[k + 1] # 0 \/ (~all /\ x.exp + k = 0)}
           n == Min(T)
           q == Quo(c, TenTo[n])
           d == [coef |-> q, exp |-> x.exp + n]
<1>1. /\ c \in -MaxWord..MaxWord /\ x.exp \in Int /\ MaxWord \in Nat /\ WordDigits \in Nat
      /\ x \in Digits /\ c \in Int
  BY Widths, WordDigitsFit DEF Roomy, Digits
<1>2. T \subseteq Nat /\ WordDigits \in T
  <2>1. c % TenTo[WordDigits + 1] # 0
    BY <1>1, NotAMultiple
  <2> QED BY <1>1, <2>1
<1>3. n \in T /\ \A i \in T : n <= i
  <2> HIDE DEF T
  <2> QED BY <1>2, MinOfNats
<1>4. n \in Nat /\ n <= WordDigits
  BY <1>1, <1>2, <1>3
<1>5. c % TenTo[n] = 0
  <2> HIDE DEF n
  <2>1. CASE n = 0
    <3>1. 1 * c + 0 = c /\ TenTo[n] = 1
      BY <1>1, <2>1, TenToNext
    <3>2. c % 1 \in 0..(1 - 1)
      BY <1>1, Division
    <3> QED BY <3>1, <3>2
  <2>2. CASE n # 0
    <3>1. n - 1 \in 0..(WordDigits + 1) /\ n - 1 < n /\ (n - 1) + 1 = n
      BY <1>1, <1>4, <2>2
    <3>2. n - 1 \notin T
      BY <1>3, <1>4, <3>1
    <3> QED BY <3>1, <3>2
  <2> QED BY <2>1, <2>2
<1>6. (~all /\ x.exp < 0) => x.exp + n <= 0
  <2> SUFFICES ASSUME ~all, x.exp < 0, x.exp + n >= 1 PROVE FALSE
    BY <1>1, <1>4
  <2>1. -x.exp \in 0..(WordDigits + 1) /\ x.exp + (-x.exp) = 0 /\ -x.exp < n
    BY <1>1, <1>4
  <2>2. -x.exp \in T
    BY <2>1
  <2> HIDE DEF n, T
  <2> QED BY <1>1, <1>3, <1>4, <2>1, <2>2
<1>7. Stripped(c, x.exp, all) = Dropped(c, x.exp, n)
  BY DEF Stripped
<1> HIDE DEF n, T
<1>8. c = q * TenTo[n] /\ q \in Int /\ Same(d, x) /\ TenTo[n] \in Nat /\ TenTo[n] >= 1
  <2>1. TenTo[n] \in Nat /\ TenTo[n] >= 1
    BY <1>4, TenToType
  <2>2. q \in Int
    <3> DEFINE b == TenTo[n]
    <3>1. b \in Int /\ b > 0
      BY <2>1
    <3> HIDE DEF b, c
    <3> QED BY <1>1, <3>1, QuoFacts DEF b
  <2> QED BY <1>1, <1>4, <1>5, <2>1, <2>2, ZerosDropped
<1>9. TenTo[n] <= abs64(c)
  <2>1. abs64(c) = abs64(q) * TenTo[n] /\ abs64(q) \in Nat /\ abs64(c) \in Nat
    <3> HIDE DEF q, c
    <3> QED BY <1>1, <1>8, AbsOfProduct, AbsType
  <2>2. abs64(q) # 0
    <3> SUFFICES ASSUME abs64(q) = 0 PROVE FALSE
      OBVIOUS
    <3>1. abs64(c) = 0
      BY <1>8, <2>1
    <3>2. c = 0
      BY <1>1, <3>1 DEF abs64
    <3> QED BY <3>2
  <2> HIDE DEF q
  <2>3. abs64(q) >= 1
    BY <2>1, <2>2
  <2> QED BY <1>8, <2>1, <2>3
<1>10. /\ Dropped(c, x.exp, n) = d /\ Roomy(d)
       /\ q # 0 /\ abs64(q) <= abs64(c) /\ (q > 0 <=> c > 0)
  BY <1>4, <1>9, DroppedIs
<1>11. d.coef = q /\ d.exp = x.exp + n /\ d.exp >= x.exp /\ d.exp - x.exp = n
  BY <1>1, <1>4
<1> QED BY <1>6, <1>7, <1>8, <1>10, <1>11

----------------------------------------------------------------------------
(* The normal form of a number *)

\* The resolution is a power of ten below the largest coefficient.
LEMMA ResolutionIs ==
  /\ Resolution \in Nat /\ Resolution >= 1 /\ 10 * Resolution <= MAX_COEFF
  /\ TenTo[MaxDigits] = 10 * Resolution
<1>1. MaxDigits - 1 \in Nat /\ (MaxDigits - 1) + 1 = MaxDigits
  BY WordAssumption
<1>2. TenTo[MaxDigits] = 10 * Resolution /\ Resolution \in Nat /\ Resolution >= 1
  BY <1>1, TenToNext, TenToType DEF Resolution
<1>3. MAX_COEFF >= TenTo[MaxDigits] /\ MAX_COEFF \in Nat
  BY Widths
<1> QED BY <1>2, <1>3

\* The digits that do not fit the coefficient are dropped, and no more.
LEMMA DownFacts ==
  ASSUME NEW x, Roomy(x), x.coef # 0
  PROVE  LET d == ScaledDown(x.coef, x.exp) IN
         /\ Roomy(d) /\ Fits(d.coef) /\ d.coef # 0 /\ (d.coef > 0 <=> x.coef > 0)
         /\ Fits(x.coef) => d = x
         /\ x.coef > 0 /\ ~Fits(x.coef) => Near(d, x, Resolution)
<1> DEFINE c == x.coef
           T == {k \in 0..(WordDigits + 1) : Fits(Quo(c, TenTo[k])) \/ x.exp + k = MaxExp}
           n == Min(T)
           q == Quo(c, TenTo[n])
           d == [coef |-> q, exp |-> x.exp + n]
<1>1. /\ c \in -MaxWord..MaxWord /\ x.exp \in Int /\ MaxWord \in Nat /\ WordDigits \in Nat
      /\ x \in Digits /\ c \in Int /\ x.exp \in -MaxExp..MaxExp /\ MaxExp \in Nat
      /\ MAX_COEFF \in Nat /\ MAX_COEFF >= 100
      /\ abs64(c) \in Nat /\ abs64(c) <= MaxWord
      /\ Resolution \in Nat /\ Resolution >= 1 /\ 10 * Resolution <= MAX_COEFF
  <2>1. c \in -MaxWord..MaxWord /\ c \in Int /\ MaxWord \in Nat
    BY Widths DEF Roomy, Digits
  <2>2. abs64(c) \in Nat /\ abs64(c) <= MaxWord
    BY <2>1, AbsType
  <2> QED BY <2>1, <2>2, Widths, WordDigitsFit, ResolutionIs DEF Roomy, Digits
<1>2. \A k \in Nat : /\ TenTo[k] \in Int /\ TenTo[k] >= 1 /\ Quo(c, TenTo[k]) \in Int
                     /\ TenTo[k] * abs64(Quo(c, TenTo[k])) <= abs64(c)
                     /\ abs64(c) < TenTo[k] * abs64(Quo(c, TenTo[k])) + TenTo[k]
                     /\ abs64(Quo(c, TenTo[k])) \in Nat
  <2> TAKE k \in Nat
  <2> DEFINE b == TenTo[k]
  <2>1. b \in Int /\ b >= 1
    BY TenToType
  <2> HIDE DEF b, c
  <2>2. b > 0
    BY <2>1
  <2>3. Quo(c, b) \in Int /\ b * abs64(Quo(c, b)) <= abs64(c) /\ abs64(c) < b * abs64(Quo(c, b)) + b
    BY <1>1, <2>1, <2>2, QuoFacts
  <2>4. abs64(Quo(c, b)) \in Nat
    BY <2>3, AbsType
  <2> QED BY <2>1, <2>3, <2>4 DEF b
<1>3. \A i \in Int : Fits(i) <=> abs64(i) <= MAX_COEFF
  BY <1>1 DEF Fits, abs64
<1>4. Fits(Quo(c, TenTo[WordDigits]))
  <2> DEFINE b == TenTo[WordDigits]
             p == abs64(Quo(c, b))
  <2>1. b \in Int /\ b >= 1 /\ b * p <= abs64(c) /\ p \in Nat /\ Quo(c, b) \in Int
    BY <1>1, <1>2
  <2>2. MaxWord < 10 * b
    BY <1>1, WordDigitsFit, TenToNext
  <2> HIDE DEF b
  <2>3. p < 10
    <3> SUFFICES ASSUME p >= 10 PROVE FALSE
      BY <2>1
    <3> HIDE DEF p
    <3>1. b * p >= b * 10
      BY <2>1
    <3>2. b * p \in Int
      BY <2>1
    <3> QED BY <1>1, <2>1, <2>2, <3>1, <3>2
  <2>4. p <= MAX_COEFF
    <3> HIDE DEF p
    <3> QED BY <1>1, <2>1, <2>3
  <2> QED BY <1>3, <2>1, <2>4 DEF p, b
<1>5. T \subseteq Nat /\ WordDigits \in T
  BY <1>1, <1>4
<1>6. n \in T /\ \A i \in T : n <= i
  <2> HIDE DEF T
  <2> QED BY <1>5, MinOfNats
<1>7. n \in Nat /\ n <= WordDigits
  BY <1>1, <1>5, <1>6
<1>8. \A k \in 0..(WordDigits + 1) : k < n => ~Fits(Quo(c, TenTo[k]))
  <2> SUFFICES ASSUME NEW k \in 0..(WordDigits + 1), k < n, Fits(Quo(c, TenTo[k])) PROVE FALSE
    OBVIOUS
  <2>1. k \in T
    OBVIOUS
  <2>2. n <= k /\ k \in Int
    BY <1>6, <2>1
  <2> HIDE DEF n
  <2> QED BY <1>7, <2>2
\* As long as a number does not fit, it has another digit.
<1>9. ASSUME NEW k \in Nat, ~Fits(Quo(c, TenTo[k])) PROVE TenTo[k + 1] * Resolution <= abs64(c)
  <2> DEFINE b == TenTo[k]
             p == abs64(Quo(c, b))
  <2>1. b \in Int /\ b >= 1 /\ b * p <= abs64(c) /\ p \in Nat /\ Quo(c, b) \in Int
    BY <1>2
  <2>2. p >= 10 * Resolution
    BY <1>1, <1>3, <1>9, <2>1
  <2>3. TenTo[k + 1] = 10 * b
    BY TenToNext
  <2> HIDE DEF b, p
  <2>4. b * p >= b * (10 * Resolution) /\ b * p \in Int
    BY <1>1, <2>1, <2>2
  <2>5. b * (10 * Resolution) = (10 * b) * Resolution /\ (10 * b) * Resolution \in Int
    BY <1>1, <2>1
  <2> QED BY <1>1, <2>1, <2>3, <2>4, <2>5
<1>10. ASSUME n # 0 PROVE TenTo[n] * Resolution <= abs64(c)
  <2> HIDE DEF n
  <2>1. n - 1 \in Nat /\ n - 1 \in 0..(WordDigits + 1) /\ n - 1 < n /\ (n - 1) + 1 = n
    BY <1>1, <1>7, <1>10
  <2>2. ~Fits(Quo(c, TenTo[n - 1]))
    BY <1>8, <2>1
  <2>3. TenTo[(n - 1) + 1] * Resolution <= abs64(c)
    BY <1>9, <2>1, <2>2
  <2> QED BY <2>1, <2>3
<1>11. TenTo[n] <= abs64(c)
  <2> HIDE DEF n
  <2>1. CASE n = 0
    <3>1. abs64(c) # 0
      BY <1>1 DEF abs64
    <3> QED BY <1>1, <2>1, <3>1, TenToNext
  <2>2. CASE n # 0
    <3>1. TenTo[n] \in Nat
      BY <1>7, TenToType
    <3>2. TenTo[n] <= TenTo[n] * Resolution /\ TenTo[n] * Resolution \in Int
      BY <1>1, <3>1
    <3> QED BY <1>1, <1>10, <2>2, <3>1, <3>2
  <2> QED BY <2>1, <2>2
<1>12. Fits(q)
  <2> SUFFICES ASSUME ~Fits(q) PROVE FALSE
    OBVIOUS
  <2>1. x.exp + n = MaxExp
    BY <1>6
  <2>2. TenTo[n + 1] * Resolution <= abs64(c)
    BY <1>7, <1>9
  <2> HIDE DEF n
  <2>3. n + 1 \in Nat /\ TenTo[n + 1] \in Nat
    BY <1>7, TenToType
  <2>4. TenTo[n + 1] <= abs64(c)
    <3>1. TenTo[n + 1] <= TenTo[n + 1] * Resolution /\ TenTo[n + 1] * Resolution \in Int
      BY <1>1, <2>3
    <3> QED BY <1>1, <2>2, <2>3, <3>1
  <2>5. x.exp + (n + 1) <= MaxExp
    BY <2>3, <2>4 DEF Roomy
  <2> QED BY <1>1, <1>7, <2>1, <2>5
<1>13. ScaledDown(c, x.exp) = Dropped(c, x.exp, n)
  BY DEF ScaledDown
<1> HIDE DEF n, T
<1>14. /\ Dropped(c, x.exp, n) = d /\ Roomy(d)
       /\ q \in Int /\ q # 0 /\ (q > 0 <=> c > 0)
  BY <1>7, <1>11, DroppedIs
<1>15. ASSUME Fits(c) PROVE d = x
  <2>1. 0 \in T
    <3>1. Quo(c, TenTo[0]) = c
      BY <1>1, QuoOfOne, TenToNext
    <3> QED BY <1>1, <1>15, <3>1 DEF T
  <2>2. n = 0
    BY <1>6, <1>7, <2>1
  <2>3. q = c
    BY <1>1, <2>2, QuoOfOne, TenToNext
  <2>4. d.coef = x.coef /\ d.exp = x.exp
    BY <1>1, <2>2, <2>3
  <2> QED BY <1>1, <2>4 DEF Digits
<1>16. ASSUME c > 0, ~Fits(c) PROVE Near(d, x, Resolution)
  <2>1. n # 0
    <3> SUFFICES ASSUME n = 0 PROVE FALSE
      OBVIOUS
    <3>1. q = c
      BY <1>1, QuoOfOne, TenToNext
    <3> QED BY <1>12, <1>16, <3>1
  <2> DEFINE b == TenTo[n]
  <2>2. Resolution * b <= c
    <3>1. abs64(c) = c /\ b \in Int
      BY <1>1, <1>7, <1>16, AbsType, TenToType
    <3>2. b * Resolution <= c
      BY <1>10, <2>1, <3>1
    <3> HIDE DEF b
    <3>3. b * Resolution = Resolution * b
      BY <1>1, <3>1
    <3> QED BY <3>2, <3>3
  <2>3. q > 0 /\ b \in Int /\ b >= 1 /\ b * q <= c /\ c < b * q + b
    <3>1. q > 0
      BY <1>14, <1>16
    <3>2. abs64(q) = q /\ abs64(c) = c
      <4> HIDE DEF q, c
      <4> QED BY <1>1, <1>14, <1>16, <3>1, AbsType
    <3> QED BY <1>2, <1>7, <3>1, <3>2
  <2>4. d \in Digits /\ d.exp - x.exp = n /\ x.exp <= d.exp /\ d.coef = q
    BY <1>1, <1>7, <1>14 DEF Digits
  <2> HIDE DEF d, q, c
  <2>5. Scaled(d, x.exp) = q * b
    BY <2>4 DEF Scaled
  <2>6. Scaled(x, x.exp) = c
    BY <1>1, ScaledHere DEF c
  <2> HIDE DEF b
  <2>7. 0 <= q * b /\ q * b <= c /\ Resolution * (c - q * b) < c
    <3>1. q * b = b * q /\ b * q \in Int /\ b * q >= 0
      BY <1>14, <2>3
    <3> DEFINE u == c - q * b
    <3>2. u \in Int /\ u < b
      BY <1>1, <2>3, <3>1
    <3> HIDE DEF u
    <3>3. Resolution * u < Resolution * b /\ Resolution * u \in Int /\ Resolution * b \in Int
      BY <1>1, <2>3, <3>2
    <3>4. Resolution * u < c
      BY <1>1, <2>2, <3>3
    <3> QED BY <1>1, <2>3, <3>1, <3>4 DEF u
  <2> QED BY <1>1, <2>4, <2>5, <2>6, <2>7, NearAt
<1>17. d.coef = q
  OBVIOUS
<1> QED BY <1>12, <1>13, <1>14, <1>15, <1>16, <1>17

\* Zeros are added to a small number with an exponent while it fits.
LEMMA UpFacts ==
  ASSUME NEW x, Roomy(x), Fits(x.coef), x.exp > 0,
         x.coef > 0 \/ x.coef * TenTo[x.exp] >= -MAX_COEFF
  PROVE  LET d == ScaledUp(x.coef, x.exp) IN
         d \in Decimals /\ Same(d, x)
<1> DEFINE c == x.coef
           w(k) == Word(c * TenTo[k])
           T == {k \in 0..x.exp : w(k) >= MAX_COEFF \div 10 \/ k = x.exp}
           n == Min(T)
           d == [coef |-> w(n), exp |-> x.exp - n]
<1>1. /\ x \in Digits /\ c \in Int /\ x.exp \in Nat /\ x.exp <= MaxExp /\ MaxExp \in Nat
      /\ MAX_COEFF \in Nat /\ MaxWord \in Nat /\ MAX_COEFF <= MaxWord
      /\ c \in -MAX_COEFF..MAX_COEFF
  BY Widths DEF Roomy, Digits, Fits
<1>2. T \subseteq Nat /\ x.exp \in T
  BY <1>1
<1>3. n \in T /\ \A i \in T : n <= i
  <2> HIDE DEF T
  <2> QED BY <1>2, MinOfNats
<1>4. n \in Nat /\ n <= x.exp
  BY <1>1, <1>3
<1>5. \A k \in Nat : TenTo[k] \in Nat /\ TenTo[k] >= 1 /\ c * TenTo[k] \in Int
  BY <1>1, TenToType
<1>6. \A k \in Nat : k < n => w(k) < MAX_COEFF \div 10
  <2> SUFFICES ASSUME NEW k \in Nat, k < n, ~(w(k) < MAX_COEFF \div 10) PROVE FALSE
    OBVIOUS
  <2>1. w(k) \in Int /\ MAX_COEFF \div 10 \in Int
    <3>1. MAX_COEFF \div 10 \in Int
      BY <1>1
    <3>2. Word(c * TenTo[k]) \in (-MaxWord - 1)..MaxWord
      BY <1>5, WordWraps
    <3> QED BY <1>1, <3>1, <3>2
  <2>2. k \in T
    BY <1>1, <1>4, <2>1
  <2>3. n <= k
    BY <1>3, <2>2
  <2> HIDE DEF n
  <2> QED BY <1>4, <2>3
<1> HIDE DEF T, n
<1> DEFINE I == {i \in Nat : i <= n => c * TenTo[i] \in -MAX_COEFF..MAX_COEFF}
<1>7. ASSUME c > 0 PROVE n \in I
  <2>1. 0 \in I
    <3>1. c * TenTo[0] = c
      BY <1>1, TenToNext
    <3> QED BY <1>1, <3>1
  <2>2. ASSUME NEW i \in Nat, i \in I PROVE i + 1 \in I
    <3> SUFFICES ASSUME i + 1 <= n PROVE c * TenTo[i + 1] \in -MAX_COEFF..MAX_COEFF
      OBVIOUS
    <3> DEFINE p == c * TenTo[i]
    <3>1. p \in -MAX_COEFF..MAX_COEFF /\ i < n
      BY <1>4, <2>2
    <3>2. Word(p) = p
      <4>1. p \in Int /\ -MaxWord - 1 <= p /\ p <= MaxWord
        <5> HIDE DEF p
        <5> QED BY <1>1, <3>1
      <4> HIDE DEF p
      <4> QED BY <4>1, WordIs
    <3>3. p < MAX_COEFF \div 10
      BY <1>6, <3>1, <3>2
    <3>4. p >= 0
      <4>1. TenTo[i] \in Nat
        BY TenToType
      <4> QED BY <1>1, <1>7, <4>1
    <3>5. c * TenTo[i + 1] = 10 * p
      <4>1. TenTo[i + 1] = 10 * TenTo[i] /\ TenTo[i] \in Int
        BY TenToNext, TenToType
      <4> QED BY <1>1, <4>1
    <3> HIDE DEF p
    <3>6. 10 * p <= MAX_COEFF /\ 10 * p >= -MAX_COEFF
      <4>1. p \in Int
        BY <1>1, <3>1
      <4> QED BY <1>1, <3>3, <3>4, <4>1
    <3> QED BY <1>1, <3>1, <3>5, <3>6
  <2> HIDE DEF I
  <2>3. Nat \subseteq I
    BY <2>1, <2>2, Inductive
  <2> QED BY <1>4, <2>3 DEF I
<1>8. ASSUME c <= 0 PROVE n \in I
  <2>1. c * TenTo[x.exp] >= -MAX_COEFF
    BY <1>1, <1>8
  <2>2. TenTo[n] \in Nat /\ TenTo[x.exp] \in Nat /\ TenTo[n] <= TenTo[x.exp]
    BY <1>1, <1>4, TenToType, TenToLess
  <2>3. c * TenTo[n] >= c * TenTo[x.exp]
    BY <1>1, <1>8, <2>2
  <2>4. c * TenTo[n] <= 0
    BY <1>1, <1>8, <2>2
  <2>5. c * TenTo[x.exp] \in Int
    BY <1>1, <2>2
  <2>6. c * TenTo[n] \in Int
    BY <1>1, <2>2
  <2>7. c * TenTo[n] \in -MAX_COEFF..MAX_COEFF
    BY <1>1, <2>1, <2>3, <2>4, <2>5, <2>6
  <2> QED BY <1>4, <2>7
<1>9. n \in I
  BY <1>1, <1>7, <1>8
<1>10. c * TenTo[n] \in -MAX_COEFF..MAX_COEFF /\ c * TenTo[n] \in Int
  BY <1>4, <1>5, <1>9
<1> HIDE DEF I
<1>11. w(n) = c * TenTo[n]
  <2> DEFINE p == c * TenTo[n]
  <2>1. p \in Int /\ -MaxWord - 1 <= p /\ p <= MaxWord
    BY <1>1, <1>10
  <2> HIDE DEF p
  <2>2. Word(p) = p
    BY <2>1, WordIs
  <2> QED BY <2>2 DEF p
<1>12. ScaledUp(c, x.exp) = d
  BY DEF ScaledUp, ZerosAdded, n, T
<1>13. d \in Digits /\ d.coef = c * TenTo[n] /\ d.exp = x.exp - n /\ d.exp <= x.exp /\ x.exp - d.exp = n
  BY <1>1, <1>4, <1>10, <1>11 DEF Digits
<1>14. d \in Decimals
  <2>1. x.exp - n \in -MaxExp..MaxExp
    BY <1>1, <1>4
  <2> QED BY <1>10, <1>11, <2>1 DEF Decimals
<1> HIDE DEF d
<1>15. Same(d, x)
  <2>1. Scaled(d, d.exp) = c * TenTo[n]
    BY <1>13, ScaledHere
  <2>2. Scaled(x, d.exp) = c * TenTo[n]
    BY <1>13 DEF Scaled
  <2>3. d.exp \in Int
    BY <1>13 DEF Digits
  <2> QED BY <1>1, <1>13, <2>1, <2>2, <2>3, SameAt
<1> QED BY <1>12, <1>14, <1>15

\* The stripped digits of a long negative coefficient leave it the room for them.
LEMMA AdjustedFacts ==
  ASSUME NEW x, Roomy(x), Fits(x.coef), x.coef # 0, x.coef > 0 \/ x.exp <= 0
  PROVE  Adjusted[x] \in Decimals /\ Same(Adjusted[x], x)
<1> DEFINE long == abs64(x.coef) >= TenTo[MaxDigits]
           d == IF long THEN Stripped(x.coef, x.exp, TRUE) ELSE x
           p == Pointed[d]
<1>1. /\ x \in Digits /\ x.coef \in Int /\ x.exp \in Int /\ MAX_COEFF \in Nat
      /\ MaxExp \in Nat /\ x.coef \in -MAX_COEFF..MAX_COEFF
  BY Widths DEF Roomy, Digits, Fits
<1>2. /\ Roomy(d) /\ Fits(d.coef) /\ d.coef # 0 /\ Same(d, x)
      /\ (d.coef > 0 \/ d.exp <= 0 \/ d.coef * TenTo[d.exp] >= -MAX_COEFF)
  <2>1. CASE long
    <3> DEFINE s == Stripped(x.coef, x.exp, TRUE)
    <3>1. /\ Roomy(s) /\ Same(s, x) /\ s.coef # 0 /\ (s.coef > 0 <=> x.coef > 0)
          /\ abs64(s.coef) <= abs64(x.coef)
          /\ s.exp >= x.exp /\ x.coef = s.coef * TenTo[s.exp - x.exp]
      BY StripFacts
    <3> HIDE DEF s
    <3>2. s.coef \in Int /\ s.exp \in Int
      BY <3>1 DEF Roomy, Digits
    <3>3. Fits(s.coef)
      BY <1>1, <3>1, <3>2 DEF Fits, abs64
    <3>4. s.coef > 0 \/ s.exp <= 0 \/ s.coef * TenTo[s.exp] >= -MAX_COEFF
      <4> SUFFICES ASSUME ~(s.coef > 0), s.exp > 0 PROVE s.coef * TenTo[s.exp] >= -MAX_COEFF
        BY <3>2
      <4>1. s.coef < 0 /\ x.exp <= 0
        BY <1>1, <3>1, <3>2
      <4>2. s.exp \in Nat /\ s.exp - x.exp \in Nat /\ s.exp <= s.exp - x.exp
        BY <1>1, <3>1, <3>2, <4>1
      <4> DEFINE u == TenTo[s.exp]
                 v == TenTo[s.exp - x.exp]
      <4>3. u \in Nat /\ v \in Nat /\ u <= v
        BY <4>2, TenToType, TenToLess
      <4> HIDE DEF u, v
      <4>4. s.coef * u >= s.coef * v /\ s.coef * u \in Int /\ s.coef * v \in Int
        BY <3>2, <4>1, <4>3
      <4>5. s.coef * v = x.coef
        BY <3>1 DEF v
      <4>6. s.coef * u >= -MAX_COEFF
        BY <1>1, <4>4, <4>5
      <4> QED BY <4>6 DEF u
    <3>5. d = s
      BY <2>1 DEF s
    <3> HIDE DEF d
    <3> QED BY <3>1, <3>3, <3>4, <3>5
  <2>2. CASE ~long
    <3>1. d = x
      BY <2>2
    <3> HIDE DEF d
    <3> QED BY <1>1, <3>1, SameAsItself
  <2> QED BY <2>1, <2>2
<1>3. Adjusted[x] = Packed[p]
  BY <1>1 DEF Adjusted
<1> HIDE DEF d, long
<1>4. d \in Digits /\ d.coef \in Int /\ d.exp \in Int /\ d.exp \in -MaxExp..MaxExp
  BY <1>2 DEF Roomy, Digits
<1>5. p \in Decimals /\ Same(p, d)
  <2> DEFINE stripped == Stripped(d.coef, d.exp, FALSE)
             scaled == ScaledUp(d.coef, d.exp)
  <2>0. p = CASE d.exp < 0 -> stripped [] d.exp > 0 /\ d.exp < MaxDigits -> scaled [] OTHER -> d
    BY <1>4, Zenon DEF Pointed
  <2> HIDE DEF stripped, scaled, p
  <2>1. CASE d.exp < 0
    <3> DEFINE s == stripped
    <3>1. p = s
      BY <1>4, <2>0, <2>1
    <3>2. Roomy(s) /\ Same(s, d) /\ abs64(s.coef) <= abs64(d.coef)
      BY <1>2, StripFacts DEF stripped
    <3> HIDE DEF s
    <3>3. s \in [coef : Int, exp : Int] /\ s.exp \in -MaxExp..MaxExp
      BY <3>2 DEF Roomy, Digits
    <3>4. s.coef \in -MAX_COEFF..MAX_COEFF
      BY <1>1, <1>2, <1>4, <3>2, <3>3 DEF Fits, abs64
    <3>5. s \in Decimals
      BY <3>3, <3>4 DEF Decimals
    <3> QED BY <3>1, <3>2, <3>5
  <2>2. CASE d.exp > 0 /\ d.exp < MaxDigits
    <3>1. p = ScaledUp(d.coef, d.exp)
      BY <1>4, <2>0, <2>2 DEF scaled
    <3>2. d.coef > 0 \/ d.coef * TenTo[d.exp] >= -MAX_COEFF
      BY <1>2, <1>4, <2>2
    <3> HIDE DEF p
    <3> QED BY <1>2, <2>2, <3>1, <3>2, UpFacts
  <2>3. CASE ~(d.exp < 0) /\ ~(d.exp > 0 /\ d.exp < MaxDigits)
    <3>1. p = d
      BY <1>4, <2>0, <2>3
    <3>2. d \in Decimals
      BY <1>2, <1>4 DEF Decimals, Digits, Fits
    <3> HIDE DEF p
    <3> QED BY <1>4, <3>1, <3>2, SameAsItself
  <2> QED BY <2>1, <2>2, <2>3
<1> HIDE DEF p
<1>6. p \in Digits /\ p.coef \in Int /\ p.exp \in Int /\ Fits(p.coef) /\ p.exp \in -MaxExp..MaxExp
  BY <1>1, <1>5 DEF Decimals, Digits, Fits
<1>7. Packed[p] = p
  <2>1. Signed(p.coef, CoefBits) = p.coef
    BY <1>6, CoefIs
  <2>2. Exp(p.exp) = p.exp
    <3>1. -MaxExp - 1 <= p.exp /\ p.exp <= MaxExp
      BY <1>1, <1>6
    <3> QED BY <1>6, <3>1, ExpIs
  <2>3. Packed[p] = [coef |-> p.coef, exp |-> p.exp]
    BY <1>6, <2>1, <2>2 DEF Packed, New
  <2> QED BY <1>6, <2>3 DEF Digits
<1>8. Same(p, x)
  BY <1>1, <1>2, <1>4, <1>5, <1>6, SameIsTransitive
<1> QED BY <1>3, <1>5, <1>7, <1>8

\* Zero is stored as it is.
LEMMA ZeroIs ==
  ZERO = [coef |-> 0, exp |-> 0] /\ ZERO \in Decimals
<1>1. Fits(0) /\ MaxExp \in Nat /\ MAX_COEFF \in Nat
  BY Widths DEF Fits
<1>2. Signed(0, CoefBits) = 0
  BY <1>1, CoefIs
<1>3. Exp(0) = 0
  BY <1>1, ExpIs
<1>4. ZERO = [coef |-> 0, exp |-> 0]
  BY <1>2, <1>3 DEF ZERO, New
<1> QED BY <1>1, <1>4 DEF Decimals

\* normalizeTowardZero keeps the number, or all of it but its last digits, and
\* what it returns is the number of a Dec64: neither the coefficient nor the
\* exponent wraps when they are put into the word (dec64.go, normalizeTowardZero
\* and New).  The hypothesis InRange is there for the loop that strips zeros: it
\* counts the exponent up without a bound.
THEOREM NormalFormKept ==
  ASSUME NEW x \in Digits, x.coef \in -MaxWord..MaxWord, InRange(x)
  PROVE  LET d == normalizeTowardZero(x.coef, x.exp) IN
         /\ Kept(d, x, Resolution)
         /\ x.coef >= 0 \/ (Fits(x.coef) /\ x.exp <= 0) => d \in Decimals
<1> DEFINE r == normalizeTowardZero(x.coef, x.exp)
<1>1. x.coef \in Int /\ x.exp \in Int
  BY DEF Digits
<1>2. Roomy(x)
  BY InRangeIsRoomy
<1>3. r = IF x.coef = 0 THEN ZERO ELSE IfFits[ScaledDown(x.coef, x.exp)]
  <2>1. [coef |-> x.coef, exp |-> x.exp] \in Digits
    BY <1>1 DEF Digits
  <2> QED BY <2>1 DEF normalizeTowardZero, Normal
<1> SUFFICES ASSUME x.coef >= 0 \/ (Fits(x.coef) /\ x.exp <= 0)
             PROVE  /\ Fits(x.coef) => Same(r, x)
                    /\ ~Fits(x.coef) => Near(r, x, Resolution)
                    /\ r \in Decimals
  <2> QED BY <1>1 DEF Kept
<1>4. CASE x.coef = 0
  <2>1. r = [coef |-> 0, exp |-> 0] /\ r \in Decimals
    BY <1>3, <1>4, ZeroIs
  <2>2. r \in Digits /\ r.coef = 0
    BY <2>1 DEF Digits
  <2> HIDE DEF r
  <2>3. Meet(r, x) \in Int /\ Meet(r, x) <= r.exp /\ Meet(r, x) <= x.exp
    BY <2>2, MeetType
  <2>4. /\ TenTo[r.exp - Meet(r, x)] \in Nat /\ TenTo[x.exp - Meet(r, x)] \in Nat
    BY <2>2, <2>3, ScaledType
  <2>5. Scaled(r, Meet(r, x)) = 0 /\ Scaled(x, Meet(r, x)) = 0
    BY <1>4, <2>2, <2>4 DEF Scaled
  <2>6. Same(r, x)
    BY <2>5 DEF Same
  <2>7. Fits(x.coef)
    BY <1>4, Widths DEF Fits
  <2> QED BY <2>1, <2>6, <2>7
<1>5. CASE x.coef # 0
  <2> DEFINE d == ScaledDown(x.coef, x.exp)
  <2>1. /\ Roomy(d) /\ Fits(d.coef) /\ d.coef # 0 /\ (d.coef > 0 <=> x.coef > 0)
        /\ Fits(x.coef) => d = x
        /\ x.coef > 0 /\ ~Fits(x.coef) => Near(d, x, Resolution)
    BY <1>2, <1>5, DownFacts
  <2>2. r = IfFits[d]
    BY <1>3, <1>5
  <2> HIDE DEF d
  <2>3. d \in Digits /\ d.coef \in Int
    BY <2>1 DEF Roomy, Digits
  <2>4. r = Adjusted[d]
    BY <2>1, <2>2, <2>3 DEF IfFits
  <2>5. d.coef > 0 \/ d.exp <= 0
    BY <1>1, <1>5, <2>1
  <2> HIDE DEF r
  <2>6. r \in Decimals /\ Same(r, d)
    BY <2>1, <2>4, <2>5, AdjustedFacts
  <2>7. r \in Digits
    BY <2>6, Widths DEF Decimals, Digits
  <2>8. Fits(x.coef) => Same(r, x)
    BY <2>1, <2>6
  <2>9. ~Fits(x.coef) => Near(r, x, Resolution)
    BY <1>1, <1>5, <2>1, <2>3, <2>6, <2>7, SameIsTransitive, ResolutionIs
  <2> QED BY <2>6, <2>8, <2>9
<1> QED BY <1>4, <1>5

----------------------------------------------------------------------------
(* Aligning two numbers *)

\* The recursive definition of Pow10 defines a function.
LEMMA Pow10Def ==
  Pow10 = [n \in 0..MaxExp |-> IF n = 0 THEN 1 ELSE Word(10 * Pow10[n - 1])]
<1> DEFINE s == [x \in Int |-> Word(10 * x)]
<1>0. MaxExp \in Nat /\ MaxWord \in Nat
  BY Widths
<1>1. s \in [Int -> Int] /\ 1 \in Int
  <2>1. \A x \in Int : Word(10 * x) \in Int
    <3> TAKE x \in Int
    <3>1. 10 * x \in Int
      OBVIOUS
    <3>2. Word(10 * x) \in (-MaxWord - 1)..MaxWord
      BY <3>1, WordWraps
    <3> QED BY <1>0, <3>2
  <2> QED BY <2>1
<1>2. PICK f : f \in [Nat -> Int] /\ f[0] = 1 /\ \A n \in Nat : f[n + 1] = s[f[n]]
  <2> HIDE DEF s
  <2>1. \E f : Iteration(Int, s, 1, f)
    BY <1>1, Iterates, Zenon
  <2> QED BY <2>1 DEF Iteration
<1> DEFINE g == [n \in 0..MaxExp |-> f[n]]
<1>3. ASSUME NEW n \in 0..MaxExp PROVE g[n] = IF n = 0 THEN 1 ELSE Word(10 * g[n - 1])
  <2>1. CASE n = 0
    BY <1>2, <2>1
  <2>2. CASE n # 0
    <3>1. n - 1 \in Nat /\ n - 1 \in 0..MaxExp /\ (n - 1) + 1 = n
      BY <1>0, <2>2
    <3>2. f[n - 1] \in Int /\ f[(n - 1) + 1] = s[f[n - 1]]
      BY <1>2, <3>1
    <3>3. s[f[n - 1]] = Word(10 * f[n - 1])
      BY <3>2
    <3>4. g[n - 1] = f[n - 1] /\ g[n] = f[n]
      BY <3>1
    <3> QED BY <2>2, <3>1, <3>2, <3>3, <3>4
  <2> QED BY <2>1, <2>2
<1>4. g = [n \in 0..MaxExp |-> g[n]]
  OBVIOUS
<1> HIDE DEF s, g
<1>5. g = [n \in 0..MaxExp |-> IF n = 0 THEN 1 ELSE Word(10 * g[n - 1])]
  BY <1>3, <1>4
<1>6. \E h : h = [n \in 0..MaxExp |-> IF n = 0 THEN 1 ELSE Word(10 * h[n - 1])]
  BY <1>5
<1> QED BY <1>6, Zenon DEF Pow10

\* The products of the loop are powers of ten for as long as they are words.
LEMMA Pow10Is ==
  \A n \in 0..MaxExp : Pow10[n] \in Int /\ (TenTo[n] <= MaxWord => Pow10[n] = TenTo[n])
<1> DEFINE T == {n \in Nat : n <= MaxExp =>
                   Pow10[n] \in Int /\ (TenTo[n] <= MaxWord => Pow10[n] = TenTo[n])}
<1>0. MaxExp \in Nat /\ MaxWord \in Nat
  BY Widths
<1>1. 0 \in T
  <2>1. Pow10[0] = 1
    BY <1>0, Pow10Def
  <2> QED BY <2>1, TenToNext
<1>2. ASSUME NEW n \in Nat, n \in T PROVE n + 1 \in T
  <2> SUFFICES ASSUME n + 1 <= MaxExp
               PROVE  Pow10[n + 1] \in Int /\ (TenTo[n + 1] <= MaxWord => Pow10[n + 1] = TenTo[n + 1])
    OBVIOUS
  <2>1. n + 1 \in 0..MaxExp /\ n + 1 # 0 /\ (n + 1) - 1 = n /\ n <= MaxExp
    BY <1>0
  <2>2. Pow10[n + 1] = Word(10 * Pow10[n])
    BY <2>1, Pow10Def
  <2>3. Pow10[n] \in Int /\ (TenTo[n] <= MaxWord => Pow10[n] = TenTo[n])
    BY <1>2, <2>1
  <2>4. TenTo[n + 1] = 10 * TenTo[n] /\ TenTo[n] \in Nat
    BY TenToNext, TenToType
  <2>5. Pow10[n + 1] \in Int
    <3>1. 10 * Pow10[n] \in Int
      BY <2>3
    <3>2. Word(10 * Pow10[n]) \in (-MaxWord - 1)..MaxWord
      BY <3>1, WordWraps
    <3> QED BY <1>0, <2>2, <3>2
  <2>6. ASSUME TenTo[n + 1] <= MaxWord PROVE Pow10[n + 1] = TenTo[n + 1]
    <3>1. TenTo[n] <= MaxWord
      BY <1>0, <2>4, <2>6
    <3>2. Pow10[n + 1] = Word(TenTo[n + 1])
      BY <2>2, <2>3, <2>4, <3>1
    <3>3. TenTo[n + 1] \in Int /\ -MaxWord - 1 <= TenTo[n + 1]
      BY <1>0, <2>4
    <3> QED BY <2>6, <3>2, <3>3, WordIs
  <2> QED BY <2>5, <2>6
<1> HIDE DEF T
<1>3. Nat \subseteq T
  BY <1>1, <1>2, Inductive
<1> QED BY <1>0, <1>3 DEF T

\* One number scaled to a lower exponent, when it is a word there.
LEMMA ShiftedIs ==
  ASSUME NEW x \in Decimals, NEW e \in -MaxExp..MaxExp, e < x.exp, Scaled(x, e) \in -MaxWord..MaxWord
  PROVE  Shifted(x.coef, Exp(x.exp - e)) = Scaled(x, e)
<1> DEFINE c == x.coef
           n == x.exp - e
<1>1. /\ MaxExp \in Nat /\ MaxWord \in Nat /\ MAX_COEFF \in Nat /\ WordDigits \in Nat /\ WordDigits < MaxExp
      /\ c \in Int /\ n \in Nat /\ n > 0 /\ Scaled(x, e) = c * TenTo[n]
  BY Widths, WordDigitsFit DEF Decimals, Scaled
<1> HIDE DEF c, n
<1>2. CASE c = 0
  <2>1. Scaled(x, e) = 0
    BY <1>1, <1>2, TenToType
  <2>2. Word(0) = 0
    BY <1>1, WordIs
  <2>3. ASSUME NEW k \in Int, k <= MaxExp PROVE Shifted(0, k) = 0
    <3>1. CASE k <= 0
      BY <3>1 DEF Shifted
    <3>2. CASE ~(k <= 0)
      <4>1. Pow10[k] \in Int
        BY <1>1, <2>3, <3>2, Pow10Is
      <4>2. 0 * Pow10[k] = 0
        BY <4>1
      <4> QED BY <2>2, <3>2, <4>2 DEF Shifted
    <3> QED BY <3>1, <3>2
  <2>4. Exp(n) \in Int /\ Exp(n) <= MaxExp
    <3> DEFINE h == 2^(ExpBits - 1)
    <3>1. h \in Nat /\ 2^ExpBits = 2 * h /\ MaxExp = h - 1
      BY Widths DEF MaxExp
    <3>2. Exp(n) = ((n + h) % 2^ExpBits) - h
      BY DEF Exp, Signed
    <3> HIDE DEF h
    <3>3. h > 0
      BY <1>1, <3>1
    <3>4. ((n + h) % (2 * h)) - h \in -h..(h - 1)
      BY <1>1, <3>1, <3>3, SignedStep
    <3> QED BY <3>1, <3>2, <3>4
  <2> QED BY <1>2, <2>1, <2>3, <2>4 DEF c, n
<1>3. CASE c # 0
  <2>1. TenTo[n] \in Nat /\ TenTo[n] <= MaxWord
    <3>1. TenTo[n] \in Nat
      BY <1>1, TenToType
    <3>2. abs64(c * TenTo[n]) = abs64(c) * TenTo[n] /\ abs64(c) \in Nat /\ abs64(c) # 0
      <4>1. abs64(c) # 0
        BY <1>1, <1>3 DEF abs64
      <4> QED BY <1>1, <3>1, <4>1, AbsOfProduct, AbsType
    <3>3. abs64(c * TenTo[n]) <= MaxWord
      <4> DEFINE v == c * TenTo[n]
      <4>1. v \in -MaxWord..MaxWord
        BY <1>1
      <4> HIDE DEF v
      <4>2. abs64(v) <= MaxWord
        BY <1>1, <4>1 DEF abs64
      <4> QED BY <4>2 DEF v
    <3>4. TenTo[n] <= abs64(c) * TenTo[n]
      BY <3>1, <3>2
    <3>5. abs64(c) * TenTo[n] \in Int
      BY <3>1, <3>2
    <3> QED BY <1>1, <3>1, <3>2, <3>3, <3>4, <3>5
  <2>2. n <= WordDigits
    <3>1. MaxWord \in -MaxWord..MaxWord /\ abs64(MaxWord) = MaxWord
      BY <1>1, AbsType
    <3> QED BY <1>1, <2>1, <3>1, DigitsOfWord
  <2>3. Exp(n) = n /\ n \in 0..MaxExp
    <3>1. n \in Int /\ -MaxExp - 1 <= n /\ n <= MaxExp
      BY <1>1, <2>2
    <3> QED BY <1>1, <3>1, ExpIs
  <2>4. Pow10[n] = TenTo[n]
    BY <2>1, <2>3, Pow10Is
  <2>5. Shifted(c, n) = Word(c * TenTo[n])
    BY <1>1, <2>4 DEF Shifted
  <2>6. Word(c * TenTo[n]) = c * TenTo[n]
    <3> DEFINE v == c * TenTo[n]
    <3>1. v \in Int /\ -MaxWord - 1 <= v /\ v <= MaxWord
      BY <1>1
    <3> HIDE DEF v
    <3> QED BY <3>1, WordIs DEF v
  <2> QED BY <1>1, <2>3, <2>5, <2>6 DEF c, n
<1> QED BY <1>2, <1>3

\* normalizePair brings two numbers to the lower one of their exponents.
LEMMA PairIs ==
  ASSUME NEW a \in Decimals, NEW b \in Decimals, InWord(a, b)
  PROVE  LET e == Meet(a, b) IN
         /\ normalizePair(a, b) = [a |-> Scaled(a, e), b |-> Scaled(b, e), exp |-> e]
         /\ e \in -MaxExp..MaxExp
         /\ Scaled(a, e) \in -MaxWord..MaxWord /\ Scaled(b, e) \in -MaxWord..MaxWord
         /\ Scaled(a, e) + Scaled(b, e) \in -MaxWord..MaxWord
         /\ Scaled(a, e) - Scaled(b, e) \in -MaxWord..MaxWord
<1> DEFINE e == Meet(a, b)
<1>1. /\ a \in Digits /\ b \in Digits /\ a.exp \in -MaxExp..MaxExp /\ b.exp \in -MaxExp..MaxExp
      /\ MaxExp \in Nat /\ a.exp \in Int /\ b.exp \in Int
  BY Widths DEF Decimals, Digits
<1>2. e = IF a.exp <= b.exp THEN a.exp ELSE b.exp
  BY <1>1, MeetType
<1>3. /\ Scaled(a, e) \in -MaxWord..MaxWord /\ Scaled(b, e) \in -MaxWord..MaxWord
      /\ Scaled(a, e) + Scaled(b, e) \in -MaxWord..MaxWord
      /\ Scaled(a, e) - Scaled(b, e) \in -MaxWord..MaxWord
  BY DEF InWord
<1> HIDE DEF e
<1>4. Scaled(a, a.exp) = a.coef /\ Scaled(b, b.exp) = b.coef
  BY <1>1, ScaledHere
<1>5. CASE a.exp > b.exp
  <2>1. e = b.exp /\ e < a.exp /\ ~(b.exp > a.exp) /\ ~(a.exp < b.exp)
    BY <1>1, <1>2, <1>5
  <2>2. Shifted(a.coef, Exp(a.exp - e)) = Scaled(a, e)
    BY <1>1, <1>3, <2>1, ShiftedIs
  <2>3. normalizePair(a, b) = [a |-> Scaled(a, e), b |-> Scaled(b, e), exp |-> e]
    BY <1>4, <1>5, <2>1, <2>2 DEF normalizePair
  <2> QED BY <1>1, <1>3, <2>1, <2>3 DEF e
<1>6. CASE b.exp > a.exp
  <2>1. e = a.exp /\ e < b.exp /\ ~(a.exp > b.exp) /\ a.exp < b.exp
    BY <1>1, <1>2, <1>6
  <2>2. Shifted(b.coef, Exp(b.exp - e)) = Scaled(b, e)
    BY <1>1, <1>3, <2>1, ShiftedIs
  <2>3. normalizePair(a, b) = [a |-> Scaled(a, e), b |-> Scaled(b, e), exp |-> e]
    BY <1>4, <1>6, <2>1, <2>2 DEF normalizePair
  <2> QED BY <1>1, <1>3, <2>1, <2>3 DEF e
<1>7. CASE a.exp = b.exp
  <2>1. e = a.exp /\ e = b.exp /\ ~(a.exp > b.exp) /\ ~(b.exp > a.exp) /\ ~(a.exp < b.exp)
    BY <1>1, <1>2, <1>7
  <2>2. normalizePair(a, b) = [a |-> Scaled(a, e), b |-> Scaled(b, e), exp |-> e]
    BY <1>4, <2>1 DEF normalizePair
  <2> QED BY <1>1, <1>3, <2>1, <2>2 DEF e
<1> QED BY <1>1, <1>5, <1>6, <1>7

----------------------------------------------------------------------------
(* Sums, differences, remainders and comparisons *)

\* Numbers compare by value, whatever their exponents (Cmp, on which all
\* comparisons and the equality of numbers rest), when their digits align in
\* one word.
THEOREM ComparesByValue ==
  ASSUME NEW a \in Decimals, NEW b \in Decimals, InWord(a, b)
  PROVE  Cmp(a, b) = Order(a, b)
<1> DEFINE e == Meet(a, b)
           p == Scaled(a, e)
           q == Scaled(b, e)
<1>1. normalizePair(a, b) = [a |-> p, b |-> q, exp |-> e]
  BY PairIs
<1>2. p \in Int /\ q \in Int
  <2>1. p \in -MaxWord..MaxWord /\ q \in -MaxWord..MaxWord /\ MaxWord \in Nat
    BY PairIs, Widths
  <2> HIDE DEF p, q
  <2> QED BY <2>1
<1>3. Exactly("-", a, b).coef = p - q
  BY DEF Exactly
<1> HIDE DEF p, q, e
<1>4. Cmp(a, b) = CASE p < q -> -1 [] p > q -> 1 [] OTHER -> 0
  BY <1>1 DEF Cmp
<1>5. Order(a, b) = CASE p - q < 0 -> -1 [] p - q > 0 -> 1 [] OTHER -> 0
  BY <1>3 DEF Order
<1> QED BY <1>2, <1>4, <1>5

\* Add keeps the exact sum.
LEMMA SumIs ==
  ASSUME NEW a \in Decimals, NEW b \in Decimals, InWord(a, b), InRange(Exactly("+", a, b))
  PROVE  Kept(Add(a, b), Exactly("+", a, b), Resolution)
<1> DEFINE e == Meet(a, b)
           s == Scaled(a, e) + Scaled(b, e)
           x == [coef |-> s, exp |-> e]
<1>1. /\ normalizePair(a, b) = [a |-> Scaled(a, e), b |-> Scaled(b, e), exp |-> e]
      /\ e \in -MaxExp..MaxExp /\ s \in -MaxWord..MaxWord /\ MaxWord \in Nat /\ MaxExp \in Nat
  BY PairIs, Widths
<1>2. Exactly("+", a, b) = x
  BY DEF Exactly
<1>3. Add(a, b) = normalizeTowardZero(Word(s), e)
  BY <1>1 DEF Add
<1> HIDE DEF s, e
<1>4. Word(s) = s
  <2>1. s \in Int /\ -MaxWord - 1 <= s /\ s <= MaxWord
    BY <1>1
  <2> QED BY <2>1, WordIs
<1>5. x \in Digits /\ x.coef = s /\ x.exp = e
  BY <1>1 DEF Digits
<1> HIDE DEF x
<1>6. Kept(normalizeTowardZero(x.coef, x.exp), x, Resolution)
  BY <1>1, <1>2, <1>5, NormalFormKept
<1> QED BY <1>2, <1>3, <1>4, <1>5, <1>6

\* Neg negates, and stays in the range of a coefficient.
LEMMA NegIs ==
  ASSUME NEW b \in Decimals
  PROVE  /\ Neg(b) = [coef |-> -b.coef, exp |-> b.exp] /\ Neg(b) \in Decimals
         /\ \A e \in Int : e <= b.exp => Scaled(Neg(b), e) = -Scaled(b, e)
<1>1. /\ b.coef \in -MAX_COEFF..MAX_COEFF /\ b.exp \in -MaxExp..MaxExp
      /\ MAX_COEFF \in Nat /\ MaxExp \in Nat /\ b.coef \in Int /\ b.exp \in Int
  BY Widths DEF Decimals
<1>2. Fits(-b.coef) /\ -b.coef \in Int
  BY <1>1 DEF Fits
<1>3. Signed(-b.coef, CoefBits) = -b.coef
  BY <1>2, CoefIs
<1>4. Exp(b.exp) = b.exp
  <2>1. -MaxExp - 1 <= b.exp /\ b.exp <= MaxExp
    BY <1>1
  <2> QED BY <1>1, <2>1, ExpIs
<1>5. Neg(b) = [coef |-> -b.coef, exp |-> b.exp]
  BY <1>3, <1>4 DEF Neg, New
<1>6. Neg(b) \in Decimals
  BY <1>1, <1>2, <1>5 DEF Decimals, Fits
<1>7. ASSUME NEW e \in Int, e <= b.exp PROVE Scaled(Neg(b), e) = -Scaled(b, e)
  <2>1. TenTo[b.exp - e] \in Int
    BY <1>1, <1>7, TenToType
  <2>2. Scaled(Neg(b), e) = (-b.coef) * TenTo[b.exp - e]
    BY <1>5 DEF Scaled
  <2> QED BY <1>1, <2>1, <2>2 DEF Scaled
<1> QED BY <1>5, <1>6, <1>7

\* A sum and a difference that fit the coefficient are exact, larger ones lose
\* last digits only (Add and Sub, over normalizePair and normalizeTowardZero).
THEOREM SumsAreClose ==
  ASSUME NEW a \in Decimals, NEW b \in Decimals, NEW op \in {"+", "-"}, InRange(Exactly(op, a, b))
  PROVE  Close(op, a, b, IF op = "+" THEN Add(a, b) ELSE Sub(a, b))
<1> SUFFICES ASSUME InWord(a, b)
             PROVE  Kept(IF op = "+" THEN Add(a, b) ELSE Sub(a, b), Exactly(op, a, b), Resolution)
  BY DEF Close
<1>1. CASE op = "+"
  BY <1>1, SumIs
<1>2. CASE op = "-"
  <2> DEFINE n == Neg(b)
             e == Meet(a, b)
  <2>1. n \in Decimals /\ n.exp = b.exp /\ \A m \in Int : m <= b.exp => Scaled(n, m) = -Scaled(b, m)
    BY NegIs
  <2>2. Meet(a, n) = e
    BY <2>1 DEF Meet
  <2>3. e \in Int /\ e <= b.exp /\ Scaled(a, e) \in Int /\ Scaled(b, e) \in Int /\ MaxWord \in Nat
    <3>1. a \in Digits /\ b \in Digits
      BY Widths DEF Decimals, Digits
    <3>2. Scaled(a, e) \in -MaxWord..MaxWord /\ Scaled(b, e) \in -MaxWord..MaxWord /\ MaxWord \in Nat
      BY PairIs, Widths
    <3> QED BY <3>1, <3>2, MeetType
  <2>4. Scaled(n, e) = -Scaled(b, e)
    BY <2>1, <2>3
  <2>5. Exactly("-", a, b) = [coef |-> Scaled(a, e) - Scaled(b, e), exp |-> e]
    BY DEF Exactly
  <2>6. Exactly("+", a, n) = [coef |-> Scaled(a, e) + Scaled(n, e), exp |-> e]
    BY <2>2 DEF Exactly
  <2> HIDE DEF n, e
  <2>7. Exactly("+", a, n) = Exactly("-", a, b)
    BY <2>3, <2>4, <2>5, <2>6
  <2>8. InWord(a, n)
    <3>1. /\ Scaled(a, e) \in -MaxWord..MaxWord /\ Scaled(b, e) \in -MaxWord..MaxWord
          /\ Scaled(a, e) + Scaled(b, e) \in -MaxWord..MaxWord
          /\ Scaled(a, e) - Scaled(b, e) \in -MaxWord..MaxWord
      BY PairIs DEF e
    <3> DEFINE u == Scaled(a, e)
               v == Scaled(b, e)
               w == Scaled(n, e)
    <3>2. u \in Int /\ v \in Int /\ w = -v
      BY <2>3, <2>4
    <3>3. u \in -MaxWord..MaxWord /\ w \in -MaxWord..MaxWord /\ u + w \in -MaxWord..MaxWord /\ u - w \in -MaxWord..MaxWord
      <4>1. /\ u \in -MaxWord..MaxWord /\ v \in -MaxWord..MaxWord
            /\ u + v \in -MaxWord..MaxWord /\ u - v \in -MaxWord..MaxWord
        BY <3>1
      <4> HIDE DEF u, v, w
      <4> QED BY <2>3, <3>2, <4>1
    <3> QED BY <2>2, <3>3 DEF InWord
  <2>9. Kept(Add(a, n), Exactly("+", a, n), Resolution)
    BY <1>2, <2>1, <2>7, <2>8, SumIs
  <2> QED BY <1>2, <2>7, <2>9 DEF Sub, n
<1> QED BY <1>1, <1>2

\* A remainder has the sign of the dividend, and is no larger than it.
LEMMA RemFacts ==
  ASSUME NEW a \in Int, NEW b \in Int, b # 0
  PROVE  /\ Quo(a, b) \in Int /\ Rem(a, b) \in Int
         /\ abs64(Rem(a, b)) < abs64(b) /\ abs64(Rem(a, b)) <= abs64(a)
         /\ a >= 0 => Rem(a, b) >= 0
         /\ a <= 0 => Rem(a, b) <= 0
<1> DEFINE m == abs64(a)
           n == abs64(b)
           q == m \div n
           r == m % n
<1>1. /\ m \in Nat /\ n \in Nat /\ n > 0
      /\ m = IF a < 0 THEN -a ELSE a
      /\ n = IF b < 0 THEN -b ELSE b
  BY DEF abs64
<1>2. Quo(a, b) = IF (a < 0) = (b < 0) THEN q ELSE -q
  BY DEF Quo
<1> HIDE DEF m, n
<1>3. q \in Int /\ r \in 0..(n - 1) /\ m = n * q + r
  <2>1. m \in Int /\ n \in Int /\ n > 0
    BY <1>1
  <2> QED BY <2>1, Division
<1> HIDE DEF q, r
<1>4. n * q \in Int /\ b * q \in Int /\ n * (-q) = -(n * q) /\ b * (-q) = -(b * q)
  BY <1>1, <1>3
<1>5. r <= m
  <2>1. q >= 0
    <3> SUFFICES ASSUME q <= -1 PROVE FALSE
      BY <1>3
    <3>1. n * q <= -n
      BY <1>1, <1>3
    <3> QED BY <1>1, <1>3, <1>4, <3>1
  <2>2. n * q >= 0
    BY <1>1, <1>3, <2>1
  <2> QED BY <1>1, <1>3, <1>4, <2>2
<1>6. CASE a >= 0
  <2>1. b * Quo(a, b) = n * q
    <3>1. CASE b < 0
      <4>1. Quo(a, b) = -q /\ n = -b
        BY <1>1, <1>2, <1>6, <3>1
      <4>2. (-b) * q = -(b * q)
        BY <1>3
      <4> QED BY <1>4, <4>1, <4>2
    <3>2. CASE ~(b < 0)
      <4>1. Quo(a, b) = q /\ n = b
        BY <1>1, <1>2, <1>6, <3>2
      <4> QED BY <4>1
    <3> QED BY <3>1, <3>2
  <2>2. Rem(a, b) = r
    BY <1>1, <1>3, <1>4, <1>6, <2>1 DEF Rem
  <2>3. abs64(Rem(a, b)) = r
    BY <1>3, <2>2, AbsType
  <2>4. Quo(a, b) \in Int
    BY <1>2, <1>3
  <2> QED BY <1>1, <1>3, <1>5, <1>6, <2>2, <2>3, <2>4 DEF m, n
<1>7. CASE a < 0
  <2>1. b * Quo(a, b) = -(n * q)
    <3>1. CASE b < 0
      <4>1. Quo(a, b) = q /\ n = -b
        BY <1>1, <1>2, <1>7, <3>1
      <4>2. (-b) * q = -(b * q)
        BY <1>3
      <4> QED BY <1>4, <4>1, <4>2
    <3>2. CASE ~(b < 0)
      <4>1. Quo(a, b) = -q /\ n = b
        BY <1>1, <1>2, <1>7, <3>2
      <4> QED BY <1>4, <4>1
    <3> QED BY <3>1, <3>2
  <2>2. Rem(a, b) = -r
    BY <1>1, <1>3, <1>4, <1>7, <2>1 DEF Rem
  <2>3. abs64(Rem(a, b)) = r
    BY <1>3, <2>2, AbsType
  <2>4. Quo(a, b) \in Int
    BY <1>2, <1>3
  <2> QED BY <1>1, <1>3, <1>5, <1>7, <2>2, <2>3, <2>4 DEF m, n
<1> QED BY <1>6, <1>7

\* A remainder is exact or loses last digits only (Mod).
THEOREM RemaindersAreClose ==
  ASSUME NEW a \in Decimals, NEW b \in Decimals, InRange(Exactly("%", a, b))
  PROVE  Close("%", a, b, Mod(a, b))
<1> SUFFICES ASSUME InWord(a, b), b.coef # 0
             PROVE  Kept(Mod(a, b), Exactly("%", a, b), Resolution)
  BY DEF Close
<1> DEFINE e == Meet(a, b)
           s == Scaled(a, e)
           t == Scaled(b, e)
           x == [coef |-> Rem(s, t), exp |-> e]
<1>1. /\ normalizePair(a, b) = [a |-> s, b |-> t, exp |-> e]
      /\ e \in -MaxExp..MaxExp /\ s \in -MaxWord..MaxWord /\ t \in -MaxWord..MaxWord
      /\ MaxWord \in Nat /\ MaxExp \in Nat
  BY PairIs, Widths
<1>2. Exactly("%", a, b) = x
  BY DEF Exactly
<1>3. ~IsZero(b)
  BY DEF IsZero
<1>4. Mod(a, b) = normalizeTowardZero(Rem(s, t), e)
  BY <1>1, <1>3 DEF Mod
<1>5. t # 0
  <2>1. b \in Digits /\ e \in Int /\ e <= b.exp /\ b.coef \in Int
    <3>1. a \in Digits /\ b \in Digits
      BY Widths DEF Decimals, Digits
    <3>2. b.coef \in Int
      BY <3>1 DEF Digits
    <3> QED BY <3>1, <3>2, MeetType
  <2>2. t = b.coef * TenTo[b.exp - e] /\ TenTo[b.exp - e] \in Nat /\ TenTo[b.exp - e] >= 1
    BY <2>1, ScaledType
  <2> QED BY <2>1, <2>2
<1> HIDE DEF s, t, e
<1>6. Rem(s, t) \in Int /\ Rem(s, t) \in -MaxWord..MaxWord
  <2>1. s \in Int /\ t \in Int
    BY <1>1
  <2>2. Rem(s, t) \in Int /\ abs64(Rem(s, t)) <= abs64(s)
    BY <1>5, <2>1, RemFacts
  <2>3. abs64(s) \in Nat /\ abs64(s) <= MaxWord
    BY <1>1, <2>1, AbsType DEF abs64
  <2> DEFINE r == Rem(s, t)
  <2> HIDE DEF r
  <2>4. r \in Int /\ abs64(r) <= MaxWord
    BY <1>1, <2>2, <2>3, AbsType DEF r
  <2>5. r \in -MaxWord..MaxWord
    BY <1>1, <2>4 DEF abs64
  <2> QED BY <2>2, <2>5 DEF r
<1>7. x \in Digits /\ x.coef = Rem(s, t) /\ x.exp = e
  BY <1>1, <1>6 DEF Digits
<1> HIDE DEF x
<1>8. Kept(normalizeTowardZero(x.coef, x.exp), x, Resolution)
  BY <1>2, <1>6, <1>7, NormalFormKept
<1> QED BY <1>2, <1>4, <1>7, <1>8

----------------------------------------------------------------------------
(* Quotients *)

\* Rounding takes the nearest integer to the quotient, to either side of zero.
LEMMA RoundedIs ==
  ASSUME NEW c \in Int, NEW b \in Int, b > 0
  PROVE  /\ Rounded(c, b) \in Int
         /\ 2 * abs64(c - b * Rounded(c, b)) <= b
         /\ c >= 0 => Rounded(c, b) >= 0
         /\ c <= 0 => Rounded(c, b) <= 0
<1> DEFINE q == Quo(c, b)
           m == Rem(c, b)
           up == 2 * abs64(m) > b \/ (2 * abs64(m) = b /\ q % 2 # 0)
<1>1. /\ q \in Int /\ m \in Int /\ abs64(m) < b
      /\ c >= 0 => m >= 0 /\ q >= 0
      /\ c <= 0 => m <= 0 /\ q <= 0
  <2>1. b # 0 /\ abs64(b) = b
    BY AbsType
  <2> QED BY <2>1, RemFacts, QuoFacts
<1>2. m = c - b * q
  BY DEF Rem
<1>3. Rounded(c, b) = CASE ~up -> q [] up /\ (c > 0) = (b > 0) -> q + 1 [] OTHER -> q - 1
  <2>1. abs64(b) = b
    BY AbsType
  <2> QED BY <2>1 DEF Rounded
<1>4. up => 2 * abs64(m) >= b
  BY <1>1, AbsType
<1>5. ~up => 2 * abs64(m) <= b
  BY <1>1, AbsType
<1> HIDE DEF q, m, up
<1>6. b * q \in Int /\ b * (q + 1) = b * q + b /\ b * (q - 1) = b * q - b
  BY <1>1
<1>7. CASE ~up
  <2>1. Rounded(c, b) = q
    BY <1>3, <1>7, Zenon
  <2> QED BY <1>1, <1>2, <1>5, <1>7, <2>1
<1>8. CASE up /\ c > 0
  <2>1. Rounded(c, b) = q + 1
    <3>1. (c > 0) = TRUE /\ (b > 0) = TRUE
      BY <1>8
    <3> QED BY <1>3, <1>8, <3>1
  <2>2. m >= 0 /\ abs64(m) = m /\ 2 * m >= b /\ m < b
    BY <1>1, <1>4, <1>8, AbsType
  <2>3. c - b * Rounded(c, b) = m - b
    BY <1>2, <1>6, <2>1
  <2>4. abs64(m - b) = b - m
    BY <1>1, <2>2 DEF abs64
  <2> QED BY <1>1, <1>8, <2>1, <2>2, <2>3, <2>4
<1>9. CASE up /\ ~(c > 0)
  <2>1. m <= 0 /\ abs64(m) = -m /\ -(2 * m) >= b /\ -m < b /\ q <= 0
    BY <1>1, <1>4, <1>9, AbsType
  <2>2. Rounded(c, b) = q - 1
    <3>1. (c > 0) = FALSE /\ (b > 0) = TRUE
      BY <1>9
    <3> QED BY <1>3, <1>9, <3>1
  <2>3. c - b * Rounded(c, b) = m + b
    BY <1>2, <1>6, <2>2
  <2>4. abs64(m + b) = m + b
    BY <1>1, <2>1 DEF abs64
  <2>5. c < 0 \/ c = 0
    BY <1>9
  <2>6. c = 0 => FALSE
    <3> SUFFICES ASSUME c = 0 PROVE FALSE
      OBVIOUS
    <3>1. m >= 0 /\ m <= 0
      BY <1>1
    <3> QED BY <1>1, <2>1, <3>1
  <2> QED BY <1>1, <2>1, <2>2, <2>3, <2>4, <2>5, <2>6
<1> QED BY <1>7, <1>8, <1>9

\* Digits the dividend has room for in a word, as many as are asked for.
WordRoom(c) == {n \in 0..Precision : n = 0 \/ abs64(c) * TenTo[n] <= MaxWord}

\* The dividend has room for all its digits in a word.
LEMMA WordRoomIs ==
  ASSUME NEW c \in Int, NEW n \in Nat, n <= Max(WordRoom(c)), n > 0
  PROVE  abs64(c) * TenTo[n] <= MaxWord
<1> DEFINE T == WordRoom(c)
           p == Max(T)
<1>1. Precision \in Nat /\ MaxWord \in Nat
  BY Widths, WordAssumption
<1>2. T \subseteq 0..Precision /\ 0 \in T
  BY <1>1 DEF WordRoom
<1>3. p \in T
  <2> HIDE DEF T
  <2> QED BY <1>1, <1>2, MaxOfNats
<1> HIDE DEF p
<1>4. p \in 0..Precision /\ n <= p /\ abs64(c) * TenTo[p] <= MaxWord
  BY <1>1, <1>3 DEF WordRoom, p
<1>5. TenTo[n] <= TenTo[p] /\ TenTo[n] \in Nat /\ TenTo[p] \in Nat /\ abs64(c) \in Nat
  <2>1. p \in Nat
    BY <1>1, <1>4
  <2> QED BY <1>4, <2>1, TenToLess, TenToType, AbsType
<1>6. abs64(c) * TenTo[n] <= abs64(c) * TenTo[p]
  BY <1>5
<1>7. abs64(c) * TenTo[n] \in Int /\ abs64(c) * TenTo[p] \in Int
  BY <1>5
<1> QED BY <1>1, <1>4, <1>6, <1>7

\* The dividend gets its digits up to the precision, or until the word is full,
\* or until the quotient has all the digits of a coefficient.
LEMMA ScaleIs ==
  ASSUME NEW ca \in -MAX_COEFF..MAX_COEFF, ca # 0, NEW cb \in 1..MAX_COEFF
  PROVE  LET s == scaleForDiv(ca, cb, Precision) IN
         /\ s.p \in 0..Precision /\ s.p <= Max(WordRoom(ca)) /\ Max(WordRoom(ca)) \in 0..Precision
         /\ s.c = ca * TenTo[s.p]
         /\ abs64(ca) * TenTo[s.p] <= MaxWord
         /\ (abs64(ca) * TenTo[s.p]) \div cb <= MAX_COEFF
         /\ s.p = Max(WordRoom(ca)) \/ cb * Resolution <= abs64(ca) * TenTo[s.p]
<1> DEFINE m == abs64(ca)
           room(k) == m * TenTo[k] <= MaxWord /\ (m * TenTo[k]) \div cb <= MAX_COEFF
           T == {k \in 0..Precision : k = 0 \/ room(k)}
           n == Max(T)
           cur == m * TenTo[n]
           p == Max(WordRoom(ca))
           s == scaleForDiv(ca, cb, Precision)
<1>1. /\ Precision \in Nat /\ MaxWord \in Nat /\ MAX_COEFF \in Nat /\ MAX_COEFF <= MaxWord
      /\ MaxDigits \in Nat /\ MaxDigits > 1 /\ MAX_COEFF >= TenTo[MaxDigits]
      /\ ca \in Int /\ cb \in Int /\ cb > 0
  BY Widths, WordAssumption
<1>2. m \in Nat /\ m <= MAX_COEFF /\ abs64(cb) = cb
  <2>1. m \in Nat
    BY <1>1, AbsType
  <2>2. m <= MAX_COEFF
    BY <1>1 DEF abs64
  <2> QED BY <1>1, <2>1, <2>2, AbsType
<1>3. T \subseteq 0..Precision /\ 0 \in T
  BY <1>1
<1>4. n \in T /\ \A i \in T : n >= i
  <2> HIDE DEF T
  <2> QED BY <1>1, <1>3, MaxOfNats
<1>5. n \in 0..Precision /\ n \in Nat
  BY <1>1, <1>4
<1>6. p \in WordRoom(ca) /\ p \in 0..Precision /\ \A i \in WordRoom(ca) : p >= i
  <2>1. WordRoom(ca) \subseteq 0..Precision /\ 0 \in WordRoom(ca)
    BY <1>1 DEF WordRoom
  <2>2. p \in WordRoom(ca) /\ \A i \in WordRoom(ca) : p >= i
    BY <1>1, <2>1, MaxOfNats
  <2> QED BY <2>1, <2>2
<1>7. s = CASE ca = 0 -> [c |-> ca, p |-> 0]
            [] ca # 0 /\ (ca < 0) # (cb < 0) -> [c |-> -cur, p |-> n]
            [] OTHER -> [c |-> cur, p |-> n]
  BY <1>2, Zenon DEF scaleForDiv
<1> HIDE DEF n, T, s, p
<1>8. TenTo[n] \in Nat /\ TenTo[n] >= 1 /\ cur \in Nat
  <2>1. TenTo[n] \in Nat /\ TenTo[n] >= 1
    BY <1>5, TenToType
  <2> HIDE DEF m
  <2> QED BY <1>2, <2>1
<1>9. s.p = n /\ s.c = ca * TenTo[n]
  <2>1. CASE ca < 0
    <3>1. (ca < 0) = TRUE /\ (cb < 0) = FALSE
      BY <1>1, <2>1
    <3>2. s = [c |-> -cur, p |-> n]
      BY <1>7, <3>1
    <3>3. m = -ca
      BY <1>1, <2>1 DEF abs64
    <3>4. -((-ca) * TenTo[n]) = ca * TenTo[n]
      BY <1>1, <1>8
    <3> QED BY <3>2, <3>3, <3>4
  <2>2. CASE ~(ca < 0)
    <3>1. (ca < 0) = FALSE /\ (cb < 0) = FALSE
      BY <1>1, <2>2
    <3>2. s = [c |-> cur, p |-> n]
      BY <1>7, <3>1
    <3>3. m = ca
      BY <1>1, <2>2 DEF abs64
    <3> QED BY <3>2, <3>3
  <2> QED BY <2>1, <2>2
<1>10. room(n)
  <2>1. CASE n = 0
    <3>1. TenTo[n] = 1 /\ m * TenTo[n] = m
      <4>1. TenTo[n] = 1
        BY <2>1, TenToNext
      <4> HIDE DEF m
      <4> QED BY <1>2, <4>1
    <3> HIDE DEF m
    <3>2. m \div cb <= MAX_COEFF
      <4> DEFINE q == m \div cb
                 r == m % cb
      <4>1. q \in Int /\ r \in 0..(cb - 1) /\ m = cb * q + r
        BY <1>1, <1>2, Division
      <4> HIDE DEF q, r
      <4> SUFFICES ASSUME q > MAX_COEFF PROVE FALSE
        BY <1>1, <4>1 DEF q
      <4>2. cb * q >= q /\ cb * q \in Int
        BY <1>1, <4>1
      <4> QED BY <1>1, <1>2, <4>1, <4>2
    <3> QED BY <1>1, <1>2, <3>1, <3>2
  <2>2. CASE n # 0
    BY <1>4, <2>2 DEF T
  <2> QED BY <2>1, <2>2
<1>11. n <= p
  <2>1. n \in WordRoom(ca)
    BY <1>5, <1>10 DEF WordRoom
  <2> QED BY <1>6, <2>1
<1>12. ASSUME n # p PROVE cb * Resolution <= cur
  <2>1. n + 1 \in 0..Precision /\ n + 1 <= p /\ n + 1 \in Nat /\ n + 1 > 0
    BY <1>1, <1>5, <1>6, <1>11, <1>12
  <2>2. n + 1 \notin T
    BY <1>1, <1>4, <1>5
  <2>3. m * TenTo[n + 1] <= MaxWord
    BY <1>1, <2>1, WordRoomIs DEF p
  <2>4. ~((m * TenTo[n + 1]) \div cb <= MAX_COEFF)
    BY <1>1, <2>1, <2>2, <2>3 DEF T
  <2>5. m * TenTo[n + 1] = 10 * cur /\ 10 * cur \in Int
    <3>1. TenTo[n + 1] = 10 * TenTo[n]
      BY <1>5, TenToNext
    <3> HIDE DEF m
    <3> QED BY <1>2, <1>8, <3>1
  <2> HIDE DEF cur
  <2> DEFINE q == (10 * cur) \div cb
             r == (10 * cur) % cb
             t == Resolution
  <2>6. q \in Int /\ r \in 0..(cb - 1) /\ 10 * cur = cb * q + r
    BY <1>1, <2>5, Division
  <2>7. ~(q <= MAX_COEFF)
    BY <2>4, <2>5
  <2>8. t \in Nat /\ 10 * t <= MAX_COEFF
    BY ResolutionIs
  <2> HIDE DEF q, r, t
  <2>9. q >= 10 * t
    BY <1>1, <2>6, <2>7, <2>8
  <2>10. cb * q >= cb * (10 * t) /\ cb * (10 * t) = 10 * (cb * t) /\ cb * t \in Int /\ cb * q \in Int
    BY <1>1, <2>6, <2>8, <2>9
  <2>11. cb * t <= cur
    BY <1>1, <1>8, <2>6, <2>10
  <2> QED BY <2>11 DEF t
<1> QED BY <1>5, <1>6, <1>9, <1>10, <1>11, <1>12 DEF p, s

\* Products with the same number stay the same.
LEMMA SameTimes ==
  ASSUME NEW x \in Digits, NEW y \in Digits, Same(x, y), NEW c \in Int, NEW e \in Int
  PROVE  Same([coef |-> x.coef * c, exp |-> x.exp + e], [coef |-> y.coef * c, exp |-> y.exp + e])
<1> DEFINE v == [coef |-> x.coef * c, exp |-> x.exp + e]
           w == [coef |-> y.coef * c, exp |-> y.exp + e]
<1>1. x.coef \in Int /\ x.exp \in Int /\ y.coef \in Int /\ y.exp \in Int
  BY DEF Digits
<1>2. PICK m \in Int : m <= x.exp /\ m <= y.exp /\ m <= x.exp
  BY <1>1, Below
<1>3. Scaled(x, m) = Scaled(y, m)
  BY <1>2, SameAt
<1> DEFINE s == TenTo[x.exp - m]
           t == TenTo[y.exp - m]
<1>4. s \in Int /\ t \in Int /\ x.coef * s = y.coef * t
  BY <1>2, <1>3, ScaledType
<1>5. v \in Digits /\ w \in Digits
  BY <1>1 DEF Digits
<1>6. m + e \in Int /\ m + e <= v.exp /\ m + e <= w.exp
  BY <1>1, <1>2
<1>7. v.exp - (m + e) = x.exp - m /\ w.exp - (m + e) = y.exp - m
  BY <1>1, <1>2
<1>8. Scaled(v, m + e) = (x.coef * c) * s /\ Scaled(w, m + e) = (y.coef * c) * t
  BY <1>7 DEF Scaled
<1> HIDE DEF v, w, s, t
<1>9. (x.coef * c) * s = (x.coef * s) * c /\ (y.coef * c) * t = (y.coef * t) * c
  BY <1>1, <1>4
<1>10. Same(v, w)
  BY <1>4, <1>5, <1>6, <1>8, <1>9, SameAt
<1> QED BY <1>10 DEF v, w

\* What the code rounds, before it normalises: the dividend with its zeros over
\* the divisor.
RoundedQuotient(a, b) ==
  LET s == scaleForDiv(a.coef, b.coef, Precision) IN
  [coef |-> Rounded(s.c, b.coef), exp |-> a.exp - b.exp - s.p]

\* The number rounded is within half a unit of the quotient.
LEMMA RoundedQuotientIs ==
  ASSUME NEW a \in Decimals, NEW b \in Decimals, b.coef > 0
  PROVE  LET r == RoundedQuotient(a, b)
             n == (a.exp - b.exp) - r.exp
             p == Max(WordRoom(a.coef))
         IN  /\ r \in Digits /\ n \in 0..Precision
             /\ a.coef >= 0 => r.coef >= 0
             /\ 2 * abs64(a.coef * TenTo[n] - r.coef * b.coef) <= b.coef
             /\ n <= p /\ p \in 0..Precision
             /\ \/ n = p \/ a.coef = 0
                \/ b.coef * Resolution <= abs64(a.coef) * TenTo[n]
<1> DEFINE s == scaleForDiv(a.coef, b.coef, Precision)
           q == Rounded(s.c, b.coef)
           r == [coef |-> q, exp |-> a.exp - b.exp - s.p]
           p == Max(WordRoom(a.coef))
<1>1. /\ a.coef \in -MAX_COEFF..MAX_COEFF /\ b.coef \in 1..MAX_COEFF /\ a.exp \in Int /\ b.exp \in Int
      /\ a.coef \in Int /\ b.coef \in Int /\ MAX_COEFF \in Nat /\ MaxExp \in Nat
      /\ Precision \in Nat
  <2>1. MAX_COEFF \in Nat /\ MaxExp \in Nat /\ Precision \in Nat
    BY Widths, WordAssumption
  <2> QED BY <2>1 DEF Decimals
<1>2. RoundedQuotient(a, b) = r
  BY DEF RoundedQuotient
<1>3. /\ s.p \in 0..Precision /\ s.p <= p /\ p \in 0..Precision
      /\ s.c = a.coef * TenTo[s.p]
      /\ \/ s.p = p \/ a.coef = 0
         \/ b.coef * Resolution <= abs64(a.coef) * TenTo[s.p]
  <2>1. CASE a.coef = 0
    <3>1. s = [c |-> 0, p |-> 0]
      BY <2>1, Zenon DEF scaleForDiv
    <3>2. s.p = 0 /\ s.c = 0 /\ TenTo[0] = 1
      BY <3>1, TenToNext
    <3>3. p \in 0..Precision
      <4>1. WordRoom(a.coef) \subseteq 0..Precision /\ 0 \in WordRoom(a.coef)
        BY <1>1 DEF WordRoom
      <4>2. p \in WordRoom(a.coef)
        BY <1>1, <4>1, MaxOfNats
      <4> QED BY <4>1, <4>2
    <3> HIDE DEF s, p
    <3> QED BY <1>1, <2>1, <3>2, <3>3
  <2>2. CASE a.coef # 0
    <3> HIDE DEF s, p
    <3>1. /\ s.p \in 0..Precision /\ s.p <= p /\ p \in 0..Precision
          /\ s.c = a.coef * TenTo[s.p]
          /\ s.p = p \/ b.coef * Resolution <= abs64(a.coef) * TenTo[s.p]
      BY <1>1, <2>2, ScaleIs DEF s, p
    <3> QED BY <3>1
  <2> QED BY <2>1, <2>2
<1> HIDE DEF s, p
<1>4. s.p \in Nat /\ TenTo[s.p] \in Int /\ TenTo[s.p] >= 1 /\ s.c \in Int /\ (a.coef >= 0 => s.c >= 0)
  <2>1. s.p \in Nat
    BY <1>1, <1>3
  <2>2. TenTo[s.p] \in Nat /\ TenTo[s.p] >= 1
    BY <2>1, TenToType
  <2> QED BY <1>1, <1>3, <2>1, <2>2
<1>5. q \in Int /\ 2 * abs64(s.c - b.coef * q) <= b.coef /\ (s.c >= 0 => q >= 0)
  <2>1. b.coef \in Int /\ b.coef > 0
    BY <1>1
  <2> DEFINE c == s.c
             d == b.coef
  <2>2. c \in Int /\ d \in Int /\ d > 0
    BY <1>4, <2>1
  <2> HIDE DEF c, d
  <2>3. Rounded(c, d) \in Int /\ 2 * abs64(c - d * Rounded(c, d)) <= d /\ (c >= 0 => Rounded(c, d) >= 0)
    BY <2>2, RoundedIs
  <2> QED BY <2>3 DEF c, d
<1> HIDE DEF q
<1>6. r \in Digits /\ r.coef = q /\ (a.exp - b.exp) - r.exp = s.p
  BY <1>1, <1>4, <1>5 DEF Digits
<1>7. b.coef * q = q * b.coef
  BY <1>1, <1>5
<1> HIDE DEF r
<1>8. 2 * abs64(a.coef * TenTo[s.p] - r.coef * b.coef) <= b.coef
  BY <1>3, <1>5, <1>6, <1>7
<1> QED BY <1>2, <1>3, <1>4, <1>5, <1>6, <1>8 DEF p

\* A quotient is rounded at the last digit the operator asks for, at the last
\* one the dividend has room for, or at the last one a coefficient holds (Div
\* over scaleForDiv and RoundHalfEven).
THEOREM QuotientsAreRounded ==
  ASSUME NEW a \in Decimals, NEW b \in Decimals,
         Fits(RoundedQuotient(a, b).coef), InRange(RoundedQuotient(a, b))
  PROVE  Close("/", a, b, Div(a, b))
<1> SUFFICES ASSUME b.coef > 0, a.coef >= 0 \/ a.exp <= b.exp
             PROVE  QuotientOf(Div(a, b), a, b)
  BY DEF Close
<1> DEFINE r == RoundedQuotient(a, b)
           n == (a.exp - b.exp) - r.exp
           p == Max(WordRoom(a.coef))
           d == Div(a, b)
           back == Exactly("*", d, b)
           e == Min({Meet(a, back), a.exp - p})
           off == 2 * abs64(Scaled(a, e) - Scaled(back, e))
<1>1. /\ r \in Digits /\ n \in 0..Precision
      /\ a.coef >= 0 => r.coef >= 0
      /\ 2 * abs64(a.coef * TenTo[n] - r.coef * b.coef) <= b.coef
      /\ n <= p /\ p \in 0..Precision
      /\ \/ n = p \/ a.coef = 0
         \/ b.coef * Resolution <= abs64(a.coef) * TenTo[n]
  BY RoundedQuotientIs
<1>2. /\ a.exp \in Int /\ b.exp \in Int /\ a.coef \in Int /\ b.coef \in Int /\ MaxExp \in Nat
      /\ a \in Digits /\ MAX_COEFF \in Nat /\ MaxDigits - 1 \in Nat /\ MAX_COEFF <= MaxWord /\ MaxWord \in Nat
  <2>1. MAX_COEFF \in Nat /\ MaxExp \in Nat /\ MaxDigits - 1 \in Nat /\ MAX_COEFF <= MaxWord /\ MaxWord \in Nat
    BY Widths, WordAssumption
  <2> QED BY <2>1 DEF Decimals, Digits
<1>3. r.coef \in Int /\ r.exp \in Int /\ Fits(r.coef) /\ InRange(r) /\ n \in Nat /\ p \in Int
  BY <1>1 DEF Digits
<1>4. d = normalizeTowardZero(r.coef, r.exp)
  <2>1. r.exp \in -MaxExp..MaxExp
    BY <1>3 DEF InRange
  <2>2. -MaxExp - 1 <= r.exp /\ r.exp <= MaxExp
    BY <1>2, <2>1
  <2>3. Exp(r.exp) = r.exp
    BY <1>3, <2>2, ExpIs
  <2>4. b.coef # 0
    BY <1>2
  <2> DEFINE s == scaleForDiv(a.coef, b.coef, Precision)
  <2>5. Div(a, b) = normalizeTowardZero(Rounded(s.c, b.coef), Exp(a.exp - b.exp - s.p))
    BY <2>4 DEF Div
  <2>6. r.coef = Rounded(s.c, b.coef) /\ r.exp = a.exp - b.exp - s.p
    BY DEF RoundedQuotient
  <2> QED BY <2>3, <2>5, <2>6
<1> HIDE DEF r, d
<1>5. d \in Decimals /\ Same(d, r)
  <2>1. r.coef >= 0 \/ r.exp <= 0
    <3>1. CASE a.coef >= 0
      BY <1>1, <3>1
    <3>2. CASE a.exp <= b.exp
      BY <1>1, <1>2, <1>3, <3>2
    <3> QED BY <3>1, <3>2
  <2>2. r.coef \in -MaxWord..MaxWord
    BY <1>2, <1>3 DEF Fits
  <2>3. Kept(d, r, Resolution) /\ d \in Decimals
    BY <1>1, <1>3, <1>4, <2>1, <2>2, NormalFormKept
  <2> QED BY <1>3, <2>1, <2>3 DEF Kept
<1> DEFINE z == [coef |-> r.coef * b.coef, exp |-> r.exp + b.exp]
<1>6. back \in Digits /\ z \in Digits /\ Same(back, z) /\ z.exp = a.exp - n
  <2>1. back = [coef |-> d.coef * b.coef, exp |-> d.exp + b.exp]
    BY DEF Exactly
  <2>2. d \in Digits /\ d.coef \in Int /\ d.exp \in Int
    BY <1>2, <1>5 DEF Decimals, Digits
  <2>3. Same(back, z)
    BY <1>1, <1>2, <1>5, <2>1, <2>2, SameTimes
  <2>4. back \in Digits /\ z \in Digits
    BY <1>2, <1>3, <2>1, <2>2 DEF Digits
  <2> QED BY <1>2, <1>3, <2>3, <2>4
<1>7. e \in Int /\ e <= a.exp /\ e <= back.exp /\ e <= a.exp - p
  <2> DEFINE m == Meet(a, back)
             f == a.exp - p
  <2>1. m \in Int /\ m <= a.exp /\ m <= back.exp /\ f \in Int
    BY <1>2, <1>3, <1>6, MeetType
  <2>2. a.exp \in Int /\ back.exp \in Int /\ f = a.exp - p
    BY <1>2, <1>6 DEF Digits
  <2> HIDE DEF m, f, back
  <2>3. Min({m, f}) = IF m <= f THEN m ELSE f
    BY <2>1, MinOfTwo
  <2> QED BY <2>1, <2>2, <2>3 DEF m, f
<1> HIDE DEF back, e, n, p, z
<1>8. e <= a.exp - n /\ e <= z.exp
  BY <1>1, <1>2, <1>3, <1>6, <1>7
<1> DEFINE u == TenTo[a.exp - n - e]
           m == a.coef * TenTo[n] - r.coef * b.coef
<1>9. u \in Nat /\ u >= 1 /\ TenTo[n] \in Nat /\ TenTo[n] >= 1
  <2>1. a.exp - n - e \in Nat
    BY <1>2, <1>3, <1>7, <1>8
  <2> QED BY <1>3, <2>1, TenToType
<1>10. m \in Int
  BY <1>2, <1>3, <1>9
<1>11. Scaled(back, e) = (r.coef * b.coef) * u
  <2>1. Scaled(back, e) = Scaled(z, e)
    BY <1>6, <1>7, <1>8, SameAt
  <2>2. Scaled(z, e) = z.coef * TenTo[z.exp - e]
    BY DEF Scaled
  <2> QED BY <1>6, <2>1, <2>2 DEF z
<1>12. Scaled(a, e) = (a.coef * TenTo[n]) * u
  <2>1. n + (a.exp - n - e) = a.exp - e /\ a.exp - n - e \in Nat
    BY <1>2, <1>3, <1>7, <1>8
  <2>2. TenTo[a.exp - e] = TenTo[n] * u
    BY <1>3, <2>1, TenToPlus
  <2>3. Scaled(a, e) = a.coef * TenTo[a.exp - e]
    BY DEF Scaled
  <2> HIDE DEF u
  <2>4. a.coef * (TenTo[n] * u) = (a.coef * TenTo[n]) * u
    BY <1>2, <1>9
  <2> QED BY <2>2, <2>3, <2>4
<1>13. off = (2 * abs64(m)) * u /\ abs64(m) \in Nat
  <2>1. Scaled(a, e) - Scaled(back, e) = m * u
    <3> DEFINE v == a.coef * TenTo[n]
               w == r.coef * b.coef
    <3>1. v \in Int /\ w \in Int
      BY <1>2, <1>3, <1>9
    <3> HIDE DEF v, w, u
    <3>2. v * u - w * u = (v - w) * u
      BY <1>9, <3>1
    <3> QED BY <1>11, <1>12, <3>2 DEF v, w
  <2> HIDE DEF m, u
  <2>2. abs64(m * u) = abs64(m) * u /\ abs64(m) \in Nat
    BY <1>9, <1>10, AbsOfProduct, AbsType
  <2>3. 2 * (abs64(m) * u) = (2 * abs64(m)) * u
    BY <1>9, <2>2
  <2> QED BY <2>1, <2>2, <2>3
<1>14. off <= b.coef * u /\ b.coef * u \in Int /\ off \in Int
  <2>1. 2 * abs64(m) <= b.coef
    BY <1>1 DEF n
  <2> HIDE DEF m, u
  <2>2. (2 * abs64(m)) * u <= b.coef * u
    BY <1>2, <1>9, <1>13, <2>1
  <2>3. (2 * abs64(m)) * u \in Int
    BY <1>9, <1>13
  <2> QED BY <1>2, <1>9, <1>13, <2>2, <2>3
<1> HIDE DEF off, m
<1>15. \/ off <= b.coef * TenTo[a.exp - p - e]
       \/ off * Resolution <= abs64(Scaled(a, e))
  <2>1. CASE n = p
    BY <1>14, <2>1
  <2>2. CASE a.coef = 0
    <3>1. p >= n /\ a.exp - p - e \in Nat
      BY <1>1, <1>2, <1>3, <1>7
    <3>2. off <= b.coef * TenTo[a.exp - p - e] \/ off * Resolution <= abs64(Scaled(a, e))
      <4>1. r.coef = 0
        <5>1. a.coef * TenTo[n] = 0
          BY <1>9, <2>2
        <5>2. 2 * abs64(0 - r.coef * b.coef) <= b.coef
          BY <1>1, <5>1 DEF n
        <5> DEFINE v == r.coef * b.coef
        <5>3. v \in Int /\ v > -b.coef /\ v < b.coef
          <6>1. v \in Int
            BY <1>2, <1>3
          <6> HIDE DEF v
          <6>2. 2 * abs64(0 - v) <= b.coef
            BY <5>2 DEF v
          <6>3. abs64(0 - v) = IF v > 0 THEN v ELSE -v
            BY <6>1 DEF abs64
          <6> QED BY <1>2, <6>1, <6>2, <6>3
        <5>4. b.coef * r.coef = v
          BY <1>2, <1>3
        <5> HIDE DEF v
        <5> QED BY <1>2, <1>3, <5>3, <5>4, SmallMultiple
      <4>2. m = 0
        BY <1>2, <1>9, <2>2, <4>1 DEF m
      <4>3. off = 0
        <5>1. abs64(0) = 0
          BY DEF abs64
        <5> QED BY <1>9, <1>13, <4>2, <5>1
      <4>4. TenTo[a.exp - p - e] \in Nat
        BY <3>1, TenToType
      <4>5. b.coef * TenTo[a.exp - p - e] >= 0
        BY <1>2, <4>4
      <4> QED BY <4>3, <4>5
    <3> QED BY <3>2
  <2>3. CASE b.coef * Resolution <= abs64(a.coef) * TenTo[n]
    <3> DEFINE t == Resolution
               g == abs64(a.coef) * TenTo[n]
    <3>1. t \in Nat /\ g \in Nat /\ b.coef * t <= g
      BY <1>2, <1>9, <2>3, ResolutionIs, AbsType
    <3>2. abs64(Scaled(a, e)) = g * u
      <4>1. abs64(a.coef * TenTo[n]) = g
        BY <1>2, <1>9, AbsOfProduct
      <4> DEFINE v == a.coef * TenTo[n]
      <4>2. v \in Int
        BY <1>2, <1>9
      <4> HIDE DEF v, g
      <4>3. abs64(v * u) = abs64(v) * u
        BY <1>9, <4>2, AbsOfProduct
      <4> QED BY <1>12, <4>1, <4>3 DEF v
    <3> HIDE DEF t, g, u
    <3>3. off * t <= (b.coef * u) * t
      BY <1>14, <3>1
    <3>4. (b.coef * u) * t = (b.coef * t) * u /\ (b.coef * t) * u <= g * u
      BY <1>2, <1>9, <3>1
    <3>5. off * t \in Int /\ (b.coef * t) * u \in Int /\ g * u \in Int
      BY <1>2, <1>9, <1>14, <3>1
    <3>6. off * t <= g * u
      BY <3>3, <3>4, <3>5
    <3> QED BY <3>2, <3>6 DEF t
  <2> QED BY <1>1, <2>1, <2>2, <2>3 DEF n, p
<1>16. QuotientOf(d, a, b) <=> \/ off <= b.coef * TenTo[a.exp - p - e]
                               \/ off * Resolution <= abs64(Scaled(a, e))
  BY DEF QuotientOf, off, e, back, p, WordRoom
<1> QED BY <1>15, <1>16 DEF d

----------------------------------------------------------------------------
(* Products *)

\* The recursive function of Factors cuts the larger factor at each step.
LEMMA FactorsNext ==
  ASSUME NEW u \in Nat, NEW v \in Nat
  PROVE  LET f == Factors(u, v) IN
         /\ f[0] = [a |-> u, b |-> v]
         /\ \A n \in Nat :
              /\ f[n] \in [a : Nat, b : Nat]
              /\ f[n + 1] = IF f[n].a >= f[n].b THEN [a |-> f[n].a \div 10, b |-> f[n].b]
                            ELSE [a |-> f[n].a, b |-> f[n].b \div 10]
<1> DEFINE S == [a : Nat, b : Nat]
           c == [a |-> u, b |-> v]
<1>1. \A g \in S : Cut[g] \in S /\ Cut[g] = IF g.a >= g.b THEN [a |-> g.a \div 10, b |-> g.b]
                                            ELSE [a |-> g.a, b |-> g.b \div 10]
  <2> TAKE g \in S
  <2>1. g = [a |-> g.a, b |-> g.b] /\ g.a \in Nat /\ g.b \in Nat
    OBVIOUS
  <2>2. \A k \in Nat : k \div 10 \in Nat
    OBVIOUS
  <2>3. Cut[g] = IF g.a >= g.b THEN [g EXCEPT !.a = @ \div 10] ELSE [g EXCEPT !.b = @ \div 10]
    BY DEF Cut, FactorPair
  <2> QED BY <2>1, <2>2, <2>3
<1>2. Cut \in [S -> S] /\ c \in S
  <2>1. Cut = [g \in S |-> Cut[g]]
    BY DEF Cut, FactorPair
  <2> QED BY <1>1, <2>1
<1>3. PICK f : f \in [Nat -> S] /\ f[0] = c /\ \A n \in Nat : f[n + 1] = Cut[f[n]]
  <2> HIDE DEF S, c
  <2>1. \E f : Iteration(S, Cut, c, f)
    BY <1>2, Iterates, Zenon
  <2> QED BY <2>1 DEF Iteration
<1>4. ASSUME NEW n \in Nat PROVE f[n] = IF n = 0 THEN c ELSE Cut[f[n - 1]]
  <2>1. CASE n = 0
    BY <1>3, <2>1
  <2>2. CASE n # 0
    <3>1. n - 1 \in Nat /\ (n - 1) + 1 = n
      BY <2>2
    <3>2. f[n - 1] \in S /\ f[(n - 1) + 1] = Cut[f[n - 1]]
      BY <1>3, <3>1
    <3> QED BY <2>2, <3>1, <3>2
  <2> QED BY <2>1, <2>2
<1>5. f = [n \in Nat |-> f[n]]
  BY <1>3
<1>6. f = [n \in Nat |-> IF n = 0 THEN c ELSE Cut[f[n - 1]]]
  <2> HIDE DEF c
  <2> QED BY <1>4, <1>5
<1>7. f = [n \in Nat |-> IF n = 0 THEN [a |-> u, b |-> v] ELSE Cut[f[n - 1]]]
  BY <1>6
<1> DEFINE F == Factors(u, v)
<1>8. \E g : g = [n \in Nat |-> IF n = 0 THEN [a |-> u, b |-> v] ELSE Cut[g[n - 1]]]
  BY <1>7
<1>9. F = [n \in Nat |-> IF n = 0 THEN c ELSE Cut[F[n - 1]]]
  BY <1>8, Zenon DEF Factors
<1> HIDE DEF F
<1>10. \A n \in Nat : F[n] = IF n = 0 THEN c ELSE Cut[F[n - 1]]
  <2> HIDE DEF c
  <2> QED BY <1>9
<1>12. F[0] = c
  BY <1>10
<1>13. ASSUME NEW n \in Nat PROVE F[n + 1] = Cut[F[n]]
  <2>1. n + 1 \in Nat /\ n + 1 # 0 /\ (n + 1) - 1 = n
    OBVIOUS
  <2>2. F[n + 1] = IF n + 1 = 0 THEN c ELSE Cut[F[(n + 1) - 1]]
    BY <1>10, <2>1
  <2> QED BY <2>1, <2>2
<1> DEFINE T == {n \in Nat : F[n] \in S}
<1>14. Nat \subseteq T
  <2>1. 0 \in T
    BY <1>2, <1>12
  <2>2. ASSUME NEW n \in Nat, n \in T PROVE n + 1 \in T
    <3>1. F[n] \in S /\ F[n + 1] = Cut[F[n]]
      BY <1>13, <2>2
    <3>2. F[n + 1] \in S
      <4> HIDE DEF S
      <4> QED BY <1>1, <3>1
    <3> QED BY <3>2
  <2> HIDE DEF T
  <2> QED BY <2>1, <2>2, Inductive
<1>15. ASSUME NEW n \in Nat
       PROVE  /\ F[n] \in S
              /\ F[n + 1] = IF F[n].a >= F[n].b THEN [a |-> F[n].a \div 10, b |-> F[n].b]
                            ELSE [a |-> F[n].a, b |-> F[n].b \div 10]
  <2>1. F[n] \in S
    BY <1>14
  <2> QED BY <1>1, <1>13, <2>1
<1> QED BY <1>12, <1>15 DEF F

\* The factors at the start are those given, and they stay naturals.
LEMMA FactorsFrom ==
  ASSUME NEW c \in Nat, NEW d \in Nat
  PROVE  /\ Factors(c, d)[0] = [a |-> c, b |-> d]
         /\ \A i \in Nat : Factors(c, d)[i] \in [a : Nat, b : Nat]
BY FactorsNext

\* d is c without its last i digits, and has m left or is c.
Shorter(c, d, i, m) ==
  /\ d \in Nat /\ d * TenTo[i] <= c /\ c < (d + 1) * TenTo[i]
  /\ i = 0 \/ d >= m

\* A number that lost digits loses another one.
LEMMA ShorterNext ==
  ASSUME NEW c \in Nat, NEW d \in Nat, NEW i \in Nat, NEW m \in Nat, Shorter(c, d, i, m), d >= 10 * m
  PROVE  Shorter(c, d \div 10, i + 1, m)
<1> DEFINE q == d \div 10
           r == d % 10
           s == TenTo[i]
<1>1. q \in Nat /\ r \in 0..9 /\ d = 10 * q + r
  OBVIOUS
<1>2. TenTo[i + 1] = 10 * s /\ s \in Nat /\ s >= 1
  BY TenToNext, TenToType
<1>3. d * s <= c /\ c < (d + 1) * s
  BY DEF Shorter
<1> HIDE DEF q, r, s
<1>4. q >= m
  BY <1>1
<1>5. q * (10 * s) <= c
  <2>1. 10 * q <= d /\ (10 * q) * s <= d * s /\ q * (10 * s) = (10 * q) * s
    BY <1>1, <1>2
  <2>2. (10 * q) * s \in Int /\ d * s \in Int
    BY <1>1, <1>2
  <2> QED BY <1>3, <2>1, <2>2
<1>6. c < (q + 1) * (10 * s)
  <2>1. d + 1 <= 10 * q + 10
    BY <1>1
  <2>2. (d + 1) * s <= (10 * q + 10) * s
    BY <1>1, <1>2, <2>1
  <2>3. (10 * q + 10) * s = (q + 1) * (10 * s)
    BY <1>1, <1>2
  <2>4. (d + 1) * s \in Int /\ (q + 1) * (10 * s) \in Int
    BY <1>1, <1>2
  <2> QED BY <1>3, <2>2, <2>3, <2>4
<1> QED BY <1>1, <1>2, <1>4, <1>5, <1>6 DEF Shorter, q

\* The larger of two factors whose product is no word has digits to lose.
LEMMA LargerIsLong ==
  ASSUME NEW c \in Nat, NEW d \in Nat, NEW m \in Nat, 100 * (m * m) <= MaxWord, c * d > MaxWord, c >= d
  PROVE  c >= 10 * m
<1> SUFFICES ASSUME c < 10 * m PROVE FALSE
  OBVIOUS
<1>1. c * d <= c * c /\ c * c <= (10 * m) * c
  OBVIOUS
<1>2. (10 * m) * c <= (10 * m) * (10 * m) /\ (10 * m) * (10 * m) = 100 * (m * m)
  OBVIOUS
<1>3. c * d \in Int /\ c * c \in Int /\ (10 * m) * c \in Int /\ 100 * (m * m) \in Int /\ MaxWord \in Int
  BY Widths
<1> QED BY <1>1, <1>2, <1>3

\* As long as the product is no word, the factors lose digits one by one.
LEMMA FactorsAreShort ==
  ASSUME NEW u \in Nat, NEW v \in Nat, NEW m \in Nat, 100 * (m * m) <= MaxWord, NEW n \in Nat,
         \A k \in Nat : k < n => Factors(u, v)[k].a * Factors(u, v)[k].b > MaxWord
  PROVE  \E i, j \in Nat : /\ i + j = n
                           /\ Shorter(u, Factors(u, v)[n].a, i, m)
                           /\ Shorter(v, Factors(u, v)[n].b, j, m)
<1> DEFINE F == Factors(u, v)
           Are(k) == \E i, j \in Nat : i + j = k /\ Shorter(u, F[k].a, i, m) /\ Shorter(v, F[k].b, j, m)
           T == {k \in Nat : k <= n => Are(k)}
<1>1. /\ F[0] = [a |-> u, b |-> v]
      /\ \A k \in Nat : /\ F[k] \in [a : Nat, b : Nat]
                        /\ F[k + 1] = IF F[k].a >= F[k].b THEN [a |-> F[k].a \div 10, b |-> F[k].b]
                                      ELSE [a |-> F[k].a, b |-> F[k].b \div 10]
  BY FactorsNext
<1>3. \A k \in Nat : k < n => F[k].a * F[k].b > MaxWord
  OBVIOUS
<1> HIDE DEF F
<1>2. ASSUME NEW k \in Nat
      PROVE  /\ F[k].a \in Nat /\ F[k].b \in Nat
             /\ F[k].a >= F[k].b => F[k + 1].a = F[k].a \div 10 /\ F[k + 1].b = F[k].b
             /\ ~(F[k].a >= F[k].b) => F[k + 1].a = F[k].a /\ F[k + 1].b = F[k].b \div 10
  <2>1. F[k] \in [a : Nat, b : Nat]
    BY <1>1
  <2>2. F[k].a >= F[k].b => F[k + 1] = [a |-> F[k].a \div 10, b |-> F[k].b]
    BY <1>1
  <2>3. ~(F[k].a >= F[k].b) => F[k + 1] = [a |-> F[k].a, b |-> F[k].b \div 10]
    BY <1>1
  <2> QED BY <2>1, <2>2, <2>3
<1>4. 0 \in T
  <2>1. Shorter(u, u, 0, m) /\ Shorter(v, v, 0, m)
    BY TenToNext DEF Shorter
  <2>2. Shorter(u, F[0].a, 0, m) /\ Shorter(v, F[0].b, 0, m) /\ 0 + 0 = 0
    BY <1>1, <2>1
  <2> QED BY <2>2
<1>5. ASSUME NEW k \in Nat, k \in T PROVE k + 1 \in T
  <2> SUFFICES ASSUME k + 1 <= n PROVE Are(k + 1)
    OBVIOUS
  <2>1. PICK i \in Nat, j \in Nat : i + j = k /\ Shorter(u, F[k].a, i, m) /\ Shorter(v, F[k].b, j, m)
    BY <1>5
  <2>2. F[k].a * F[k].b > MaxWord
    BY <1>3
  <2> DEFINE c == F[k].a
             d == F[k].b
  <2>3. c \in Nat /\ d \in Nat
    BY <1>2
  <2>4. CASE c >= d
    <3>1. F[k + 1].a = c \div 10 /\ F[k + 1].b = d
      BY <1>2, <2>4
    <3>2. c >= 10 * m
      BY <2>2, <2>3, <2>4, LargerIsLong
    <3>3. Shorter(u, c \div 10, i + 1, m)
      BY <2>1, <2>3, <3>2, ShorterNext
    <3>4. i + 1 \in Nat /\ (i + 1) + j = k + 1
      BY <2>1
    <3> QED BY <2>1, <3>1, <3>3, <3>4
  <2>5. CASE ~(c >= d)
    <3>1. F[k + 1].a = c /\ F[k + 1].b = d \div 10
      BY <1>2, <2>5
    <3>2. d >= 10 * m
      <4>1. d >= c /\ d * c > MaxWord
        <5>1. d * c = c * d
          BY <2>3
        <5> QED BY <2>2, <2>3, <2>5, <5>1
      <4> QED BY <2>3, <4>1, LargerIsLong
    <3>3. Shorter(v, d \div 10, j + 1, m)
      BY <2>1, <2>3, <3>2, ShorterNext
    <3>4. j + 1 \in Nat /\ i + (j + 1) = k + 1
      BY <2>1
    <3> QED BY <2>1, <3>1, <3>3, <3>4
  <2> QED BY <2>4, <2>5
<1> HIDE DEF T, Are
<1>6. Nat \subseteq T
  BY <1>4, <1>5, Inductive
<1>7. Are(n)
  BY <1>6 DEF T
<1> QED BY <1>7 DEF Are, F

\* Two factors that were shortened: their product is lower, by less than two
\* parts in m.
LEMMA ShortProduct ==
  ASSUME NEW u \in Nat, u > 0, NEW v \in Nat, v > 0, NEW c, NEW d, NEW i \in Nat, NEW j \in Nat,
         NEW m \in Nat, Shorter(u, c, i, m), Shorter(v, d, j, m)
  PROVE  LET w == (c * d) * TenTo[i + j] IN
         w \in Nat /\ w <= u * v /\ m * (u * v - w) < 2 * (u * v)
<1> DEFINE s == TenTo[i]
           t == TenTo[j]
           x == c * s
           y == d * t
           r == u - x
           q == v - y
<1>1. c \in Nat /\ d \in Nat /\ s \in Nat /\ t \in Nat /\ s >= 1 /\ t >= 1
  BY TenToType DEF Shorter
<1>2. x \in Nat /\ y \in Nat
  BY <1>1
<1>3. x <= u /\ u < x + s /\ y <= v /\ v < y + t
  <2>1. c * s <= u /\ u < (c + 1) * s /\ d * t <= v /\ v < (d + 1) * t
    BY DEF Shorter
  <2>2. (c + 1) * s = c * s + s /\ (d + 1) * t = d * t + t
    <3> HIDE DEF s, t
    <3> QED BY <1>1
  <2> QED BY <2>1, <2>2
<1>4. m * r < u
  <2>1. CASE i = 0
    <3>1. s = 1
      BY <2>1, TenToNext
    <3>2. r = 0
      BY <1>2, <1>3, <3>1
    <3> QED BY <3>2
  <2>2. CASE i # 0
    <3>1. c >= m
      BY <2>2 DEF Shorter
    <3> HIDE DEF s
    <3>2. m * s <= c * s
      BY <1>1, <3>1
    <3>3. r \in Nat /\ r + 1 <= s
      BY <1>1, <1>2, <1>3
    <3> HIDE DEF r
    <3>4. m * (r + 1) <= m * s /\ m * (r + 1) = m * r + m
      BY <1>1, <3>3
    <3>5. m * s \in Int /\ m * r \in Int
      BY <1>1, <3>3
    <3>6. CASE m = 0
      BY <3>3, <3>6
    <3>7. CASE m # 0
      BY <1>2, <1>3, <3>2, <3>4, <3>5, <3>7
    <3> QED BY <3>6, <3>7
  <2> QED BY <2>1, <2>2
<1>5. m * q < v
  <2>1. CASE j = 0
    <3>1. t = 1
      BY <2>1, TenToNext
    <3>2. q = 0
      BY <1>2, <1>3, <3>1
    <3> QED BY <3>2
  <2>2. CASE j # 0
    <3>1. d >= m
      BY <2>2 DEF Shorter
    <3> HIDE DEF t
    <3>2. m * t <= d * t
      BY <1>1, <3>1
    <3>3. q \in Nat /\ q + 1 <= t
      BY <1>1, <1>2, <1>3
    <3> HIDE DEF q
    <3>4. m * (q + 1) <= m * t /\ m * (q + 1) = m * q + m
      BY <1>1, <3>3
    <3>5. m * t \in Int /\ m * q \in Int
      BY <1>1, <3>3
    <3>6. CASE m = 0
      BY <3>3, <3>6
    <3>7. CASE m # 0
      BY <1>2, <1>3, <3>2, <3>4, <3>5, <3>7
    <3> QED BY <3>6, <3>7
  <2> QED BY <2>1, <2>2
<1>6. (c * d) * TenTo[i + j] = x * y
  <2>1. TenTo[i + j] = s * t
    BY TenToPlus
  <2> HIDE DEF s, t
  <2>2. (c * d) * (s * t) = (c * s) * (d * t)
    <3>1. (c * d) * (s * t) = ((c * d) * s) * t
      <4> DEFINE z == c * d
      <4>1. z \in Int
        BY <1>1
      <4> HIDE DEF z
      <4>2. z * (s * t) = (z * s) * t
        BY <1>1, <4>1
      <4> QED BY <4>2 DEF z
    <3>2. (c * d) * s = (c * s) * d
      BY <1>1
    <3>3. ((c * s) * d) * t = (c * s) * (d * t)
      <4> DEFINE z == c * s
      <4>1. z \in Int
        BY <1>1
      <4> HIDE DEF z
      <4>2. (z * d) * t = z * (d * t)
        BY <1>1, <4>1
      <4> QED BY <4>2 DEF z
    <3> QED BY <3>1, <3>2, <3>3
  <2> QED BY <2>1, <2>2
<1>7. u = x + r /\ v = y + q /\ r \in Nat /\ q \in Nat
  BY <1>2, <1>3
<1> HIDE DEF x, y, r, q
<1>8. u * v - x * y = r * v + x * q
  <2>1. u * v = x * v + r * v
    BY <1>2, <1>7
  <2>2. x * v = x * y + x * q
    BY <1>2, <1>7
  <2>3. x * v \in Int /\ r * v \in Int /\ x * y \in Int /\ x * q \in Int
    BY <1>2, <1>7
  <2> QED BY <2>1, <2>2, <2>3
<1>9. x * y \in Nat /\ r * v \in Nat /\ x * q \in Nat /\ u * v \in Nat
  BY <1>2, <1>7
<1>10. m * (r * v + x * q) < 2 * (u * v)
  <2>1. m * (r * v + x * q) = (m * r) * v + x * (m * q)
    <3> DEFINE g == r * v
               h == x * q
    <3>1. g \in Int /\ h \in Int
      BY <1>9
    <3>2. m * g = (m * r) * v /\ m * h = x * (m * q)
      BY <1>2, <1>7
    <3> HIDE DEF g, h
    <3>3. m * (g + h) = m * g + m * h
      BY <3>1
    <3> QED BY <3>2, <3>3 DEF g, h
  <2> DEFINE g == m * r
             h == m * q
  <2>2. g \in Nat /\ h \in Nat /\ g < u /\ h < v
    BY <1>4, <1>5, <1>7
  <2> HIDE DEF g, h
  <2>3. g * v < u * v
    BY <2>2
  <2>4. x * h <= u * h /\ u * h < u * v
    <3>1. x <= u
      BY <1>2, <1>7
    <3>2. x * h <= u * h
      BY <1>2, <2>2, <3>1
    <3>3. u * h < u * v
      BY <2>2
    <3> QED BY <3>2, <3>3
  <2>5. g * v \in Int /\ x * h \in Int /\ u * h \in Int
    BY <1>2, <2>2
  <2>6. g * v + x * h < 2 * (u * v)
    BY <1>9, <2>3, <2>4, <2>5
  <2> QED BY <2>1, <2>6 DEF g, h
<1>11. x * y <= u * v
  BY <1>8, <1>9
<1> QED BY <1>6, <1>8, <1>9, <1>10, <1>11

\* Fewer digits are kept by a number near in more of them.
LEMMA NearLess ==
  ASSUME NEW x \in Digits, NEW y \in Digits, NEW k \in Nat, NEW l \in Nat, k <= l, Near(x, y, l)
  PROVE  Near(x, y, k)
<1>1. x.exp \in Int /\ y.exp \in Int
  BY DEF Digits
<1>2. PICK m \in Int : m <= x.exp /\ m <= y.exp /\ m <= x.exp
  BY <1>1, Below
<1> DEFINE d == Scaled(x, m)
           e == Scaled(y, m)
<1>3. d \in Int /\ e \in Int
  BY <1>2, ScaledType
<1>4. 0 <= d /\ d <= e /\ l * (e - d) < e
  BY <1>2, NearAt
<1> HIDE DEF d, e
<1>5. k * (e - d) < e
  <2> DEFINE r == e - d
  <2>1. r \in Nat /\ l * r < e
    BY <1>3, <1>4
  <2> HIDE DEF r
  <2>2. k * r <= l * r /\ k * r \in Int /\ l * r \in Int
    BY <2>1
  <2>3. k * r < e
    BY <1>3, <2>1, <2>2
  <2> QED BY <2>3 DEF r
<1> QED BY <1>2, <1>4, <1>5, NearAt DEF d, e

\* Digits lost twice.
LEMMA NearOfNear ==
  ASSUME NEW x \in Digits, NEW y \in Digits, NEW z \in Digits, NEW k \in Nat,
         Near(x, y, 2 * k), Near(y, z, 2 * k)
  PROVE  Near(x, z, k)
<1>1. x.exp \in Int /\ y.exp \in Int /\ z.exp \in Int /\ 2 * k \in Nat
  BY DEF Digits
<1>2. PICK m \in Int : m <= x.exp /\ m <= y.exp /\ m <= z.exp
  BY <1>1, Below
<1> DEFINE d == Scaled(x, m)
           e == Scaled(y, m)
           f == Scaled(z, m)
           l == 2 * k
<1>3. d \in Int /\ e \in Int /\ f \in Int
  BY <1>2, ScaledType
<1>4. l \in Nat /\ Near(x, y, l) /\ Near(y, z, l)
  BY <1>1
<1> HIDE DEF l
<1>5. 0 <= d /\ d <= e /\ l * (e - d) < e /\ e <= f /\ l * (f - e) < f
  BY <1>2, <1>4, NearAt
<1> HIDE DEF d, e, f
<1>6. k * (f - d) < f
  <2> DEFINE r == e - d
             s == f - e
  <2>1. r \in Nat /\ s \in Nat /\ f - d = r + s /\ l * r < e /\ l * s < f
    BY <1>3, <1>5
  <2> HIDE DEF r, s
  <2>2. l * r = 2 * (k * r) /\ l * s = 2 * (k * s) /\ k * (r + s) = k * r + k * s
    BY <2>1 DEF l
  <2>3. k * r \in Int /\ k * s \in Int
    BY <2>1
  <2>4. k * (r + s) < f
    BY <1>3, <1>5, <2>1, <2>2, <2>3
  <2> QED BY <2>1, <2>4
<1> QED BY <1>2, <1>3, <1>5, <1>6, NearAt DEF d, f

\* After n steps the product of the factors is a word, for the first time, and
\* lower than theirs by less than two parts in m.
Fitting(u, v, n, m) ==
  LET f == Factors(u, v)
      w == (f[n].a * f[n].b) * TenTo[n]
  IN  /\ n \in 0..(WordDigits + 1)
      /\ f[n].a * f[n].b <= MaxWord
      /\ \A i \in Nat : i < n => f[i].a * f[i].b > MaxWord
      /\ w \in Nat /\ w <= u * v /\ m * (u * v - w) < 2 * (u * v)

\* The loop that shortens the factors ends within the digits of a word.
LEMMA ProductFits ==
  ASSUME NEW u \in 1..MAX_COEFF, NEW v \in 1..MAX_COEFF, NEW m \in Nat, m > 0, 100 * (m * m) <= MaxWord
  PROVE  LET T == {i \in 0..(WordDigits + 1) : Factors(u, v)[i].a * Factors(u, v)[i].b <= MaxWord}
         IN  Fitting(u, v, Min(T), m)
<1> DEFINE F == Factors(u, v)
           T == {i \in 0..(WordDigits + 1) : F[i].a * F[i].b <= MaxWord}
           n == Min(T)
<1>1. /\ MAX_COEFF \in Nat /\ MAX_COEFF <= MaxWord /\ MaxWord \in Nat /\ WordDigits \in Nat
      /\ TenTo[WordDigits + 1] > MaxWord /\ u \in Nat /\ v \in Nat /\ u > 0 /\ v > 0
      /\ u <= MaxWord /\ v <= MaxWord
  BY Widths, WordDigitsFit
<1>2. \A i \in Nat : F[i].a \in Nat /\ F[i].b \in Nat
  <2>1. \A i \in Nat : F[i] \in [a : Nat, b : Nat]
    BY <1>1, FactorsNext
  <2> HIDE DEF F
  <2> QED BY <2>1
<1>3. T # {}
  <2> SUFFICES ASSUME T = {} PROVE FALSE
    OBVIOUS
  <2> DEFINE N == WordDigits + 1
             t == TenTo[N]
             g == F[N].a * F[N].b
  <2>1. N \in Nat /\ t \in Nat /\ t > MaxWord
    BY <1>1, TenToType
  <2>2. \A i \in Nat : i <= N => F[i].a * F[i].b > MaxWord
    <3> TAKE i \in Nat
    <3> SUFFICES ASSUME i <= N, ~(F[i].a * F[i].b > MaxWord) PROVE FALSE
      OBVIOUS
    <3> HIDE DEF F
    <3>1. F[i].a * F[i].b \in Int
      BY <1>2
    <3>2. F[i].a * F[i].b <= MaxWord /\ i \in 0..(WordDigits + 1)
      BY <1>1, <2>1, <3>1
    <3> QED BY <3>2
  <2>3. PICK i \in Nat, j \in Nat : i + j = N /\ Shorter(u, F[N].a, i, m) /\ Shorter(v, F[N].b, j, m)
    <3>1. \A i \in Nat : i < N => F[i].a * F[i].b > MaxWord
      BY <2>1, <2>2
    <3> HIDE DEF N
    <3> QED BY <1>1, <2>1, <3>1, FactorsAreShort
  <2>4. g * TenTo[i + j] <= u * v
    <3> HIDE DEF F, N
    <3> QED BY <1>1, <2>3, ShortProduct
  <2>5. g * t <= u * v
    BY <2>3, <2>4
  <2>6. g \in Nat /\ g > MaxWord
    <3>1. g \in Nat
      <4> HIDE DEF F, N
      <4> QED BY <1>2, <2>1
    <3> QED BY <2>1, <2>2, <3>1
  <2> HIDE DEF g, t
  <2>7. u * v <= MaxWord * v /\ MaxWord * v <= MaxWord * MaxWord
    BY <1>1
  <2>8. MaxWord * MaxWord <= g * MaxWord /\ g * MaxWord < g * t
    <3>1. g > 0
      BY <1>1, <2>6
    <3> QED BY <1>1, <2>1, <2>6, <3>1
  <2>9. u * v \in Int /\ MaxWord * v \in Int /\ MaxWord * MaxWord \in Int /\ g * MaxWord \in Int /\ g * t \in Int
    BY <1>1, <2>1, <2>6
  <2> QED BY <2>5, <2>7, <2>8, <2>9
<1>4. n \in T /\ \A i \in T : n <= i
  <2>1. T \subseteq Nat
    BY <1>1
  <2> HIDE DEF T
  <2> QED BY <1>3, <2>1, MinOfNats
<1>5. n \in Nat /\ n \in 0..(WordDigits + 1)
  BY <1>1, <1>4
<1>6. ASSUME NEW i \in Nat, i < n PROVE F[i].a * F[i].b > MaxWord
  <2> SUFFICES ASSUME ~(F[i].a * F[i].b > MaxWord) PROVE FALSE
    OBVIOUS
  <2> HIDE DEF n, F
  <2>1. F[i].a * F[i].b \in Int
    BY <1>2
  <2>2. F[i].a * F[i].b <= MaxWord /\ i \in 0..(WordDigits + 1)
    BY <1>1, <1>5, <1>6, <2>1
  <2>3. i \in T
    BY <2>2
  <2>4. n <= i
    BY <1>4, <2>3
  <2> QED BY <1>5, <1>6, <2>4
<1>7. LET w == (F[n].a * F[n].b) * TenTo[n] IN
      w \in Nat /\ w <= u * v /\ m * (u * v - w) < 2 * (u * v)
  <2> HIDE DEF n
  <2>1. PICK i \in Nat, j \in Nat : i + j = n /\ Shorter(u, F[n].a, i, m) /\ Shorter(v, F[n].b, j, m)
    BY <1>1, <1>5, <1>6, FactorsAreShort
  <2> DEFINE c == F[n].a
             g == F[n].b
             z == (c * g) * TenTo[i + j]
  <2>2. Shorter(u, c, i, m) /\ Shorter(v, g, j, m)
    BY <2>1
  <2> HIDE DEF c, g, F
  <2>3. z \in Nat /\ z <= u * v /\ m * (u * v - z) < 2 * (u * v)
    BY <1>1, <2>1, <2>2, ShortProduct
  <2> QED BY <2>1, <2>3 DEF c, g
<1>8. F[n].a * F[n].b <= MaxWord
  BY <1>4
<1> HIDE DEF n
<1>9. Fitting(u, v, n, m)
  BY <1>5, <1>6, <1>7, <1>8 DEF Fitting
<1> QED BY <1>9 DEF n

\* A product that fits the coefficient is exact.  A larger one loses last
\* digits, the factors' own among them when it is no word: less than a k-th
\* part of it is lost, where 1600 * k * k is a word (Mul).
THEOREM ProductsAreClose ==
  ASSUME NEW a \in Decimals, NEW b \in Decimals, InRange(Exactly("*", a, b)),
         NEW k \in Nat, k > 0, 1600 * (k * k) <= MaxWord, 2 * k <= Resolution
  PROVE  Kept(Mul(a, b), Exactly("*", a, b), k)
<1> DEFINE E == [coef |-> a.coef * b.coef, exp |-> a.exp + b.exp]
<1>1. /\ a.coef \in Int /\ b.coef \in Int /\ a.exp \in Int /\ b.exp \in Int
      /\ a.coef \in -MAX_COEFF..MAX_COEFF /\ b.coef \in -MAX_COEFF..MAX_COEFF
      /\ MAX_COEFF \in Nat /\ MAX_COEFF <= MaxWord /\ MaxWord \in Nat /\ MaxExp \in Nat
      /\ WordDigits \in Nat
  <2>1. MAX_COEFF \in Nat /\ MAX_COEFF <= MaxWord /\ MaxWord \in Nat /\ MaxExp \in Nat /\ WordDigits \in Nat
    BY Widths, WordDigitsFit
  <2> QED BY <2>1 DEF Decimals
<1>2. Exactly("*", a, b) = E
  BY DEF Exactly
<1>3. E \in Digits /\ InRange(E) /\ E.coef \in Int
  BY <1>1, <1>2 DEF Digits
<1>4. CASE a.coef = 0 \/ b.coef = 0
  <2>1. E.coef = 0
    BY <1>1, <1>4
  <2>2. Mul(a, b) = ZERO
    BY <1>4 DEF Mul
  <2>3. normalizeTowardZero(E.coef, E.exp) = ZERO
    <3>1. [coef |-> E.coef, exp |-> E.exp] \in Digits
      BY <1>3 DEF Digits
    <3> QED BY <2>1, <3>1 DEF normalizeTowardZero, Normal
  <2> HIDE DEF E
  <2>4. E.coef \in -MaxWord..MaxWord
    BY <1>1, <2>1
  <2>5. Kept(ZERO, E, Resolution)
    BY <1>3, <2>3, <2>4, NormalFormKept
  <2>6. Fits(E.coef)
    BY <1>1, <2>1 DEF Fits
  <2> QED BY <1>2, <2>2, <2>5, <2>6 DEF Kept
<1>5. CASE ~(a.coef = 0 \/ b.coef = 0)
  <2> DEFINE u == abs64(a.coef)
             v == abs64(b.coef)
             F == Factors(u, v)
             n == Min({i \in 0..(WordDigits + 1) : F[i].a * F[i].b <= MaxWord})
             p == F[n].a * F[n].b
             q == IF (a.coef < 0) # (b.coef < 0) THEN -p ELSE p
             x == [coef |-> q, exp |-> a.exp + b.exp + n]
             m == 4 * k
             w == p * TenTo[n]
  <2>1. /\ u \in 1..MAX_COEFF /\ v \in 1..MAX_COEFF /\ u \in Nat /\ v \in Nat /\ u > 0 /\ v > 0
        /\ E.coef = IF (a.coef < 0) # (b.coef < 0) THEN -(u * v) ELSE u * v
    <3>1. u \in 1..MAX_COEFF /\ v \in 1..MAX_COEFF
      BY <1>1, <1>5 DEF abs64
    <3>2. CASE a.coef < 0
      <4>1. u = -a.coef /\ (a.coef < 0) = TRUE
        BY <1>1, <3>2 DEF abs64
      <4>2. CASE b.coef < 0
        <5>1. v = -b.coef /\ (b.coef < 0) = TRUE
          BY <1>1, <4>2 DEF abs64
        <5>2. (-a.coef) * (-b.coef) = a.coef * b.coef
          BY <1>1
        <5> QED BY <1>1, <3>1, <4>1, <5>1, <5>2
      <4>3. CASE ~(b.coef < 0)
        <5>1. v = b.coef /\ (b.coef < 0) = FALSE
          BY <1>1, <4>3 DEF abs64
        <5>2. -((-a.coef) * b.coef) = a.coef * b.coef
          BY <1>1
        <5> QED BY <1>1, <3>1, <4>1, <5>1, <5>2
      <4> QED BY <4>2, <4>3
    <3>3. CASE ~(a.coef < 0)
      <4>1. u = a.coef /\ (a.coef < 0) = FALSE
        BY <1>1, <3>3 DEF abs64
      <4>2. CASE b.coef < 0
        <5>1. v = -b.coef /\ (b.coef < 0) = TRUE
          BY <1>1, <4>2 DEF abs64
        <5>2. -(a.coef * (-b.coef)) = a.coef * b.coef
          BY <1>1
        <5> QED BY <1>1, <3>1, <4>1, <5>1, <5>2
      <4>3. CASE ~(b.coef < 0)
        <5>1. v = b.coef /\ (b.coef < 0) = FALSE
          BY <1>1, <4>3 DEF abs64
        <5> QED BY <1>1, <3>1, <4>1, <5>1
      <4> QED BY <4>2, <4>3
    <3> QED BY <3>2, <3>3
  <2>2. Mul(a, b) = normalizeTowardZero(q, Exp(Exp(a.exp + b.exp) + n))
    BY <1>5 DEF Mul
  <2>3. m \in Nat /\ m > 0 /\ 100 * (m * m) <= MaxWord
    <3>1. 100 * ((4 * k) * (4 * k)) = 1600 * (k * k)
      OBVIOUS
    <3> QED BY <3>1
  <2> HIDE DEF m, u, v
  <2>4. Fitting(u, v, n, m)
    <3>1. u \in 1..MAX_COEFF /\ v \in 1..MAX_COEFF /\ m \in Nat /\ m > 0
      BY <2>1, <2>3
    <3>2. 100 * (m * m) <= MaxWord
      BY <2>3
    <3> HIDE DEF E
    <3> QED BY <3>1, <3>2, ProductFits
  <2> HIDE DEF n
  <2>5. /\ n \in 0..(WordDigits + 1) /\ p <= MaxWord
        /\ \A i \in Nat : i < n => F[i].a * F[i].b > MaxWord
    BY <2>4 DEF Fitting
  <2>6. w \in Nat /\ w <= u * v /\ m * (u * v - w) < 2 * (u * v)
    BY <2>4 DEF Fitting
  <2>7. n \in Nat /\ p \in Nat /\ F[0] = [a |-> u, b |-> v]
    <3>1. n \in Nat
      BY <1>1, <2>5
    <3>2. u \in Nat /\ v \in Nat
      BY <2>1
    <3>3. F[0] = [a |-> u, b |-> v] /\ \A i \in Nat : F[i] \in [a : Nat, b : Nat]
      BY <3>2, FactorsFrom
    <3> HIDE DEF F
    <3>4. F[n] \in [a : Nat, b : Nat]
      BY <3>1, <3>3
    <3> QED BY <3>1, <3>3, <3>4
  <2> HIDE DEF F, p
  <2>8. TenTo[n] \in Nat /\ TenTo[n] >= 1 /\ u * v \in Nat /\ u * v > 0
    BY <2>1, <2>5, <2>7, TenToType
  <2>9. p > 0
    <3> SUFFICES ASSUME p = 0 PROVE FALSE
      BY <2>5, <2>7
    <3>1. w = 0
      BY <2>8
    <3> DEFINE z == u * v
    <3>2. z \in Nat /\ z > 0 /\ m * (z - 0) < 2 * z
      BY <2>6, <2>8, <3>1
    <3> HIDE DEF z
    <3>3. m * (z - 0) = m * z /\ m * z >= 4 * z
      <4>1. m >= 4
        BY DEF m
      <4> QED BY <2>3, <3>2, <4>1
    <3>4. m * z \in Int
      BY <2>3, <3>2
    <3> QED BY <3>2, <3>3, <3>4
  <2>10. abs64(E.coef) = u * v
    <3> HIDE DEF E
    <3> QED BY <1>3, <2>1, <2>8 DEF abs64
  <2>11. ASSUME NEW j \in Nat, TenTo[j] <= p
         PROVE  j <= WordDigits /\ (a.exp + b.exp + n) + j <= MaxExp
    <3>1. j <= WordDigits
      <4>1. p \in -MaxWord..MaxWord /\ abs64(p) = p
        BY <1>1, <2>5, <2>7, AbsType
      <4> QED BY <2>11, <4>1, DigitsOfWord
    <3>2. TenTo[j + n] <= w
      <4>1. TenTo[j + n] = TenTo[j] * TenTo[n] /\ TenTo[j] \in Nat
        <5>1. n \in Nat /\ j \in Nat
          BY <2>5, <2>7
        <5> QED BY <5>1, TenToPlus, TenToType
      <4>2. TenTo[j] * TenTo[n] <= p * TenTo[n]
        BY <2>5, <2>7, <2>8, <2>11, <4>1
      <4> QED BY <4>1, <4>2
    <3>3. j + n \in Nat /\ j + n \in 0..(2 * WordDigits + 2)
      BY <1>1, <2>5, <2>7, <3>1
    <3>4. TenTo[j + n] \in Nat
      BY <3>3, TenToType
    <3> HIDE DEF w
    <3>5. TenTo[j + n] <= abs64(E.coef)
      BY <2>6, <2>8, <2>10, <3>2, <3>4
    <3>6. (a.exp + b.exp) + (j + n) <= MaxExp
      BY <1>3, <3>3, <3>5 DEF InRange
    <3> QED BY <1>1, <2>5, <2>7, <3>1, <3>6
  <2>12. a.exp + b.exp \in -MaxExp..MaxExp
    BY <1>3 DEF InRange
  <2>13. a.exp + b.exp + n \in -MaxExp..MaxExp
    <3>1. TenTo[0] <= p
      BY <2>5, <2>7, <2>9, TenToNext
    <3>2. (a.exp + b.exp + n) + 0 <= MaxExp
      BY <2>11, <3>1
    <3> QED BY <1>1, <2>5, <2>7, <2>12, <3>2
  <2>14. Mul(a, b) = normalizeTowardZero(x.coef, x.exp)
    <3> DEFINE e == a.exp + b.exp
    <3>1. e \in Int /\ -MaxExp - 1 <= e /\ e <= MaxExp
      BY <1>1, <2>12
    <3>2. e + n \in Int /\ -MaxExp - 1 <= e + n /\ e + n <= MaxExp
      BY <1>1, <2>5, <2>7, <2>13
    <3> HIDE DEF e
    <3>3. Exp(e) = e /\ Exp(e + n) = e + n
      BY <3>1, <3>2, ExpIs
    <3> QED BY <2>2, <3>3 DEF e
  <2> DEFINE d == Mul(a, b)
  <2>15. q \in Int /\ abs64(q) = p /\ q \in -MaxWord..MaxWord
    <3>1. q = p \/ q = -p
      OBVIOUS
    <3> HIDE DEF q
    <3> QED BY <1>1, <2>5, <2>7, <3>1 DEF abs64
  <2>16. x \in Digits /\ x.coef = q /\ x.exp = a.exp + b.exp + n
    BY <1>1, <2>5, <2>7, <2>15 DEF Digits
  <2>17. InRange(x)
    <3> HIDE DEF x, q
    <3>1. ASSUME NEW j \in 0..(2 * WordDigits + 2), TenTo[j] <= abs64(x.coef) PROVE x.exp + j <= MaxExp
      <4>1. j \in Nat /\ TenTo[j] <= p
        BY <1>1, <2>15, <2>16, <3>1
      <4> QED BY <2>11, <2>16, <4>1
    <3> QED BY <2>13, <2>16, <3>1 DEF InRange
  <2> HIDE DEF x, q, d, E, w
  <2>18. Kept(d, x, Resolution) /\ (x.coef >= 0 => d \in Decimals)
    BY <2>14, <2>15, <2>16, <2>17, NormalFormKept DEF d
  <2>19. ASSUME Fits(E.coef), E.coef >= 0 \/ E.exp <= 0 PROVE Same(d, E)
    <3>1. n = 0
      <4>1. u * v <= MaxWord
        BY <1>1, <1>3, <2>8, <2>10, <2>19 DEF Fits, abs64
      <4>2. F[0].a * F[0].b = u * v
        BY <2>7
      <4> SUFFICES ASSUME n # 0 PROVE FALSE
        OBVIOUS
      <4>3. 0 \in Nat /\ 0 < n
        BY <2>5, <2>7
      <4>4. F[0].a * F[0].b > MaxWord
        BY <2>5, <4>3
      <4> QED BY <1>1, <2>8, <4>1, <4>2, <4>4
    <3>2. p = u * v
      BY <2>7, <3>1 DEF p
    <3>3. q = E.coef
      BY <2>1, <3>2 DEF q
    <3>4. x.coef = E.coef /\ x.exp = E.exp
      BY <1>1, <2>16, <3>1, <3>3 DEF E
    <3>5. x = E
      BY <1>3, <2>16, <3>4 DEF Digits
    <3> QED BY <2>18, <2>19, <3>5 DEF Kept
  <2>20. ASSUME ~Fits(E.coef), E.coef >= 0 PROVE Near(d, E, k)
    <3>1. ~((a.coef < 0) # (b.coef < 0))
      <4> SUFFICES ASSUME (a.coef < 0) # (b.coef < 0) PROVE FALSE
        OBVIOUS
      <4>1. E.coef = -(u * v)
        BY <2>1
      <4> QED BY <2>8, <2>20, <4>1
    <3>2. x.coef = p /\ E.coef = u * v
      BY <2>1, <2>16, <3>1 DEF q
    <3>3. d \in Digits
      <4>1. d \in Decimals
        BY <2>5, <2>7, <2>18, <3>2
      <4> QED BY <4>1, Widths DEF Decimals, Digits
    <3>4. Near(x, E, 2 * k)
      <4>1. E.exp \in Int /\ E.exp <= x.exp /\ x.exp - E.exp = n /\ 2 * k \in Nat
        BY <1>1, <2>5, <2>7, <2>16 DEF E
      <4>2. Scaled(x, E.exp) = w
        BY <3>2, <4>1 DEF Scaled, w
      <4>3. Scaled(E, E.exp) = u * v
        BY <1>3, <3>2, ScaledHere
      <4> DEFINE z == u * v
      <4>4. z \in Nat /\ w \in Nat /\ w <= z /\ m * (z - w) < 2 * z
        BY <2>6, <2>8
      <4> HIDE DEF z
      <4>5. (2 * k) * (z - w) < z
        <5> DEFINE r == z - w
        <5>1. r \in Nat /\ m * r < 2 * z
          BY <4>4
        <5> HIDE DEF r
        <5>2. m * r = 2 * ((2 * k) * r) /\ (2 * k) * r \in Int
          BY <5>1 DEF m
        <5>3. (2 * k) * r < z
          BY <4>4, <5>1, <5>2
        <5> QED BY <5>3 DEF r
      <4>6. 0 <= w
        BY <4>4
      <4> DEFINE l == 2 * k
                 g == E.exp
      <4>7. /\ l \in Nat /\ g \in Int /\ g <= x.exp /\ g <= E.exp
            /\ Scaled(x, g) = w /\ Scaled(E, g) = z /\ l * (z - w) < z
        BY <4>1, <4>2, <4>3, <4>5 DEF z
      <4> HIDE DEF l, g
      <4>8. Near(x, E, l)
        BY <1>3, <2>16, <4>4, <4>6, <4>7, NearAt
      <4> QED BY <4>8 DEF l
    <3>5. CASE Fits(x.coef)
      <4>1. Same(d, x)
        BY <2>5, <2>7, <2>18, <3>2, <3>5 DEF Kept
      <4> DEFINE l == 2 * k
      <4>2. l \in Nat /\ k <= l /\ Near(x, E, l)
        BY <3>4
      <4> HIDE DEF l
      <4>3. Near(d, E, l)
        BY <1>3, <2>16, <3>3, <4>1, <4>2, SameIsTransitive
      <4> QED BY <1>3, <3>3, <4>2, <4>3, NearLess
    <3>6. CASE ~Fits(x.coef)
      <4>1. Near(d, x, Resolution)
        BY <2>5, <2>7, <2>18, <3>2, <3>6 DEF Kept
      <4>2. 2 * k \in Nat
        OBVIOUS
      <4>3. Near(d, x, 2 * k)
        BY <2>16, <3>3, <4>1, <4>2, NearLess, ResolutionIs
      <4> QED BY <1>3, <2>16, <3>3, <3>4, <4>3, NearOfNear
    <3> QED BY <3>5, <3>6
  <2> QED BY <1>2, <2>19, <2>20 DEF Kept, d
<1> QED BY <1>4, <1>5
=============================================================================
