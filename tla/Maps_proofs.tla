----------------------------- MODULE Maps_proofs -----------------------------
(***************************************************************************)
(* Proofs about Maps, for every hash function, every width and depth of    *)
(* the trie and every bucket size: tries stay well formed, and, where the  *)
(* first uses of one map do not overlap, maps keep what they promise.      *)
(***************************************************************************)
EXTENDS Maps, TLAPS, FiniteSetTheorems, SequenceTheorems, WellFoundedInduction

----------------------------------------------------------------------------
(* Places                                                                  *)

\* The places a trie may have: the ways along hashes.
Segment == {Segments(k)[i] : k \in Key, i \in 1 .. MaxDepth}
Place == {Upto(k, n) : k \in Key, n \in 0 .. MaxDepth}

LEMMA Way ==
  ASSUME NEW k \in Key, NEW n \in 0 .. MaxDepth
  PROVE  /\ Upto(k, n) \in Seq(Segment) /\ Upto(k, n) \in Place /\ Len(Upto(k, n)) = n
         /\ \A i \in 1 .. n : Upto(k, n)[i] = Segments(k)[i]
<1>1. MaxDepth \in Nat /\ n \in Nat
  BY LevelAssumption
<1> DEFINE s == Segments(k)
<1>2. s \in [1 .. MaxDepth -> Segment]
  BY DEF Segments, Segment
<1> HIDE DEF s
<1>3. \A i \in 1 .. n : s[i] \in Segment
  BY <1>1, <1>2
<1>4. n - 1 + 1 = n /\ \A i \in 1 .. n : 1 + i - 1 = i
  BY <1>1
<1>5. /\ SubSeq(s, 1, n) \in Seq(Segment) /\ Len(SubSeq(s, 1, n)) = n
      /\ \A i \in 1 .. n : SubSeq(s, 1, n)[i] = s[i]
  <2>1. 1 \in Int /\ n \in Int /\ (1 <= n => n - 1 + 1 = n) /\ (~(1 <= n) => n = 0)
    BY <1>1
  <2> QED BY <1>1, <1>3, <2>1, SubSeqProperties
<1> QED BY <1>5 DEF Upto, s, Place

\* Prefixes, position by position.
LEMMA Prefix ==
  ASSUME NEW S, NEW s \in Seq(S), NEW t \in Seq(S)
  PROVE  IsPrefix(s, t) <=> Len(s) <= Len(t) /\ \A i \in 1 .. Len(s) : s[i] = t[i]
<1>1. Len(s) \in Nat /\ Len(t) \in Nat
  BY LenProperties
<1> DEFINE n == Len(s)
           a == SubSeq(s, 1, n)
           b == SubSeq(t, 1, n)
<1> SUFFICES ASSUME n <= Len(t) PROVE a = b <=> \A i \in 1 .. n : s[i] = t[i]
  BY DEF IsPrefix
<1>2. \A i \in 1 .. n : s[i] \in S /\ t[i] \in S
  BY <1>1, ElementOfSeq
<1>3. /\ a \in Seq(S) /\ Len(a) = n /\ \A i \in 1 .. n : a[i] = s[i]
      /\ b \in Seq(S) /\ Len(b) = n /\ \A i \in 1 .. n : b[i] = t[i]
  <2>1. 1 \in Int /\ n \in Int /\ (1 <= n => n - 1 + 1 = n) /\ (~(1 <= n) => n = 0)
    BY <1>1
  <2>2. n - 1 + 1 = n /\ \A i \in 1 .. n : 1 + i - 1 = i
    BY <1>1
  <2> HIDE DEF n
  <2> QED BY <1>1, <1>2, <2>1, <2>2, SubSeqProperties DEF a, b
<1> HIDE DEF n, a, b
<1>4. (\A i \in 1 .. n : a[i] = b[i]) => a = b
  BY <1>3, SeqEqual
<1> QED BY <1>3, <1>4

\* A place on the way along a hash, and what comes before it there.
LEMMA OnWay ==
  ASSUME NEW p \in Place, NEW q \in Place, NEW k \in Key, q = Upto(k, Len(q))
  PROVE  /\ Len(p) \in 0 .. MaxDepth /\ Len(q) \in 0 .. MaxDepth
         /\ IsPrefix(p, q) <=> Len(p) <= Len(q) /\ p = Upto(k, Len(p))
<1>1. \A r \in Place : Len(r) \in 0 .. MaxDepth /\ r \in Seq(Segment)
  <2> TAKE r \in Place
  <2>1. PICK x \in Key, n \in 0 .. MaxDepth : r = Upto(x, n)
    BY DEF Place
  <2>2. Upto(x, n) \in Seq(Segment) /\ Len(Upto(x, n)) = n
    BY Way
  <2> QED BY <2>1, <2>2
<1>2. MaxDepth \in Nat /\ Len(p) \in 0 .. MaxDepth /\ Len(q) \in 0 .. MaxDepth
  BY <1>1, LevelAssumption
<1>3. p \in Seq(Segment) /\ q \in Seq(Segment)
  BY <1>1
<1>4. IsPrefix(p, q) => Len(p) <= Len(q)
  BY <1>3, Prefix
<1> SUFFICES ASSUME Len(p) <= Len(q) PROVE IsPrefix(p, q) <=> p = Upto(k, Len(p))
  BY <1>4, <1>2
<1> DEFINE u == Upto(k, Len(p))
<1>5. u \in Seq(Segment) /\ Len(u) = Len(p) /\ \A i \in 1 .. Len(p) : u[i] = Segments(k)[i]
  BY <1>2, Way
<1>6. \A i \in 1 .. Len(q) : q[i] = Segments(k)[i]
  BY <1>2, Way
<1>7. \A i \in 1 .. Len(p) : i \in 1 .. Len(q)
  BY <1>2
<1>8. \A i \in 1 .. Len(p) : q[i] = u[i]
  BY <1>5, <1>6, <1>7
<1>9. IsPrefix(p, q) <=> \A i \in 1 .. Len(p) : p[i] = u[i]
  BY <1>8, <1>3, Prefix
<1> HIDE DEF u
<1>10. (\A i \in 1 .. Len(p) : p[i] = u[i]) => p = u
  BY <1>5, <1>3, SeqEqual
<1> QED BY <1>9, <1>10 DEF u

\* Each place is on the way along some hash.
LEMMA SomeWay ==
  ASSUME NEW p \in Place
  PROVE  Len(p) \in 0 .. MaxDepth /\ \E k \in Key : p = Upto(k, Len(p))
BY Way DEF Place

\* Ways that meet have been one way.
LEMMA Cut ==
  ASSUME NEW k \in Key, NEW x \in Key, NEW n \in 0 .. MaxDepth, NEW m \in 0 .. n,
         Upto(k, n) = Upto(x, n)
  PROVE  Upto(k, m) = Upto(x, m)
<1>1. MaxDepth \in Nat /\ m \in 0 .. MaxDepth /\ m <= n
  BY LevelAssumption
<1>2. /\ Upto(k, m) \in Place /\ Len(Upto(k, m)) = m
      /\ Upto(k, n) \in Place /\ Len(Upto(k, n)) = n
  BY <1>1, Way
<1>3. IsPrefix(Upto(k, m), Upto(k, n))
  BY <1>1, <1>2, OnWay
<1> QED BY <1>2, <1>3, OnWay

\* The whole way is the whole hash.
LEMMA WholeWay ==
  ASSUME NEW k \in Key, NEW x \in Key, Upto(k, MaxDepth) = Upto(x, MaxDepth)
  PROVE  Hash[k] = Hash[x]
<1>1. MaxDepth \in Nat /\ MaxDepth \in 0 .. MaxDepth
  BY LevelAssumption
<1>2. \A i \in 1 .. MaxDepth : Segments(k)[i] = Segments(x)[i]
  BY <1>1, Way
<1>3. Segments(k) = Segments(x)
  BY <1>2 DEF Segments
<1> QED BY <1>3, HashAssumption

LEMMA LeastElement ==
  ASSUME NEW T, T \subseteq Nat, T # {}
  PROVE  Min(T) \in T /\ \A i \in T : Min(T) <= i
<1> DEFINE R == OpToRel(<, Nat)
<1>1. IsWellFoundedOn(R, Nat)
  BY NatLessThanWellFounded
<1>2. \A x, y \in Nat : x < y => <<x, y>> \in R
  BY DEF OpToRel
<1> HIDE DEF R
<1>3. PICK m \in T : \A i \in T : ~(<<i, m>> \in R)
  BY <1>1, WFMin
<1>4. \A i \in T : i \in Nat /\ m \in Nat /\ ~(i < m)
  BY <1>2, <1>3
<1>5. \A i \in T : m <= i
  BY <1>4
<1> QED BY <1>5 DEF Min

\* A set of numbers below n has a greatest one.
LEMMA GreatestElement ==
  ASSUME NEW n \in Nat, NEW T, T \subseteq 0 .. n, T # {}
  PROVE  Max(T) \in T /\ \A i \in T : i <= Max(T)
<1> DEFINE U == {n - i : i \in T}
<1>1. U \subseteq Nat /\ U # {}
  <2>1. \A i \in T : n - i \in Nat
    OBVIOUS
  <2>2. PICK i \in T : TRUE
    OBVIOUS
  <2>3. n - i \in U
    BY <2>2
  <2> QED BY <2>1, <2>3
<1>2. Min(U) \in U /\ \A u \in U : Min(U) <= u
  BY <1>1, LeastElement
<1>3. PICK m \in T : Min(U) = n - m
  BY <1>2
<1>4. \A i \in T : n - m <= n - i
  BY <1>2, <1>3
<1>5. \A i \in T : m >= i
  BY <1>4
<1>6. Max(T) \in T /\ \A i \in T : Max(T) >= i
  BY <1>5 DEF Max
<1> QED BY <1>6

----------------------------------------------------------------------------
(* Tries                                                                   *)

\* The finite functions from keys to values, and the tries there may be.
Mapping == UNION {[ks -> Val] : ks \in {x \in SUBSET Key : IsFiniteSet(x)}}
Trie == UNION {[ps -> Mapping] : ps \in SUBSET Place}

\* No place of a trie is on the way to p or behind it.
Free(T, p) == \A q \in DOMAIN T : IsPrefix(p, q) \/ IsPrefix(q, p) => q = p

BucketOK(p, b) ==
  /\ DOMAIN b # {} /\ \A k \in DOMAIN b : p = Upto(k, Len(p))
  /\ Cardinality(DOMAIN b) > BucketSize => \A k, x \in DOMAIN b : Hash[k] = Hash[x]
TrieOK(T) == T \in Trie /\ \A p \in DOMAIN T : Free(T, p) /\ BucketOK(p, T[p])

LEMMA MappingIs ==
  /\ \A m \in Mapping : /\ DOMAIN m \subseteq Key /\ IsFiniteSet(DOMAIN m)
                        /\ m = [k \in DOMAIN m |-> m[k]] /\ \A k \in DOMAIN m : m[k] \in Val
  /\ \A m : (/\ DOMAIN m \subseteq Key /\ IsFiniteSet(DOMAIN m)
             /\ m = [k \in DOMAIN m |-> m[k]] /\ \A k \in DOMAIN m : m[k] \in Val) => m \in Mapping
<1>1. ASSUME NEW m \in Mapping
      PROVE  /\ DOMAIN m \subseteq Key /\ IsFiniteSet(DOMAIN m)
             /\ m = [k \in DOMAIN m |-> m[k]] /\ \A k \in DOMAIN m : m[k] \in Val
  <2>1. PICK ks \in SUBSET Key : IsFiniteSet(ks) /\ m \in [ks -> Val]
    BY DEF Mapping
  <2> QED BY <2>1
<1>2. ASSUME NEW m, DOMAIN m \subseteq Key, IsFiniteSet(DOMAIN m),
             m = [k \in DOMAIN m |-> m[k]], \A k \in DOMAIN m : m[k] \in Val
      PROVE  m \in Mapping
  <2>1. m \in [DOMAIN m -> Val]
    BY <1>2
  <2> QED BY <1>2, <2>1 DEF Mapping
<1> QED BY <1>1, <1>2

LEMMA TrieIs ==
  /\ \A T \in Trie : /\ DOMAIN T \subseteq Place /\ T = [p \in DOMAIN T |-> T[p]]
                     /\ \A p \in DOMAIN T : T[p] \in Mapping
  /\ \A T : (/\ DOMAIN T \subseteq Place /\ T = [p \in DOMAIN T |-> T[p]]
             /\ \A p \in DOMAIN T : T[p] \in Mapping) => T \in Trie
<1>1. ASSUME NEW T \in Trie
      PROVE  /\ DOMAIN T \subseteq Place /\ T = [p \in DOMAIN T |-> T[p]]
             /\ \A p \in DOMAIN T : T[p] \in Mapping
  <2>1. PICK ps \in SUBSET Place : T \in [ps -> Mapping]
    BY DEF Trie
  <2> QED BY <2>1
<1>2. ASSUME NEW T, DOMAIN T \subseteq Place, T = [p \in DOMAIN T |-> T[p]],
             \A p \in DOMAIN T : T[p] \in Mapping
      PROVE  T \in Trie
  <2>1. T \in [DOMAIN T -> Mapping]
    BY <1>2
  <2> QED BY <1>2, <2>1 DEF Trie
<1> QED BY <1>1, <1>2

\* A function of nothing is <<>>.
LEMMA Nowhere ==
  /\ DOMAIN <<>> = {}
  /\ \A f : f = [x \in DOMAIN f |-> f[x]] => (f = <<>> <=> DOMAIN f = {})
<1>1. DOMAIN <<>> = {}
  OBVIOUS
<1>2. ASSUME NEW f, f = [x \in DOMAIN f |-> f[x]], DOMAIN f = {} PROVE f = <<>>
  <2>1. f \in Seq({}) /\ Len(f) = 0
    <3>1. f \in [1 .. 0 -> {}]
      BY <1>2
    <3>2. 0 \in Nat
      OBVIOUS
    <3> QED BY <3>1, <3>2, IsASeq
  <2> QED BY <2>1, EmptySeq
<1> QED BY <1>1, <1>2

\* Two places one of which is on the way to the other.
LEMMA Between ==
  ASSUME NEW p \in Place, NEW q \in Place, NEW r \in Place
  PROVE  /\ IsPrefix(p, p)
         /\ IsPrefix(p, q) /\ IsPrefix(q, r) => IsPrefix(p, r)
         /\ IsPrefix(p, r) /\ IsPrefix(q, r) => IsPrefix(p, q) \/ IsPrefix(q, p)
         /\ IsPrefix(p, q) /\ IsPrefix(q, p) => p = q
         /\ IsPrefix(p, q) /\ p # q => Len(p) < Len(q)
<1>1. /\ Len(p) \in Nat /\ Len(q) \in Nat /\ Len(r) \in Nat
  <2>1. MaxDepth \in Nat
    BY LevelAssumption
  <2> QED BY <2>1, SomeWay
<1>2. PICK k \in Key : p = Upto(k, Len(p))
  BY SomeWay
<1>3. PICK x \in Key : q = Upto(x, Len(q))
  BY SomeWay
<1>4. PICK y \in Key : r = Upto(y, Len(r))
  BY SomeWay
<1>5. IsPrefix(p, p)
  BY <1>1, <1>2, OnWay
<1>6. ASSUME IsPrefix(q, r) PROVE q = Upto(y, Len(q)) /\ Len(q) <= Len(r)
  BY <1>4, <1>6, OnWay
<1>7. ASSUME IsPrefix(p, q), IsPrefix(q, r) PROVE IsPrefix(p, r)
  <2>1. p = Upto(y, Len(p)) /\ Len(p) <= Len(q)
    BY <1>6, <1>7, OnWay
  <2> QED BY <1>1, <1>4, <1>6, <1>7, <2>1, OnWay
<1>8. ASSUME IsPrefix(p, r), IsPrefix(q, r) PROVE IsPrefix(p, q) \/ IsPrefix(q, p)
  <2>1. p = Upto(y, Len(p)) /\ q = Upto(y, Len(q))
    BY <1>4, <1>8, OnWay
  <2>2. CASE Len(p) <= Len(q)
    BY <2>1, <2>2, OnWay
  <2>3. CASE Len(q) <= Len(p)
    BY <2>1, <2>3, OnWay
  <2> QED BY <1>1, <2>2, <2>3
<1>9. ASSUME IsPrefix(p, q) PROVE p = Upto(x, Len(p)) /\ Len(p) <= Len(q)
  BY <1>3, <1>9, OnWay
<1>10. ASSUME IsPrefix(q, p) PROVE Len(q) <= Len(p)
  BY <1>2, <1>10, OnWay
<1>11. ASSUME IsPrefix(p, q), IsPrefix(q, p) PROVE p = q
  <2>1. Len(p) = Len(q)
    BY <1>1, <1>9, <1>10, <1>11
  <2> QED BY <1>3, <1>9, <1>11, <2>1
<1>12. ASSUME IsPrefix(p, q), p # q PROVE Len(p) < Len(q)
  <2>1. Len(p) # Len(q)
    BY <1>3, <1>9, <1>12
  <2> QED BY <1>1, <1>9, <1>12, <2>1
<1> QED BY <1>5, <1>7, <1>8, <1>11, <1>12

\* The way along a hash ends where nothing else is.
LEMMA WayFree ==
  ASSUME NEW T, TrieOK(T), NEW k \in Key
  PROVE  /\ WayOf(T, k) \in Place /\ WayOf(T, k) = Upto(k, Len(WayOf(T, k)))
         /\ Free(T, WayOf(T, k))
<1>1. DOMAIN T \subseteq Place /\ MaxDepth \in Nat /\ \A p \in DOMAIN T : Free(T, p)
  BY TrieIs, LevelAssumption DEF TrieOK
<1> DEFINE N == {n \in 0 .. MaxDepth : ~IsBranch(T, Upto(k, n))}
           w == Min(N)
           p == Upto(k, w)
<1>2. MaxDepth \in N
  <2> DEFINE e == Upto(k, MaxDepth)
  <2>1. MaxDepth \in 0 .. MaxDepth /\ e \in Place /\ Len(e) = MaxDepth
    BY <1>1, Way
  <2>2. ASSUME NEW q \in Under(T, e), q # e PROVE FALSE
    <3>1. q \in DOMAIN T /\ IsPrefix(e, q)
      BY <2>2 DEF Under
    <3>2. Len(e) < Len(q) /\ Len(q) \in 0 .. MaxDepth
      BY <1>1, <2>1, <2>2, <3>1, Between, SomeWay
    <3> QED BY <1>1, <2>1, <3>2
  <2>3. ~IsBranch(T, e)
    BY <2>2 DEF IsBranch
  <2> QED BY <2>1, <2>3
<1>3. w \in N /\ \A n \in N : w <= n
  BY <1>1, <1>2, LeastElement
<1>4. w \in 0 .. MaxDepth /\ ~IsBranch(T, p)
  BY <1>3
<1>5. \A n \in 0 .. MaxDepth : n < w => IsBranch(T, Upto(k, n))
  BY <1>3, <1>4
<1> HIDE DEF N, w
<1>6. p \in Place /\ Len(p) = w /\ p = Upto(k, Len(p))
  BY <1>4, Way
<1>7. WayOf(T, k) = p
  BY DEF WayOf, w, N
<1>8. ASSUME NEW q \in DOMAIN T, IsPrefix(p, q) PROVE q = p
  BY <1>4, <1>8 DEF IsBranch, Under
<1>9. ASSUME NEW q \in DOMAIN T, IsPrefix(q, p), q # p PROVE FALSE
  <2>1. q = Upto(k, Len(q)) /\ Len(q) \in 0 .. MaxDepth
    BY <1>1, <1>6, <1>9, OnWay
  <2>2. Len(q) < w
    BY <1>1, <1>6, <1>9, Between
  <2>3. PICK r \in Under(T, q) : r # q
    BY <1>5, <2>1, <2>2 DEF IsBranch
  <2> QED BY <1>1, <2>3 DEF Under, Free
<1>10. Free(T, p)
  BY <1>8, <1>9 DEF Free
<1> HIDE DEF p
<1> QED BY <1>6, <1>7, <1>10

\* Where it ends is the one place that is on it.
LEMMA OneWay ==
  ASSUME NEW T, TrieOK(T), NEW k \in Key, NEW q \in DOMAIN T, q = Upto(k, Len(q))
  PROVE  WayOf(T, k) = q
<1> DEFINE p == WayOf(T, k)
<1>1. p \in Place /\ p = Upto(k, Len(p)) /\ Free(T, p)
  BY WayFree
<1>2. q \in Place
  BY TrieIs DEF TrieOK
<1> HIDE DEF p
<1>3. Len(p) \in Nat /\ Len(q) \in Nat
  <2>1. MaxDepth \in Nat
    BY LevelAssumption
  <2> QED BY <1>1, <1>2, <2>1, SomeWay
<1>4. IsPrefix(p, q) \/ IsPrefix(q, p)
  <2>1. CASE Len(p) <= Len(q)
    BY <1>1, <1>2, <2>1, OnWay
  <2>2. CASE Len(q) <= Len(p)
    BY <1>1, <1>2, <2>2, OnWay
  <2> QED BY <1>3, <2>1, <2>2
<1>5. q = p
  BY <1>1, <1>4 DEF Free
<1> QED BY <1>5 DEF p

\* A trie has the pair <<k, v>> in some bucket.
Shows(T, k, v) == \E p \in DOMAIN T : k \in DOMAIN T[p] /\ T[p][k] = v

\* The bucket at the end of a key's way is the one that can have it.
LEMMA Found ==
  ASSUME NEW T, TrieOK(T)
  PROVE  /\ \A k \in Key : BucketOf(T, k) \in Mapping
         /\ \A k \in Key : \A v :
              Shows(T, k, v) <=> k \in DOMAIN BucketOf(T, k) /\ BucketOf(T, k)[k] = v
         /\ \A p \in DOMAIN T : \A k \in DOMAIN T[p] :
              k \in Key /\ p \in Place /\ p = Upto(k, Len(p)) /\ WayOf(T, k) = p
<1>1. /\ DOMAIN T \subseteq Place /\ \A p \in DOMAIN T : T[p] \in Mapping /\ BucketOK(p, T[p])
  BY TrieIs DEF TrieOK
<1>2. <<>> \in Mapping
  <2>1. DOMAIN <<>> = {} /\ <<>> = [k \in DOMAIN <<>> |-> <<>>[k]]
    BY Nowhere
  <2>2. IsFiniteSet(DOMAIN <<>>)
    BY <2>1, FS_EmptySet
  <2> QED BY <2>1, <2>2, MappingIs
<1>3. ASSUME NEW p \in DOMAIN T, NEW k \in DOMAIN T[p]
      PROVE  k \in Key /\ p \in Place /\ p = Upto(k, Len(p)) /\ WayOf(T, k) = p
  <2>1. k \in Key /\ p \in Place /\ p = Upto(k, Len(p))
    BY <1>1, MappingIs DEF BucketOK
  <2> QED BY <2>1, OneWay
<1>4. ASSUME NEW k \in Key, NEW v
      PROVE  Shows(T, k, v) <=> k \in DOMAIN BucketOf(T, k) /\ BucketOf(T, k)[k] = v
  <2> DEFINE w == WayOf(T, k)
  <2>1. CASE w \in DOMAIN T
    <3>1. BucketOf(T, k) = T[w]
      BY <2>1 DEF BucketOf
    <3> HIDE DEF w
    <3>2. \A p \in DOMAIN T : k \in DOMAIN T[p] => p = w
      BY <1>3 DEF w
    <3> QED BY <2>1, <3>1, <3>2 DEF Shows
  <2>2. CASE w \notin DOMAIN T
    <3>1. BucketOf(T, k) = <<>> /\ DOMAIN <<>> = {}
      BY <2>2, Nowhere DEF BucketOf
    <3>2. \A p \in DOMAIN T : k \in DOMAIN T[p] => p = w
      BY <1>3
    <3> HIDE DEF w
    <3> QED BY <2>2, <3>1, <3>2 DEF Shows
  <2> QED BY <2>1, <2>2
<1>5. \A k \in Key : BucketOf(T, k) \in Mapping
  BY <1>1, <1>2 DEF BucketOf
<1> QED BY <1>3, <1>4, <1>5

\* T has the pair <<k, v>> in a bucket other than that at p.
Beyond(T, p, k, v) == \E q \in DOMAIN T : q # p /\ k \in DOMAIN T[q] /\ T[q][k] = v

\* A bucket goes.
LEMMA DropBucket ==
  ASSUME NEW T, TrieOK(T), NEW p
  PROVE  /\ TrieOK(Without(T, p)) /\ DOMAIN Without(T, p) = DOMAIN T \ {p}
         /\ \A q \in DOMAIN T \ {p} : Without(T, p)[q] = T[q]
         /\ \A k, v : Shows(Without(T, p), k, v) <=> Beyond(T, p, k, v)
<1> DEFINE W == Without(T, p)
<1>1. DOMAIN W = DOMAIN T \ {p} /\ W = [q \in DOMAIN W |-> W[q]] /\ \A q \in DOMAIN W : W[q] = T[q]
  BY DEF Without
<1> HIDE DEF W
<1>2. W \in Trie
  BY <1>1, TrieIs DEF TrieOK
<1>3. \A q \in DOMAIN W : Free(W, q) /\ BucketOK(q, W[q])
  BY <1>1 DEF TrieOK, Free
<1>4. \A k, v : Shows(W, k, v) <=> Beyond(T, p, k, v)
  BY <1>1 DEF Shows, Beyond
<1>5. TrieOK(W)
  BY <1>2, <1>3 DEF TrieOK
<1> QED BY <1>1, <1>4, <1>5 DEF W

\* What is under a free place takes the place of what was there.
LEMMA Graft ==
  ASSUME NEW T, TrieOK(T), NEW p \in Place, Free(T, p),
         NEW D, TrieOK(D), \A q \in DOMAIN D : IsPrefix(p, q),
         NEW G, DOMAIN G = DOMAIN D \cup (DOMAIN T \ {p}), G = [q \in DOMAIN G |-> G[q]],
         \A q \in DOMAIN D : G[q] = D[q],
         \A q \in DOMAIN T \ {p} : q \notin DOMAIN D => G[q] = T[q]
  PROVE  TrieOK(G) /\ \A k, v : Shows(G, k, v) <=> Shows(D, k, v) \/ Beyond(T, p, k, v)
<1>1. /\ DOMAIN T \subseteq Place /\ DOMAIN D \subseteq Place
      /\ \A q \in DOMAIN T : T[q] \in Mapping /\ Free(T, q) /\ BucketOK(q, T[q])
      /\ \A q \in DOMAIN D : D[q] \in Mapping /\ Free(D, q) /\ BucketOK(q, D[q])
  BY TrieIs DEF TrieOK
<1>2. \A q \in DOMAIN T \ {p} : q \notin DOMAIN D /\ G[q] = T[q]
  BY DEF Free
<1>3. G \in Trie
  <2>1. DOMAIN G \subseteq Place /\ \A q \in DOMAIN G : G[q] \in Mapping
    BY <1>1, <1>2
  <2> QED BY <2>1, TrieIs
<1>4. ASSUME NEW q \in DOMAIN D, NEW r \in DOMAIN T \ {p} PROVE ~IsPrefix(q, r) /\ ~IsPrefix(r, q)
  <2>1. q \in Place /\ r \in Place /\ IsPrefix(p, q)
    BY <1>1
  <2>2. ~IsPrefix(p, r) /\ ~IsPrefix(r, p)
    BY DEF Free
  <2> QED BY <2>1, <2>2, Between
<1>5. ASSUME NEW q \in DOMAIN G PROVE Free(G, q)
  <2> SUFFICES ASSUME NEW r \in DOMAIN G, IsPrefix(q, r) \/ IsPrefix(r, q) PROVE r = q
    BY DEF Free
  <2>1. CASE q \in DOMAIN D /\ r \in DOMAIN D
    BY <1>1, <2>1 DEF Free
  <2>2. CASE q \in DOMAIN T \ {p} /\ r \in DOMAIN T \ {p}
    BY <1>1, <2>2 DEF Free
  <2>3. CASE q \in DOMAIN D /\ r \in DOMAIN T \ {p}
    BY <1>4, <2>3
  <2>4. CASE r \in DOMAIN D /\ q \in DOMAIN T \ {p}
    BY <1>4, <2>4
  <2> QED BY <2>1, <2>2, <2>3, <2>4
<1>6. \A q \in DOMAIN G : BucketOK(q, G[q])
  BY <1>1, <1>2
<1>7. \A k, v : Shows(G, k, v) <=> Shows(D, k, v) \/ Beyond(T, p, k, v)
  BY <1>2 DEF Shows, Beyond
<1> QED BY <1>3, <1>5, <1>6, <1>7 DEF TrieOK

\* A bucket is put where it is free to be.
LEMMA SetBucket ==
  ASSUME NEW T, TrieOK(T), NEW p \in Place, Free(T, p), NEW b \in Mapping, BucketOK(p, b)
  PROVE  /\ TrieOK(With(T, p, b))
         /\ \A k, v : Shows(With(T, p, b), k, v)
                        <=> (k \in DOMAIN b /\ b[k] = v) \/ Beyond(T, p, k, v)
<1> DEFINE D == [q \in {p} |-> b]
           G == With(T, p, b)
<1>1. DOMAIN D = {p} /\ D = [q \in DOMAIN D |-> D[q]] /\ D[p] = b
  OBVIOUS
<1>2. /\ DOMAIN G = DOMAIN T \cup {p} /\ G = [q \in DOMAIN G |-> G[q]] /\ G[p] = b
      /\ \A q \in DOMAIN T \ {p} : G[q] = T[q]
  BY DEF With
<1> HIDE DEF D, G
<1>3. D \in Trie
  BY <1>1, TrieIs
<1>4. TrieOK(D)
  BY <1>1, <1>3 DEF TrieOK, Free
<1>5. DOMAIN G = DOMAIN D \cup (DOMAIN T \ {p})
  BY <1>1, <1>2
<1>6. \A q \in DOMAIN D : IsPrefix(p, q)
  BY <1>1, Between
<1>7. \A q \in DOMAIN D : G[q] = D[q]
  BY <1>1, <1>2
<1>8. TrieOK(G) /\ \A k, v : Shows(G, k, v) <=> Shows(D, k, v) \/ Beyond(T, p, k, v)
  BY <1>2, <1>4, <1>5, <1>6, <1>7, Graft
<1>9. \A k, v : Shows(D, k, v) <=> k \in DOMAIN b /\ b[k] = v
  BY <1>1 DEF Shows
<1> QED BY <1>8, <1>9 DEF G

----------------------------------------------------------------------------
(* An overflowing bucket                                                   *)

Beside(b, k, n) == {x \in DOMAIN b : Upto(x, n) = Upto(k, n)}
Far(b, p, k) == {n \in (Len(p) + 1) .. MaxDepth :
                   n = MaxDepth \/ Cardinality(Beside(b, k, n)) <= BucketSize}
Deep(b, p, k) == Min(Far(b, p, k))
Down(b, p, k) == Upto(k, Deep(b, p, k))

\* How deep a pair goes, and who goes with it.
LEMMA DeepIs ==
  ASSUME NEW b \in Mapping, NEW p \in Place, Len(p) < MaxDepth, NEW k \in DOMAIN b
  PROVE  /\ Deep(b, p, k) \in (Len(p) + 1) .. MaxDepth /\ Deep(b, p, k) \in 0 .. MaxDepth
         /\ Deep(b, p, k) \in Far(b, p, k) /\ \A n \in Far(b, p, k) : Deep(b, p, k) <= n
         /\ \A x \in DOMAIN b :
              Upto(x, Deep(b, p, k)) = Upto(k, Deep(b, p, k)) => Deep(b, p, x) = Deep(b, p, k)
<1>1. MaxDepth \in Nat /\ Len(p) \in Nat
  <2>1. MaxDepth \in Nat
    BY LevelAssumption
  <2> QED BY <2>1, SomeWay
<1>2. \A x \in DOMAIN b : x \in Key
  BY MappingIs
<1>3. ASSUME NEW x \in DOMAIN b
      PROVE  /\ Deep(b, p, x) \in Far(b, p, x) /\ \A n \in Far(b, p, x) : Deep(b, p, x) <= n
             /\ Deep(b, p, x) \in (Len(p) + 1) .. MaxDepth /\ Deep(b, p, x) \in 0 .. MaxDepth
  <2>1. MaxDepth \in Far(b, p, x) /\ Far(b, p, x) \subseteq Nat
    BY <1>1 DEF Far
  <2>2. Deep(b, p, x) \in Far(b, p, x) /\ \A n \in Far(b, p, x) : Deep(b, p, x) <= n
    BY <2>1, LeastElement DEF Deep
  <2>3. Deep(b, p, x) \in (Len(p) + 1) .. MaxDepth
    BY <2>2 DEF Far
  <2>4. Deep(b, p, x) \in 0 .. MaxDepth
    BY <1>1, <2>3
  <2> QED BY <2>2, <2>3, <2>4
<1>4. ASSUME NEW x \in DOMAIN b, Upto(x, Deep(b, p, k)) = Upto(k, Deep(b, p, k))
      PROVE  Deep(b, p, x) = Deep(b, p, k)
  <2> DEFINE d == Deep(b, p, k)
             e == Deep(b, p, x)
  <2>1. /\ d \in Far(b, p, k) /\ d \in (Len(p) + 1) .. MaxDepth /\ d \in 0 .. MaxDepth
        /\ \A n \in Far(b, p, k) : d <= n
        /\ e \in Far(b, p, x) /\ e \in (Len(p) + 1) .. MaxDepth /\ e \in 0 .. MaxDepth
        /\ \A n \in Far(b, p, x) : e <= n
    BY <1>3
  <2>2. Upto(x, d) = Upto(k, d)
    BY <1>4
  <2> HIDE DEF d, e
  <2>3. ASSUME NEW n \in (Len(p) + 1) .. MaxDepth, n <= d
        PROVE  n \in Far(b, p, x) <=> n \in Far(b, p, k)
    <3>1. n \in 0 .. d
      BY <1>1, <2>1, <2>3
    <3>2. Upto(x, n) = Upto(k, n)
      BY <1>2, <2>1, <2>2, <3>1, Cut
    <3>3. Beside(b, x, n) = Beside(b, k, n)
      BY <3>2 DEF Beside
    <3> QED BY <3>3 DEF Far
  <2>4. d \in Far(b, p, x)
    BY <1>1, <2>1, <2>3
  <2>5. e <= d
    BY <2>1, <2>4
  <2>6. e \in Far(b, p, k)
    BY <2>1, <2>3, <2>5
  <2>7. d <= e
    BY <2>1, <2>6
  <2> QED BY <1>1, <2>1, <2>5, <2>7 DEF d, e
<1> QED BY <1>3, <1>4

LEMMA DealtOK ==
  ASSUME NEW b \in Mapping, NEW p \in Place, Len(p) < MaxDepth,
         \A k \in DOMAIN b : p = Upto(k, Len(p))
  PROVE  /\ TrieOK(Dealt(b, p)) /\ \A q \in DOMAIN Dealt(b, p) : IsPrefix(p, q)
         /\ \A k, v : Shows(Dealt(b, p), k, v) <=> k \in DOMAIN b /\ b[k] = v
<1> DEFINE D == Dealt(b, p)
           Of(q) == {x \in DOMAIN b : Down(b, p, x) = q}
<1>1. D = [q \in {Down(b, p, k) : k \in DOMAIN b} |-> [k \in Of(q) |-> b[k]]]
  BY DEF Dealt, Down, Deep, Far, Beside
<1>2. /\ MaxDepth \in Nat /\ BucketSize \in Nat /\ Len(p) \in Nat /\ DOMAIN b \subseteq Key
      /\ IsFiniteSet(DOMAIN b) /\ \A k \in DOMAIN b : b[k] \in Val
  <2>1. MaxDepth \in Nat /\ BucketSize \in Nat
    BY LevelAssumption
  <2> QED BY <2>1, MappingIs, SomeWay
<1>3. /\ D = [q \in DOMAIN D |-> D[q]] /\ DOMAIN D = {Down(b, p, k) : k \in DOMAIN b}
      /\ \A q \in DOMAIN D : D[q] = [k \in Of(q) |-> b[k]]
  BY <1>1
<1> HIDE DEF D
<1>4. ASSUME NEW k \in DOMAIN b
      PROVE  /\ Down(b, p, k) \in Place /\ Len(Down(b, p, k)) = Deep(b, p, k)
             /\ IsPrefix(p, Down(b, p, k)) /\ Down(b, p, k) = Upto(k, Len(Down(b, p, k)))
  <2>1. Deep(b, p, k) \in 0 .. MaxDepth /\ Deep(b, p, k) \in (Len(p) + 1) .. MaxDepth /\ k \in Key
    BY <1>2, DeepIs
  <2>2. Down(b, p, k) \in Place /\ Len(Down(b, p, k)) = Deep(b, p, k)
    BY <2>1, Way DEF Down
  <2>3. Down(b, p, k) = Upto(k, Len(Down(b, p, k)))
    BY <2>2 DEF Down
  <2>4. Len(p) <= Len(Down(b, p, k))
    BY <1>2, <2>1, <2>2
  <2>5. IsPrefix(p, Down(b, p, k))
    BY <2>1, <2>2, <2>3, <2>4, OnWay
  <2> QED BY <2>2, <2>3, <2>5
<1>5. ASSUME NEW q \in DOMAIN D, NEW r \in DOMAIN D, IsPrefix(q, r) PROVE r = q
  <2>1. PICK x \in DOMAIN b : q = Down(b, p, x)
    BY <1>3
  <2>2. PICK y \in DOMAIN b : r = Down(b, p, y)
    BY <1>3
  <2>3. q = Upto(y, Len(q)) /\ Len(q) = Deep(b, p, x) /\ q = Upto(x, Len(q))
    BY <1>2, <1>4, <1>5, <2>1, <2>2, OnWay
  <2>4. Upto(y, Deep(b, p, x)) = Upto(x, Deep(b, p, x))
    BY <2>3
  <2>5. \A z \in DOMAIN b : Upto(z, Deep(b, p, x)) = Upto(x, Deep(b, p, x))
                            => Deep(b, p, z) = Deep(b, p, x)
    BY DeepIs
  <2>6. Deep(b, p, y) = Deep(b, p, x)
    BY <2>4, <2>5
  <2> QED BY <2>2, <2>3, <2>6 DEF Down
<1>6. ASSUME NEW q \in DOMAIN D PROVE D[q] \in Mapping /\ BucketOK(q, D[q])
  <2>1. PICK x \in DOMAIN b : q = Down(b, p, x)
    BY <1>3
  <2>2. D[q] = [k \in Of(q) |-> b[k]] /\ x \in Of(q) /\ DOMAIN D[q] = Of(q)
    BY <1>3, <2>1
  <2>3. Of(q) \subseteq DOMAIN b /\ IsFiniteSet(Of(q))
    <3>1. Of(q) \in SUBSET (DOMAIN b)
      OBVIOUS
    <3> HIDE DEF Of
    <3> QED BY <1>2, <3>1, FS_Subset
  <2>4. \A k \in Of(q) : k \in DOMAIN b /\ Down(b, p, k) = q
    OBVIOUS
  <2> HIDE DEF Of
  <2>5. D[q] \in Mapping
    <3>1. D[q] = [k \in DOMAIN D[q] |-> D[q][k]] /\ \A k \in DOMAIN D[q] : D[q][k] \in Val
      BY <1>2, <2>2, <2>3
    <3> QED BY <1>2, <2>2, <2>3, <3>1, MappingIs
  <2>6. \A k \in Of(q) : q = Upto(k, Len(q)) /\ Deep(b, p, k) = Len(q)
    BY <1>4, <2>4
  <2>7. Of(q) = Beside(b, x, Deep(b, p, x))
    <3>1. ASSUME NEW k \in Of(q) PROVE k \in Beside(b, x, Deep(b, p, x))
      BY <2>2, <2>3, <2>6 DEF Beside
    <3>2. ASSUME NEW k \in Beside(b, x, Deep(b, p, x)) PROVE k \in Of(q)
      <4>1. k \in DOMAIN b /\ Upto(k, Deep(b, p, x)) = Upto(x, Deep(b, p, x))
        BY DEF Beside
      <4>2. Deep(b, p, k) = Deep(b, p, x)
        BY <4>1, DeepIs
      <4> QED BY <2>1, <4>1, <4>2 DEF Of, Down
    <3> QED BY <3>1, <3>2
  <2>8. Cardinality(Of(q)) > BucketSize => \A k, y \in Of(q) : Hash[k] = Hash[y]
    <3> SUFFICES ASSUME Cardinality(Of(q)) > BucketSize, NEW k \in Of(q), NEW y \in Of(q)
                 PROVE  Hash[k] = Hash[y]
      OBVIOUS
    <3>1. Cardinality(Of(q)) \in Nat
      BY <2>3, FS_CardinalityType
    <3>2. Deep(b, p, x) \in Far(b, p, x)
      BY DeepIs
    <3>3. Deep(b, p, x) = MaxDepth
      BY <1>2, <2>7, <3>1, <3>2 DEF Far
    <3>4. Upto(k, MaxDepth) = Upto(y, MaxDepth) /\ k \in Key /\ y \in Key
      BY <1>2, <2>2, <2>3, <2>6, <3>3
    <3> QED BY <3>4, WholeWay
  <2>9. BucketOK(q, D[q])
    BY <2>2, <2>6, <2>8 DEF BucketOK
  <2> QED BY <2>5, <2>9
<1>7. TrieOK(D)
  <2>1. DOMAIN D \subseteq Place
    BY <1>3, <1>4
  <2>2. D \in Trie
    BY <1>3, <1>6, <2>1, TrieIs
  <2>3. \A q \in DOMAIN D : Free(D, q)
    BY <1>5 DEF Free
  <2> QED BY <1>6, <2>2, <2>3 DEF TrieOK
<1>8. \A q \in DOMAIN D : IsPrefix(p, q)
  BY <1>3, <1>4
<1>9. ASSUME NEW k, NEW v PROVE Shows(D, k, v) <=> k \in DOMAIN b /\ b[k] = v
  <2>1. \A q \in DOMAIN D : /\ DOMAIN D[q] = Of(q) /\ \A x \in Of(q) : D[q][x] = b[x]
    <3> TAKE q \in DOMAIN D
    <3>1. D[q] = [x \in Of(q) |-> b[x]]
      BY <1>3
    <3> HIDE DEF Of
    <3> QED BY <3>1
  <2>2. ASSUME Shows(D, k, v) PROVE k \in DOMAIN b /\ b[k] = v
    <3>1. PICK q \in DOMAIN D : k \in DOMAIN D[q] /\ D[q][k] = v
      BY <2>2 DEF Shows
    <3>2. k \in Of(q)
      BY <2>1, <3>1
    <3>3. k \in DOMAIN b
      BY <3>2
    <3> HIDE DEF Of
    <3> QED BY <2>1, <3>1, <3>2, <3>3
  <2>3. ASSUME k \in DOMAIN b, b[k] = v PROVE Shows(D, k, v)
    <3>1. Down(b, p, k) \in DOMAIN D /\ k \in Of(Down(b, p, k))
      BY <1>3, <2>3
    <3> HIDE DEF Of
    <3> QED BY <2>1, <2>3, <3>1 DEF Shows
  <2> QED BY <2>2, <2>3
<1> QED BY <1>7, <1>8, <1>9 DEF D

----------------------------------------------------------------------------
(* Insertion and deletion                                                  *)

\* A trie is the bucket where a key would be and the others, which do not
\* have the key.
LEMMA Around ==
  ASSUME NEW T, TrieOK(T), NEW k \in Key, NEW p, p = WayOf(T, k), NEW b, b = BucketOf(T, k)
  PROVE  /\ p \in Place /\ p = Upto(k, Len(p)) /\ Free(T, p) /\ b \in Mapping
         /\ Len(p) \in Nat /\ Len(p) <= MaxDepth
         /\ \A x \in DOMAIN b : p = Upto(x, Len(p))
         /\ DOMAIN b # {} => p \in DOMAIN T /\ BucketOK(p, b) /\ b = T[p]
         /\ p \in DOMAIN T => DOMAIN b # {}
         /\ \A w : ~Beyond(T, p, k, w)
         /\ \A x, w : Shows(T, x, w) <=> (x \in DOMAIN b /\ b[x] = w) \/ Beyond(T, p, x, w)
<1>1. p \in Place /\ p = Upto(k, Len(p)) /\ Free(T, p)
  BY WayFree
<1>2. b \in Mapping
  BY Found
<1>3. \A w : ~Beyond(T, p, k, w)
  BY Found DEF Beyond
<1>4. DOMAIN T \subseteq Place /\ \A q \in DOMAIN T : BucketOK(q, T[q])
  BY TrieIs DEF TrieOK
<1>5. MaxDepth \in Nat
  BY LevelAssumption
<1>6. Len(p) \in Nat /\ Len(p) <= MaxDepth
  BY <1>1, <1>5, SomeWay
<1>7. CASE p \in DOMAIN T
  <2>1. b = T[p] /\ BucketOK(p, b) /\ DOMAIN b # {} /\ \A x \in DOMAIN b : p = Upto(x, Len(p))
    BY <1>4, <1>7 DEF BucketOf, BucketOK
  <2>2. \A x, w : Shows(T, x, w) <=> (x \in DOMAIN b /\ b[x] = w) \/ Beyond(T, p, x, w)
    BY <1>7, <2>1 DEF Shows, Beyond
  <2> QED BY <1>1, <1>2, <1>3, <1>6, <1>7, <2>1, <2>2
<1>8. CASE p \notin DOMAIN T
  <2>1. DOMAIN b = {}
    BY <1>8, Nowhere DEF BucketOf
  <2>2. \A x, w : Shows(T, x, w) <=> (x \in DOMAIN b /\ b[x] = w) \/ Beyond(T, p, x, w)
    BY <1>8, <2>1 DEF Shows, Beyond
  <2> QED BY <1>1, <1>2, <1>3, <1>6, <1>8, <2>1, <2>2
<1> QED BY <1>7, <1>8

LEMMA WithMapping ==
  ASSUME NEW m \in Mapping, NEW k \in Key, NEW v \in Val
  PROVE  /\ With(m, k, v) \in Mapping /\ DOMAIN With(m, k, v) = DOMAIN m \cup {k}
         /\ \A x, w : x \in DOMAIN With(m, k, v) /\ With(m, k, v)[x] = w
                        <=> IF x = k THEN w = v ELSE x \in DOMAIN m /\ m[x] = w
         /\ Cardinality(DOMAIN With(m, k, v)) \in Nat /\ Cardinality(DOMAIN m) \in Nat
         /\ Cardinality(DOMAIN With(m, k, v))
              = IF k \in DOMAIN m THEN Cardinality(DOMAIN m) ELSE Cardinality(DOMAIN m) + 1
<1> DEFINE n == With(m, k, v)
<1>1. /\ DOMAIN n = DOMAIN m \cup {k} /\ n = [x \in DOMAIN n |-> n[x]]
      /\ n[k] = v /\ \A x \in DOMAIN m : x # k => n[x] = m[x]
  BY DEF With
<1> HIDE DEF n
<1>2. DOMAIN m \subseteq Key /\ IsFiniteSet(DOMAIN m) /\ \A x \in DOMAIN m : m[x] \in Val
  BY MappingIs
<1>3. /\ IsFiniteSet(DOMAIN n) /\ Cardinality(DOMAIN m) \in Nat /\ Cardinality(DOMAIN n) \in Nat
      /\ Cardinality(DOMAIN n)
           = IF k \in DOMAIN m THEN Cardinality(DOMAIN m) ELSE Cardinality(DOMAIN m) + 1
  BY <1>1, <1>2, FS_AddElement, FS_CardinalityType
<1>4. DOMAIN n \subseteq Key /\ \A x \in DOMAIN n : n[x] \in Val
  BY <1>1, <1>2
<1>5. n \in Mapping
  BY <1>1, <1>3, <1>4, MappingIs
<1>6. \A x, w : x \in DOMAIN n /\ n[x] = w
                  <=> IF x = k THEN w = v ELSE x \in DOMAIN m /\ m[x] = w
  BY <1>1
<1> QED BY <1>1, <1>3, <1>5, <1>6 DEF n

LEMMA WithoutMapping ==
  ASSUME NEW m \in Mapping, NEW k
  PROVE  /\ Without(m, k) \in Mapping /\ DOMAIN Without(m, k) = DOMAIN m \ {k}
         /\ \A x, w : x \in DOMAIN Without(m, k) /\ Without(m, k)[x] = w
                        <=> x # k /\ x \in DOMAIN m /\ m[x] = w
         /\ Cardinality(DOMAIN Without(m, k)) \in Nat /\ Cardinality(DOMAIN m) \in Nat
         /\ Cardinality(DOMAIN Without(m, k))
              = IF k \in DOMAIN m THEN Cardinality(DOMAIN m) - 1 ELSE Cardinality(DOMAIN m)
<1> DEFINE n == Without(m, k)
<1>1. /\ DOMAIN n = DOMAIN m \ {k} /\ n = [x \in DOMAIN n |-> n[x]]
      /\ \A x \in DOMAIN n : n[x] = m[x]
  BY DEF Without
<1> HIDE DEF n
<1>2. DOMAIN m \subseteq Key /\ IsFiniteSet(DOMAIN m) /\ \A x \in DOMAIN m : m[x] \in Val
  BY MappingIs
<1>3. /\ IsFiniteSet(DOMAIN n) /\ Cardinality(DOMAIN m) \in Nat /\ Cardinality(DOMAIN n) \in Nat
      /\ Cardinality(DOMAIN n)
           = IF k \in DOMAIN m THEN Cardinality(DOMAIN m) - 1 ELSE Cardinality(DOMAIN m)
  BY <1>1, <1>2, FS_RemoveElement, FS_CardinalityType
<1>4. DOMAIN n \subseteq Key /\ \A x \in DOMAIN n : n[x] \in Val
  BY <1>1, <1>2
<1>5. n \in Mapping
  BY <1>1, <1>3, <1>4, MappingIs
<1>6. \A x, w : x \in DOMAIN n /\ n[x] = w <=> x # k /\ x \in DOMAIN m /\ m[x] = w
  BY <1>1
<1> QED BY <1>1, <1>3, <1>5, <1>6 DEF n

LEMMA InsertOK ==
  ASSUME NEW T, TrieOK(T), NEW k \in Key, NEW v \in Val
  PROVE  /\ TrieOK(hamtInsert(T, k, v))
         /\ \A x, w : Shows(hamtInsert(T, k, v), x, w)
                        <=> IF x = k THEN w = v ELSE Shows(T, x, w)
<1> DEFINE p == WayOf(T, k)
           b == BucketOf(T, k)
           n == With(b, k, v)
           Fits == \/ k \in DOMAIN b
                   \/ Cardinality(DOMAIN n) <= BucketSize
                   \/ Len(p) >= MaxDepth
           G == hamtInsert(T, k, v)
<1>1. G = IF Fits THEN With(T, p, n) ELSE Over(Dealt(n, p), Without(T, p))
  BY DEF hamtInsert
<1>2. /\ p \in Place /\ p = Upto(k, Len(p)) /\ Free(T, p) /\ b \in Mapping
      /\ Len(p) \in Nat /\ Len(p) <= MaxDepth
      /\ \A x \in DOMAIN b : p = Upto(x, Len(p))
      /\ DOMAIN b # {} => p \in DOMAIN T /\ BucketOK(p, b) /\ b = T[p]
      /\ \A w : ~Beyond(T, p, k, w)
      /\ \A x, w : Shows(T, x, w) <=> (x \in DOMAIN b /\ b[x] = w) \/ Beyond(T, p, x, w)
  BY Around
<1> HIDE DEF p, b, G
<1>3. /\ n \in Mapping /\ DOMAIN n = DOMAIN b \cup {k}
      /\ \A x, w : x \in DOMAIN n /\ n[x] = w
                     <=> IF x = k THEN w = v ELSE x \in DOMAIN b /\ b[x] = w
      /\ Cardinality(DOMAIN n) \in Nat
  BY <1>2, WithMapping
<1> HIDE DEF n
<1>4. MaxDepth \in Nat /\ BucketSize \in Nat
  BY LevelAssumption
<1>5. \A x \in DOMAIN n : p = Upto(x, Len(p)) /\ x \in Key
  BY <1>2, <1>3, MappingIs
<1>6. TrieOK(G) /\ \A x, w : Shows(G, x, w) <=> (x \in DOMAIN n /\ n[x] = w) \/ Beyond(T, p, x, w)
  <2>1. CASE Fits
    <3>1. Cardinality(DOMAIN n) > BucketSize => \A x, y \in DOMAIN n : Hash[x] = Hash[y]
      <4>1. CASE k \in DOMAIN b
        <5>1. DOMAIN n = DOMAIN b /\ BucketOK(p, b)
          BY <1>2, <1>3, <4>1
        <5> QED BY <5>1 DEF BucketOK
      <4>2. CASE Cardinality(DOMAIN n) <= BucketSize
        BY <1>3, <1>4, <4>2
      <4>3. CASE Len(p) >= MaxDepth
        <5>1. Len(p) = MaxDepth
          BY <1>2, <1>4, <4>3
        <5>2. \A x, y \in DOMAIN n : Hash[x] = Hash[y]
          BY <1>5, <5>1, WholeWay
        <5> QED BY <5>2
      <4> QED BY <2>1, <4>1, <4>2, <4>3
    <3>2. BucketOK(p, n)
      BY <1>3, <1>5, <3>1 DEF BucketOK
    <3>3. G = With(T, p, n)
      BY <1>1, <2>1
    <3> QED BY <1>2, <1>3, <3>2, <3>3, SetBucket
  <2>2. CASE ~Fits
    <3> DEFINE D == Dealt(n, p)
               W == Without(T, p)
    <3>1. Len(p) < MaxDepth
      BY <1>2, <1>4, <2>2
    <3>2. /\ TrieOK(D) /\ \A q \in DOMAIN D : IsPrefix(p, q)
          /\ \A x, w : Shows(D, x, w) <=> x \in DOMAIN n /\ n[x] = w
      BY <1>2, <1>3, <1>5, <3>1, DealtOK
    <3>3. DOMAIN W = DOMAIN T \ {p} /\ \A q \in DOMAIN T \ {p} : W[q] = T[q]
      BY DEF Without
    <3>4. G = Over(D, W)
      BY <1>1, <2>2
    <3> HIDE DEF D, W
    <3>5. /\ DOMAIN G = DOMAIN D \cup (DOMAIN T \ {p}) /\ G = [q \in DOMAIN G |-> G[q]]
          /\ \A q \in DOMAIN D : G[q] = D[q]
          /\ \A q \in DOMAIN T \ {p} : q \notin DOMAIN D => G[q] = T[q]
      BY <3>3, <3>4 DEF Over
    <3>6. TrieOK(G) /\ \A x, w : Shows(G, x, w) <=> Shows(D, x, w) \/ Beyond(T, p, x, w)
      BY <1>2, <3>2, <3>5, Graft
    <3> QED BY <3>2, <3>6
  <2> QED BY <2>1, <2>2
<1>7. \A x, w : Shows(G, x, w) <=> IF x = k THEN w = v ELSE Shows(T, x, w)
  BY <1>2, <1>3, <1>6
<1> QED BY <1>6, <1>7 DEF G

\* A branch that has one bucket left, one below it, becomes that bucket.
LEMMA CollapsedOK ==
  ASSUME NEW T, TrieOK(T), NEW p \in Place, Under(T, p) # {}
  PROVE  /\ TrieOK(Collapsed(T, p))
         /\ \A x, w : Shows(Collapsed(T, p), x, w) <=> Shows(T, x, w)
<1> DEFINE q == CHOOSE x \in Under(T, p) : TRUE
           G == Collapsed(T, p)
<1>1. q \in Under(T, p)
  OBVIOUS
<1>2. G = IF Under(T, p) = {q} /\ Len(q) = Len(p) + 1
          THEN With(Without(T, q), p, T[q]) ELSE T
  BY DEF Collapsed
<1> HIDE DEF q, G
<1>3. CASE ~(Under(T, p) = {q} /\ Len(q) = Len(p) + 1)
  <2>1. G = T
    BY <1>2, <1>3
  <2> QED BY <2>1 DEF G
<1>4. CASE Under(T, p) = {q} /\ Len(q) = Len(p) + 1
  <2> DEFINE W == Without(T, q)
  <2>1. q \in DOMAIN T /\ IsPrefix(p, q) /\ q \in Place /\ BucketOK(q, T[q]) /\ T[q] \in Mapping
    <3>1. q \in DOMAIN T /\ IsPrefix(p, q)
      BY <1>1 DEF Under
    <3> QED BY <3>1, TrieIs DEF TrieOK
  <2>2. /\ TrieOK(W) /\ DOMAIN W = DOMAIN T \ {q}
        /\ \A k, v : Shows(W, k, v) <=> Beyond(T, q, k, v)
    BY DropBucket
  <2>3. G = With(W, p, T[q])
    BY <1>2, <1>4
  <2> HIDE DEF W
  <2>4. Free(W, p)
    <3> SUFFICES ASSUME NEW r \in DOMAIN W, IsPrefix(p, r) \/ IsPrefix(r, p) PROVE FALSE
      BY DEF Free
    <3>1. r \in DOMAIN T /\ r # q /\ r \in Place /\ Free(T, q)
      BY <2>1, <2>2, TrieIs DEF TrieOK
    <3>2. ~IsPrefix(p, r)
      BY <1>4, <3>1 DEF Under
    <3>3. IsPrefix(r, q)
      BY <2>1, <3>1, <3>2, Between
    <3> QED BY <3>1, <3>3 DEF Free
  <2>5. BucketOK(p, T[q])
    <3>1. ASSUME NEW k \in DOMAIN T[q] PROVE p = Upto(k, Len(p))
      <4>1. k \in Key /\ q = Upto(k, Len(q))
        BY <2>1, MappingIs DEF BucketOK
      <4> QED BY <2>1, <4>1, OnWay
    <3> QED BY <2>1, <3>1 DEF BucketOK
  <2>6. TrieOK(G) /\ \A k, v : Shows(G, k, v)
                       <=> (k \in DOMAIN T[q] /\ T[q][k] = v) \/ Beyond(W, p, k, v)
    BY <2>1, <2>2, <2>3, <2>4, <2>5, SetBucket
  <2>7. p \notin DOMAIN W
    <3>1. ASSUME p \in DOMAIN W PROVE FALSE
      <4>1. p \in DOMAIN T /\ p # q /\ IsPrefix(p, p)
        BY <2>2, <3>1, Between
      <4> QED BY <1>4, <4>1 DEF Under
    <3> QED BY <3>1
  <2>8. \A k, v : Beyond(W, p, k, v) <=> Shows(W, k, v)
    BY <2>7 DEF Beyond, Shows
  <2>9. \A k, v : Shows(T, k, v) <=> (k \in DOMAIN T[q] /\ T[q][k] = v) \/ Beyond(T, q, k, v)
    BY <2>1 DEF Shows, Beyond
  <2>10. \A k, v : Shows(G, k, v) <=> Shows(T, k, v)
    BY <2>2, <2>6, <2>8, <2>9
  <2> QED BY <2>6, <2>10 DEF G
<1> QED BY <1>3, <1>4

LEMMA DeleteOK ==
  ASSUME NEW T, TrieOK(T), NEW k \in Key
  PROVE  /\ TrieOK(hamtDelete(T, k))
         /\ \A x, w : Shows(hamtDelete(T, k), x, w) <=> x # k /\ Shows(T, x, w)
<1> DEFINE p == WayOf(T, k)
           b == BucketOf(T, k)
           n == Without(T[p], k)
           rest == Without(T, p)
           above == {i \in 0 .. (Len(p) - 1) : Under(rest, Upto(k, i)) # {}}
           G == hamtDelete(T, k)
<1>1. G = IF k \notin DOMAIN b THEN T
          ELSE IF n # <<>> THEN With(T, p, n)
          ELSE IF above = {} THEN rest
          ELSE Collapsed(rest, Upto(k, Max(above)))
  BY DEF hamtDelete
<1>2. /\ p \in Place /\ p = Upto(k, Len(p)) /\ Free(T, p) /\ b \in Mapping
      /\ Len(p) \in Nat /\ Len(p) <= MaxDepth
      /\ DOMAIN b # {} => p \in DOMAIN T /\ BucketOK(p, b) /\ b = T[p]
      /\ \A w : ~Beyond(T, p, k, w)
      /\ \A x, w : Shows(T, x, w) <=> (x \in DOMAIN b /\ b[x] = w) \/ Beyond(T, p, x, w)
  BY Around
<1>3. TrieOK(rest) /\ \A x, w : Shows(rest, x, w) <=> Beyond(T, p, x, w)
  BY DropBucket
<1> HIDE DEF p, b, rest, G
<1>4. CASE k \notin DOMAIN b
  <2>1. G = T
    BY <1>1, <1>4
  <2>2. \A x, w : Shows(T, x, w) => x # k
    BY <1>2, <1>4
  <2>3. \A x, w : Shows(G, x, w) <=> x # k /\ Shows(T, x, w)
    BY <2>1, <2>2
  <2> QED BY <2>1, <2>3 DEF G
<1>5. CASE k \in DOMAIN b
  <2>1. p \in DOMAIN T /\ BucketOK(p, b) /\ b = T[p]
    BY <1>2, <1>5
  <2>2. /\ n \in Mapping /\ DOMAIN n = DOMAIN b \ {k}
        /\ \A x, w : x \in DOMAIN n /\ n[x] = w <=> x # k /\ x \in DOMAIN b /\ b[x] = w
        /\ Cardinality(DOMAIN n) \in Nat /\ Cardinality(DOMAIN b) \in Nat
        /\ Cardinality(DOMAIN n) = Cardinality(DOMAIN b) - 1
    <3>1. n = Without(b, k)
      BY <2>1
    <3>2. b \in Mapping
      BY <1>2
    <3> HIDE DEF n
    <3>3. /\ Without(b, k) \in Mapping /\ DOMAIN Without(b, k) = DOMAIN b \ {k}
          /\ \A x, w : x \in DOMAIN Without(b, k) /\ Without(b, k)[x] = w
                         <=> x # k /\ x \in DOMAIN b /\ b[x] = w
          /\ Cardinality(DOMAIN Without(b, k)) \in Nat /\ Cardinality(DOMAIN b) \in Nat
          /\ Cardinality(DOMAIN Without(b, k))
               = IF k \in DOMAIN b THEN Cardinality(DOMAIN b) - 1 ELSE Cardinality(DOMAIN b)
      BY <3>2, WithoutMapping
    <3> QED BY <1>5, <3>1, <3>3
  <2>3. G = IF n # <<>> THEN With(T, p, n)
            ELSE IF above = {} THEN rest ELSE Collapsed(rest, Upto(k, Max(above)))
    BY <1>1, <1>5
  <2> HIDE DEF n
  <2>4. \A x, w : Beyond(T, p, x, w) => x # k
    BY <1>2
  <2>5. n = <<>> <=> DOMAIN n = {}
    BY <2>2, Nowhere, MappingIs
  <2>6. TrieOK(G) /\ \A x, w : Shows(G, x, w) <=> (x \in DOMAIN n /\ n[x] = w) \/ Beyond(T, p, x, w)
    <3>1. CASE n # <<>>
      <4>1. Cardinality(DOMAIN n) > BucketSize => Cardinality(DOMAIN b) > BucketSize
        <5>1. BucketSize \in Nat
          BY LevelAssumption
        <5> QED BY <2>2, <5>1
      <4>2. BucketOK(p, n)
        BY <2>1, <2>2, <2>5, <3>1, <4>1 DEF BucketOK
      <4>3. G = With(T, p, n)
        BY <2>3, <3>1
      <4> QED BY <1>2, <2>2, <4>2, <4>3, SetBucket
    <3>2. CASE n = <<>> /\ above = {}
      <4>1. G = rest
        BY <2>3, <3>2
      <4> QED BY <1>3, <2>5, <3>2, <4>1
    <3>3. CASE n = <<>> /\ above # {}
      <4> DEFINE m == Max(above)
                 up == Upto(k, m)
      <4>1. G = Collapsed(rest, up)
        BY <2>3, <3>3
      <4>2. MaxDepth \in Nat
        BY LevelAssumption
      <4>3. m \in above
        <5>1. above \subseteq 0 .. Len(p)
          BY <1>2
        <5> HIDE DEF above
        <5> QED BY <1>2, <3>3, <5>1, GreatestElement
      <4>4. m \in 0 .. MaxDepth /\ Under(rest, up) # {}
        <5>1. m \in 0 .. (Len(p) - 1) /\ Under(rest, Upto(k, m)) # {}
          BY <4>3
        <5> HIDE DEF m, above
        <5>2. m \in 0 .. MaxDepth
          BY <1>2, <4>2, <5>1
        <5> QED BY <5>1, <5>2
      <4> HIDE DEF m, above
      <4>5. up \in Place
        BY <4>4, Way
      <4> HIDE DEF up
      <4>6. TrieOK(G) /\ \A x, w : Shows(G, x, w) <=> Shows(rest, x, w)
        BY <1>3, <4>1, <4>4, <4>5, CollapsedOK
      <4> QED BY <1>3, <2>5, <3>3, <4>6
    <3> QED BY <3>1, <3>2, <3>3
  <2>7. \A x, w : Shows(G, x, w) <=> x # k /\ Shows(T, x, w)
    BY <1>2, <2>2, <2>4, <2>6
  <2> QED BY <2>6, <2>7 DEF G
<1> QED BY <1>4, <1>5

----------------------------------------------------------------------------
(* Storages                                                                *)

\* The storage st has the pairs of m.
Holds(st, m) ==
  /\ st \in [root : Trie, size : Nat] /\ TrieOK(st.root)
  /\ m \in Mapping /\ st.size = Cardinality(DOMAIN m)
  /\ \A k, v : Shows(st.root, k, v) <=> k \in DOMAIN m /\ m[k] = v

LEMMA EmptyHolds == Holds(EmptyStorage, <<>>) /\ <<>> \in Mapping
<1>1. DOMAIN <<>> = {} /\ <<>> = [k \in DOMAIN <<>> |-> <<>>[k]]
  BY Nowhere
<1>2. <<>> \in Mapping
  BY <1>1, FS_EmptySet, MappingIs
<1>3. <<>> \in Trie
  BY <1>1, TrieIs
<1>4. TrieOK(<<>>) /\ \A k, v : ~Shows(<<>>, k, v)
  BY <1>1, <1>3 DEF TrieOK, Shows
<1>5. Cardinality(DOMAIN <<>>) = 0
  BY <1>1, FS_EmptySet
<1>6. /\ EmptyStorage.root = <<>> /\ EmptyStorage.size = 0
      /\ EmptyStorage \in [root : Trie, size : Nat]
  BY <1>3 DEF EmptyStorage
<1> QED BY <1>1, <1>2, <1>4, <1>5, <1>6 DEF Holds

LEMMA GetHolds ==
  ASSUME NEW st, NEW m, Holds(st, m), NEW k \in Key
  PROVE  /\ k \in DOMAIN get(st, k) <=> k \in DOMAIN m
         /\ k \in DOMAIN m => get(st, k)[k] = m[k]
<1>1. \A v : Shows(st.root, k, v) <=> k \in DOMAIN get(st, k) /\ get(st, k)[k] = v
  BY Found DEF Holds, get
<1>2. \A v : Shows(st.root, k, v) <=> k \in DOMAIN m /\ m[k] = v
  BY DEF Holds
<1> QED BY <1>1, <1>2

LEMMA PutHolds ==
  ASSUME NEW st, NEW m, Holds(st, m), NEW k \in Key, NEW v \in Val
  PROVE  Holds(put(st, k, v), With(m, k, v))
<1>1. /\ TrieOK(st.root) /\ m \in Mapping /\ st.size \in Nat /\ st.size = Cardinality(DOMAIN m)
      /\ \A x, w : Shows(st.root, x, w) <=> x \in DOMAIN m /\ m[x] = w
  BY DEF Holds
<1> DEFINE G == hamtInsert(st.root, k, v)
           n == With(m, k, v)
           s == put(st, k, v)
<1>2. TrieOK(G) /\ \A x, w : Shows(G, x, w) <=> IF x = k THEN w = v ELSE Shows(st.root, x, w)
  BY <1>1, InsertOK
<1>3. /\ n \in Mapping
      /\ \A x, w : x \in DOMAIN n /\ n[x] = w
                     <=> IF x = k THEN w = v ELSE x \in DOMAIN m /\ m[x] = w
      /\ Cardinality(DOMAIN m) \in Nat
      /\ Cardinality(DOMAIN n)
           = IF k \in DOMAIN m THEN Cardinality(DOMAIN m) ELSE Cardinality(DOMAIN m) + 1
  BY <1>1, WithMapping
<1>4. s = [root |-> G, size |-> IF k \in DOMAIN get(st, k) THEN st.size ELSE st.size + 1]
  BY DEF put
<1>5. k \in DOMAIN get(st, k) <=> k \in DOMAIN m
  BY GetHolds
<1> HIDE DEF G, n, s
<1>6. G \in Trie
  BY <1>2 DEF TrieOK
<1>7. s \in [root : Trie, size : Nat] /\ s.root = G /\ s.size = Cardinality(DOMAIN n)
  BY <1>1, <1>3, <1>4, <1>5, <1>6
<1>8. \A x, w : Shows(G, x, w) <=> x \in DOMAIN n /\ n[x] = w
  BY <1>1, <1>2, <1>3
<1>9. Holds(s, n)
  BY <1>2, <1>3, <1>7, <1>8 DEF Holds
<1> QED BY <1>9 DEF s, n

LEMMA DelHolds ==
  ASSUME NEW st, NEW m, Holds(st, m), NEW k \in Key
  PROVE  Holds(del(st, k), Without(m, k))
<1>1. /\ TrieOK(st.root) /\ m \in Mapping /\ st.size \in Nat /\ st.size = Cardinality(DOMAIN m)
      /\ \A x, w : Shows(st.root, x, w) <=> x \in DOMAIN m /\ m[x] = w
  BY DEF Holds
<1> DEFINE G == hamtDelete(st.root, k)
           n == Without(m, k)
           s == del(st, k)
<1>2. TrieOK(G) /\ \A x, w : Shows(G, x, w) <=> x # k /\ Shows(st.root, x, w)
  BY <1>1, DeleteOK
<1>3. /\ n \in Mapping
      /\ \A x, w : x \in DOMAIN n /\ n[x] = w <=> x # k /\ x \in DOMAIN m /\ m[x] = w
      /\ Cardinality(DOMAIN n) \in Nat
      /\ Cardinality(DOMAIN n)
           = IF k \in DOMAIN m THEN Cardinality(DOMAIN m) - 1 ELSE Cardinality(DOMAIN m)
  BY <1>1, WithoutMapping
<1>4. s = [root |-> G, size |-> IF k \in DOMAIN get(st, k) THEN st.size - 1 ELSE st.size]
  BY DEF del
<1>5. k \in DOMAIN get(st, k) <=> k \in DOMAIN m
  BY GetHolds
<1> HIDE DEF G, n, s
<1>6. G \in Trie
  BY <1>2 DEF TrieOK
<1>7. s \in [root : Trie, size : Nat] /\ s.root = G /\ s.size = Cardinality(DOMAIN n)
  BY <1>1, <1>3, <1>4, <1>5, <1>6
<1>8. \A x, w : Shows(G, x, w) <=> x \in DOMAIN n /\ n[x] = w
  BY <1>1, <1>2, <1>3
<1>9. Holds(s, n)
  BY <1>2, <1>3, <1>7, <1>8 DEF Holds
<1> QED BY <1>9 DEF s, n

\* What is walked over is what is held.
LEMMA ListHolds ==
  ASSUME NEW st, NEW m, Holds(st, m)
  PROVE  Listed(st) = m /\ Cardinality(forEach(st)) = st.size
<1>1. /\ TrieOK(st.root) /\ m \in Mapping /\ st.size = Cardinality(DOMAIN m)
      /\ \A x, w : Shows(st.root, x, w) <=> x \in DOMAIN m /\ m[x] = w
  BY DEF Holds
<1> DEFINE all == forEach(st)
<1>2. all = {<<k, m[k]>> : k \in DOMAIN m}
  <2>1. ASSUME NEW e \in all PROVE e \in {<<k, m[k]>> : k \in DOMAIN m}
    <3>1. PICK p \in DOMAIN st.root : e \in {<<k, st.root[p][k]>> : k \in DOMAIN st.root[p]}
      BY DEF forEach
    <3>2. PICK k \in DOMAIN st.root[p] : e = <<k, st.root[p][k]>>
      BY <3>1
    <3>3. Shows(st.root, k, st.root[p][k])
      BY <3>2 DEF Shows
    <3> QED BY <1>1, <3>2, <3>3
  <2>2. ASSUME NEW k \in DOMAIN m PROVE <<k, m[k]>> \in all
    <3>1. Shows(st.root, k, m[k])
      BY <1>1
    <3>2. PICK p \in DOMAIN st.root : k \in DOMAIN st.root[p] /\ st.root[p][k] = m[k]
      BY <3>1 DEF Shows
    <3> QED BY <3>2 DEF forEach
  <2> QED BY <2>1, <2>2
<1> HIDE DEF all
<1>3. {e[1] : e \in all} = DOMAIN m
  <2>1. \A k \in DOMAIN m : <<k, m[k]>> \in all /\ <<k, m[k]>>[1] = k
    BY <1>2
  <2>2. \A e \in all : e[1] \in DOMAIN m
    BY <1>2
  <2> QED BY <2>1, <2>2
<1>4. ASSUME NEW k \in DOMAIN m PROVE (CHOOSE e \in all : e[1] = k)[2] = m[k]
  <2>1. <<k, m[k]>> \in all /\ <<k, m[k]>>[1] = k
    BY <1>2
  <2>2. \A e \in all : e[1] = k => e[2] = m[k]
    BY <1>2
  <2> QED BY <2>1, <2>2
<1>5. Listed(st) = [k \in DOMAIN m |-> m[k]]
  <2>1. Listed(st) = [k \in {e[1] : e \in all} |-> (CHOOSE e \in all : e[1] = k)[2]]
    BY DEF Listed, all
  <2> QED BY <1>3, <1>4, <2>1
<1>6. Listed(st) = m
  BY <1>1, <1>5, MappingIs
<1>7. IsFiniteSet(DOMAIN m)
  BY <1>1, MappingIs
<1>8. ExistsBijection(DOMAIN m, all)
  <2> DEFINE f == [k \in DOMAIN m |-> <<k, m[k]>>]
  <2>1. f \in [DOMAIN m -> all]
    BY <1>2
  <2>2. \A k, x \in DOMAIN m : f[k] = f[x] => k = x
    OBVIOUS
  <2>3. \A e \in all : \E k \in DOMAIN m : f[k] = e
    BY <1>2
  <2> HIDE DEF f
  <2>4. f \in Bijection(DOMAIN m, all)
    BY <2>1, <2>2, <2>3 DEF Bijection, Injection, Surjection, IsInjective
  <2> QED BY <2>4 DEF ExistsBijection
<1>9. Cardinality(all) = Cardinality(DOMAIN m)
  BY <1>7, <1>8, FS_Bijection
<1> QED BY <1>1, <1>6, <1>9 DEF all

----------------------------------------------------------------------------
(* The objects and the tasks                                               *)

Storage == {st \in [root : Trie, size : Nat] : \E m : Holds(st, m)}
Obj == [pairs : {<<>>} \cup {<<m>> : m \in Mapping},
        storage : {<<>>} \cup {<<st>> : st \in Storage},
        torn : BOOLEAN]
Going == [pc : {"convert", "fill", "store", "clear", "return"},
          o : Object, st : Storage, left : Mapping]

ObjsOK(os) == /\ DOMAIN os \subseteq Object /\ os = [o \in DOMAIN os |-> os[o]]
              /\ \A o \in DOMAIN os : os[o] \in Obj
Reached(a, os) ==
  a \in Going => /\ a.o \in DOMAIN os
                 /\ a.pc \in {"clear", "return"} => os[a.o].storage # <<>>

\* Every storage, shared or still being filled, is a sound one.
TypeInv == /\ ObjsOK(objs)
           /\ at \in [Task -> {Idle, Crashed} \cup Going]
           /\ \A t \in Task : Reached(at[t], objs)

LEMMA StorageIs ==
  /\ \A st \in Storage : Holds(st, Listed(st))
  /\ \A st, m : Holds(st, m) => st \in Storage
<1>1. ASSUME NEW st \in Storage PROVE Holds(st, Listed(st))
  <2>1. PICK m : Holds(st, m)
    BY DEF Storage
  <2> QED BY <2>1, ListHolds
<1>2. ASSUME NEW st, NEW m, Holds(st, m) PROVE st \in Storage
  <2>1. st \in [root : Trie, size : Nat]
    BY <1>2 DEF Holds
  <2> QED BY <1>2, <2>1 DEF Storage
<1> QED BY <1>1, <1>2

LEMMA LiteralMapping ==
  ASSUME NEW m \in Literals
  PROVE  m \in Mapping
<1>1. DOMAIN m \subseteq Key /\ IsFiniteSet(DOMAIN m) /\ m \in [DOMAIN m -> Val]
  BY LiteralsAssumption
<1> QED BY <1>1 DEF Mapping

LEMMA ObjIs ==
  ASSUME NEW m \in Obj
  PROVE  /\ m.storage # <<>> => m.storage[1] \in Storage /\ m.storage = <<m.storage[1]>>
         /\ m.pairs # <<>> => m.pairs[1] \in Mapping /\ m.pairs = <<m.pairs[1]>>
         /\ m.torn \in BOOLEAN
<1>1. /\ m.pairs \in {<<>>} \cup {<<n>> : n \in Mapping}
      /\ m.storage \in {<<>>} \cup {<<st>> : st \in Storage}
      /\ m.torn \in BOOLEAN
  BY DEF Obj
<1>2. ASSUME m.storage # <<>> PROVE m.storage[1] \in Storage /\ m.storage = <<m.storage[1]>>
  <2>1. PICK st \in Storage : m.storage = <<st>>
    BY <1>1, <1>2
  <2> QED BY <2>1
<1>3. ASSUME m.pairs # <<>> PROVE m.pairs[1] \in Mapping /\ m.pairs = <<m.pairs[1]>>
  <2>1. PICK n \in Mapping : m.pairs = <<n>>
    BY <1>1, <1>3
  <2> QED BY <2>1
<1> QED BY <1>1, <1>2, <1>3

LEMMA StoredIs ==
  ASSUME NEW st \in Storage
  PROVE  /\ Stored(st) \in Obj /\ Stored(st).storage # <<>> /\ Stored(st).storage[1] = st
         /\ Stored(st).torn = FALSE
<1>1. Stored(st).storage = <<st>> /\ <<st>> # <<>> /\ Stored(st).torn = FALSE
  BY DEF Stored
<1>2. Stored(st) \in Obj
  BY DEF Stored, Obj
<1> QED BY <1>1, <1>2

\* What an object has: the pairs of its storage, or of its literal.
LEMMA ContentIs ==
  ASSUME NEW m \in Obj
  PROVE  /\ Content(m) \in Mapping
         /\ m.storage # <<>> => /\ Content(m) = Listed(m.storage[1])
                                /\ Holds(m.storage[1], Content(m))
         /\ m.storage = <<>> =>
              Content(m) = IF m.pairs = <<>> THEN <<>> ELSE m.pairs[1]
<1>1. CASE m.storage # <<>>
  <2>1. Content(m) = Listed(m.storage[1])
    BY <1>1 DEF Content
  <2>2. Holds(m.storage[1], Content(m))
    BY <1>1, <2>1, ObjIs, StorageIs
  <2> QED BY <1>1, <2>1, <2>2 DEF Holds
<1>2. CASE m.storage = <<>>
  <2>1. Content(m) = IF m.pairs = <<>> THEN <<>> ELSE m.pairs[1]
    BY <1>2 DEF Content
  <2> QED BY <1>2, <2>1, ObjIs, EmptyHolds
<1> QED BY <1>1, <1>2

LEMMA CreateIs ==
  ASSUME ObjsOK(objs), NEW o \in Object, NEW m \in Obj, Create(o, m)
  PROVE  /\ ObjsOK(objs') /\ DOMAIN objs' = DOMAIN objs \cup {o} /\ o \notin DOMAIN objs
         /\ objs'[o] = m /\ \A x \in DOMAIN objs : objs'[x] = objs[x]
<1>1. o \notin DOMAIN objs /\ objs' = With(objs, o, m)
  BY DEF Create
<1> DEFINE os == With(objs, o, m)
<1>2. /\ DOMAIN os = DOMAIN objs \cup {o} /\ os = [x \in DOMAIN os |-> os[x]]
      /\ os[o] = m /\ \A x \in DOMAIN objs : x # o => os[x] = objs[x]
  BY DEF With
<1> HIDE DEF os
<1>3. /\ DOMAIN os \subseteq Object /\ \A x \in DOMAIN os : os[x] \in Obj
  BY <1>1, <1>2 DEF ObjsOK
<1>4. ObjsOK(os)
  BY <1>2, <1>3 DEF ObjsOK
<1>5. objs' = os
  BY <1>1 DEF os
<1> QED BY <1>1, <1>2, <1>4, <1>5

\* What a task does with the storage it has.
LEMMA ApplyIs ==
  ASSUME ObjsOK(objs), NEW t \in Task, NEW st \in Storage, NEW c \in Calls, Apply(t, st, c)
  PROVE  \/ /\ objs' = objs
            /\ \/ \E k \in Key : answer' = <<t, IF k \in DOMAIN Listed(st) THEN Listed(st)[k]
                                                ELSE Nothing>>
               \/ answer' = <<t, Cardinality(DOMAIN Listed(st))>>
         \/ /\ answer' = answer
            /\ \E d \in Object, s \in Storage :
                 /\ Create(d, Stored(s))
                 /\ \/ \E k \in Key, v \in Val : Holds(s, With(Listed(st), k, v))
                    \/ \E k \in Key : Holds(s, Without(Listed(st), k))
<1> DEFINE m == Listed(st)
<1>1. Holds(st, m)
  BY StorageIs
<1> HIDE DEF m
<1>2. CASE c.op = "get" /\ GetPair(t, st, c)
  <2>1. c.key \in Key
    BY <1>2 DEF Calls
  <2>2. objs' = objs /\ answer' = <<t, IF c.key \in DOMAIN get(st, c.key) THEN get(st, c.key)[c.key]
                                       ELSE Nothing>>
    BY <1>2 DEF GetPair, Answer
  <2>3. /\ c.key \in DOMAIN get(st, c.key) <=> c.key \in DOMAIN m
        /\ c.key \in DOMAIN m => get(st, c.key)[c.key] = m[c.key]
    BY <1>1, <2>1, GetHolds
  <2>4. answer' = <<t, IF c.key \in DOMAIN m THEN m[c.key] ELSE Nothing>>
    BY <2>2, <2>3
  <2> QED BY <2>1, <2>2, <2>4 DEF m
<1>3. CASE c.op = "len" /\ Length(t, st)
  <2>1. objs' = objs /\ answer' = <<t, st.size>>
    BY <1>3 DEF Length, Answer
  <2>2. st.size = Cardinality(DOMAIN m)
    BY <1>1 DEF Holds
  <2> QED BY <2>1, <2>2 DEF m
<1>4. CASE c.op = "put" /\ PutPair(st, c)
  <2>1. c.key \in Key /\ c.val \in Val
    BY <1>4 DEF Calls
  <2>2. PICK d \in Object : Create(d, Stored(put(st, c.key, c.val))) /\ answer' = answer
    BY <1>4 DEF PutPair
  <2>3. Holds(put(st, c.key, c.val), With(m, c.key, c.val))
    BY <1>1, <2>1, PutHolds
  <2>4. put(st, c.key, c.val) \in Storage
    BY <2>3, StorageIs
  <2> QED BY <2>1, <2>2, <2>3, <2>4 DEF m
<1>5. CASE c.op = "remove" /\ DeleteKey(st, c)
  <2>1. c.key \in Key
    BY <1>5 DEF Calls
  <2>2. PICK d \in Object : Create(d, Stored(del(st, c.key))) /\ answer' = answer
    BY <1>5 DEF DeleteKey
  <2>3. Holds(del(st, c.key), Without(m, c.key))
    BY <1>1, <2>1, DelHolds
  <2>4. del(st, c.key) \in Storage
    BY <2>3, StorageIs
  <2> QED BY <2>1, <2>2, <2>3, <2>4 DEF m
<1> QED BY <1>2, <1>3, <1>4, <1>5 DEF Apply

----------------------------------------------------------------------------
(* The steps of a first use                                                *)

\* A task that is going comes to pc with the storage s and the pairs w left.
Moves(t, pc, s, w) ==
  /\ at[t] \in Going /\ at' = [at EXCEPT ![t] = [pc |-> pc, o |-> at[t].o, st |-> s, left |-> w]]
  /\ at'[t] = [pc |-> pc, o |-> at[t].o, st |-> s, left |-> w] /\ at'[t] \in Going
  /\ at' \in [Task -> {Idle, Crashed} \cup Going] /\ \A u \in Task : u # t => at'[u] = at[u]

LEMMA AtIs ==
  ASSUME TypeInv, NEW t \in Task
  PROVE  /\ at[t].pc \in {"convert", "fill", "store", "clear", "return"} <=> at[t] \in Going
         /\ at[t].pc \in {"idle", "crashed"} <=> at[t] \in {Idle, Crashed}
         /\ at[t] \in {Idle, Crashed} \cup Going /\ Idle # Crashed
         /\ Idle \notin Going /\ Crashed \notin Going
         /\ at[t] \in Going => /\ at[t].o \in Object /\ at[t].o \in DOMAIN objs
                               /\ at[t].st \in Storage /\ at[t].left \in Mapping
                               /\ objs[at[t].o] \in Obj
<1>1. at[t] \in {Idle, Crashed} \cup Going
  BY DEF TypeInv
<1>2. Idle.pc = "idle" /\ Crashed.pc = "crashed"
  BY DEF Idle, Crashed
<1>3. \A a \in Going : /\ a.pc \in {"convert", "fill", "store", "clear", "return"}
                       /\ a.o \in Object /\ a.st \in Storage /\ a.left \in Mapping
  BY DEF Going
<1>4. at[t] \in Going => at[t].o \in DOMAIN objs /\ objs[at[t].o] \in Obj
  BY DEF TypeInv, Reached, ObjsOK
<1>5. Idle # Crashed /\ Idle \notin Going /\ Crashed \notin Going
  BY <1>2, <1>3
<1> QED BY <1>1, <1>2, <1>3, <1>4, <1>5

LEMMA Moved ==
  ASSUME TypeInv, NEW t \in Task, at[t] \in Going,
         NEW pc \in {"convert", "fill", "store", "clear", "return"},
         NEW s \in Storage, NEW w \in Mapping,
         at' = [at EXCEPT ![t] = [pc |-> pc, o |-> at[t].o, st |-> s, left |-> w]]
  PROVE  Moves(t, pc, s, w)
<1> DEFINE n == [pc |-> pc, o |-> at[t].o, st |-> s, left |-> w]
<1>1. n \in Going
  BY AtIs DEF Going
<1> HIDE DEF n
<1>2. at \in [Task -> {Idle, Crashed} \cup Going] /\ at' = [at EXCEPT ![t] = n]
  BY DEF TypeInv, n
<1>3. /\ at'[t] = n /\ at' \in [Task -> {Idle, Crashed} \cup Going]
      /\ \A u \in Task : u # t => at'[u] = at[u]
  BY <1>1, <1>2
<1> QED BY <1>1, <1>2, <1>3 DEF Moves, n

\* A task that is going is its four fields.
LEMMA GoingIs ==
  ASSUME NEW a \in Going
  PROVE  a = [pc |-> a.pc, o |-> a.o, st |-> a.st, left |-> a.left]
BY DEF Going

LEMMA ConvertIs ==
  ASSUME TypeInv, NEW t \in Task, Convert(t)
  PROVE  /\ at[t] \in Going /\ at[t].pc = "convert" /\ UNCHANGED <<objs, answer>>
         /\ Moves(t, "fill", at[t].st,
                  IF objs[at[t].o].pairs = <<>> THEN <<>> ELSE objs[at[t].o].pairs[1])
<1> DEFINE w == IF objs[at[t].o].pairs = <<>> THEN <<>> ELSE objs[at[t].o].pairs[1]
<1>1. at[t] \in Going /\ at[t].pc = "convert" /\ UNCHANGED <<objs, answer>>
  BY AtIs DEF Convert
<1>2. w \in Mapping /\ at[t].st \in Storage
  BY <1>1, AtIs, ObjIs, EmptyHolds
<1>3. at' = [at EXCEPT ![t].pc = "fill", ![t].left = w]
  BY DEF Convert
<1> HIDE DEF w
<1>4. at' = [at EXCEPT ![t] = [pc |-> "fill", o |-> at[t].o, st |-> at[t].st, left |-> w]]
  <2> DEFINE r == [at[t] EXCEPT !.pc = "fill"]
  <2>1. at' = [at EXCEPT ![t] = [r EXCEPT !.left = w]]
    BY <1>3 DEF TypeInv
  <2>2. at[t] = [pc |-> at[t].pc, o |-> at[t].o, st |-> at[t].st, left |-> at[t].left]
    BY <1>1, GoingIs
  <2>3. r = [pc |-> "fill", o |-> at[t].o, st |-> at[t].st, left |-> at[t].left]
    BY <2>2
  <2> HIDE DEF r
  <2>4. [r EXCEPT !.left = w] = [pc |-> "fill", o |-> at[t].o, st |-> at[t].st, left |-> w]
    BY <2>3
  <2> QED BY <2>1, <2>4
<1>5. Moves(t, "fill", at[t].st, w)
  BY <1>1, <1>2, <1>4, Moved
<1> QED BY <1>1, <1>5 DEF w

LEMMA FillIs ==
  ASSUME TypeInv, NEW t \in Task, Fill(t)
  PROVE  /\ at[t] \in Going /\ at[t].pc = "fill" /\ UNCHANGED <<objs, answer>>
         /\ \E k \in DOMAIN at[t].left :
              Moves(t, "fill", put(at[t].st, k, at[t].left[k]), Without(at[t].left, k))
<1>1. at[t] \in Going /\ at[t].pc = "fill" /\ UNCHANGED <<objs, answer>>
  BY AtIs DEF Fill
<1>2. PICK k \in DOMAIN at[t].left :
        at' = [at EXCEPT ![t].st = put(at[t].st, k, at[t].left[k]),
                         ![t].left = Without(at[t].left, k)]
  BY DEF Fill
<1> DEFINE s == put(at[t].st, k, at[t].left[k])
           w == Without(at[t].left, k)
<1>3. at[t].left \in Mapping /\ at[t].st \in Storage
  BY <1>1, AtIs
<1>4. k \in Key /\ at[t].left[k] \in Val
  BY <1>3, MappingIs
<1>5. s \in Storage
  BY <1>3, <1>4, PutHolds, StorageIs
<1>6. w \in Mapping
  BY <1>3, WithoutMapping
<1>7. at' = [at EXCEPT ![t].st = s, ![t].left = w]
  BY <1>2
<1> HIDE DEF s, w
<1>8. at' = [at EXCEPT ![t] = [pc |-> "fill", o |-> at[t].o, st |-> s, left |-> w]]
  <2> DEFINE r == [at[t] EXCEPT !.st = s]
  <2>1. at' = [at EXCEPT ![t] = [r EXCEPT !.left = w]]
    BY <1>7 DEF TypeInv
  <2>2. at[t] = [pc |-> "fill", o |-> at[t].o, st |-> at[t].st, left |-> at[t].left]
    BY <1>1, GoingIs
  <2>3. r = [pc |-> "fill", o |-> at[t].o, st |-> s, left |-> at[t].left]
    BY <2>2
  <2> HIDE DEF r
  <2>4. [r EXCEPT !.left = w] = [pc |-> "fill", o |-> at[t].o, st |-> s, left |-> w]
    BY <2>3
  <2> QED BY <2>1, <2>4
<1>9. Moves(t, "fill", s, w)
  BY <1>1, <1>5, <1>6, <1>8, Moved
<1> QED BY <1>1, <1>9 DEF s, w

LEMMA GoesIs ==
  ASSUME TypeInv, NEW t \in Task, at[t] \in Going,
         NEW pc \in {"store", "clear", "return"}, Goes(t, pc)
  PROVE  Moves(t, pc, at[t].st, at[t].left)
<1>1. at[t].st \in Storage /\ at[t].left \in Mapping
  BY AtIs
<1>2. at' = [at EXCEPT ![t].pc = pc]
  BY DEF Goes
<1>3. at' = [at EXCEPT ![t] = [pc |-> pc, o |-> at[t].o, st |-> at[t].st, left |-> at[t].left]]
  <2>1. at' = [at EXCEPT ![t] = [at[t] EXCEPT !.pc = pc]]
    BY <1>2 DEF TypeInv
  <2>2. at[t] = [pc |-> at[t].pc, o |-> at[t].o, st |-> at[t].st, left |-> at[t].left]
    BY GoingIs
  <2>3. [at[t] EXCEPT !.pc = pc]
          = [pc |-> pc, o |-> at[t].o, st |-> at[t].st, left |-> at[t].left]
    BY <2>2
  <2> QED BY <2>1, <2>3
<1> QED BY <1>1, <1>3, Moved

\* One object becomes m.
Swaps(o, m) ==
  /\ o \in DOMAIN objs /\ m \in Obj
  /\ DOMAIN objs' = DOMAIN objs /\ ObjsOK(objs') /\ objs'[o] = m
  /\ \A x \in DOMAIN objs : x # o => objs'[x] = objs[x]

LEMMA Swapped ==
  ASSUME ObjsOK(objs), NEW o \in DOMAIN objs, NEW m \in Obj, objs' = [objs EXCEPT ![o] = m]
  PROVE  Swaps(o, m)
<1> DEFINE os == [objs EXCEPT ![o] = m]
<1>1. /\ DOMAIN objs \subseteq Object /\ objs = [x \in DOMAIN objs |-> objs[x]]
      /\ \A x \in DOMAIN objs : objs[x] \in Obj
  BY DEF ObjsOK
<1>2. /\ DOMAIN os = DOMAIN objs /\ os = [x \in DOMAIN os |-> os[x]] /\ os[o] = m
      /\ \A x \in DOMAIN objs : x # o => os[x] = objs[x]
  BY <1>1
<1> HIDE DEF os
<1>3. ObjsOK(os)
  BY <1>1, <1>2 DEF ObjsOK
<1>4. objs' = os
  BY DEF os
<1> QED BY <1>2, <1>3, <1>4 DEF Swaps

LEMMA TearIs ==
  ASSUME TypeInv, NEW t \in Task, Tear(t)
  PROVE  /\ at[t] \in Going /\ at[t].pc = "fill" /\ at[t].left = <<>> /\ answer' = answer
         /\ Moves(t, "store", at[t].st, at[t].left)
         /\ Swaps(at[t].o, [pairs |-> objs[at[t].o].pairs, storage |-> objs[at[t].o].storage,
                            torn |-> TRUE])
<1> DEFINE o == at[t].o
           m == [pairs |-> objs[o].pairs, storage |-> objs[o].storage, torn |-> TRUE]
<1>1. at[t] \in Going /\ at[t].pc = "fill" /\ at[t].left = <<>> /\ answer' = answer
  BY AtIs DEF Tear
<1>2. Moves(t, "store", at[t].st, at[t].left)
  BY <1>1, GoesIs DEF Tear
<1>3. o \in DOMAIN objs /\ ObjsOK(objs) /\ objs[o] \in Obj /\ objs = [x \in DOMAIN objs |-> objs[x]]
  BY <1>1, AtIs DEF TypeInv, ObjsOK
<1>4. objs' = [objs EXCEPT ![o].torn = TRUE]
  BY DEF Tear
<1> HIDE DEF o
<1>5. m \in Obj
  BY <1>3 DEF Obj
<1>6. objs' = [objs EXCEPT ![o] = m]
  <2>1. objs' = [objs EXCEPT ![o] = [objs[o] EXCEPT !.torn = TRUE]]
    BY <1>3, <1>4
  <2>2. objs[o] = [pairs |-> objs[o].pairs, storage |-> objs[o].storage, torn |-> objs[o].torn]
    BY <1>3 DEF Obj
  <2>3. PICK b : b = TRUE
    OBVIOUS
  <2>4. [objs[o] EXCEPT !.torn = b]
          = [pairs |-> objs[o].pairs, storage |-> objs[o].storage, torn |-> b]
    BY <2>2
  <2> QED BY <2>1, <2>3, <2>4
<1>7. Swaps(o, m)
  BY <1>3, <1>5, <1>6, Swapped
<1> QED BY <1>1, <1>2, <1>7 DEF o

LEMMA StoreIs ==
  ASSUME TypeInv, NEW t \in Task, Store(t)
  PROVE  /\ at[t] \in Going /\ at[t].pc = "store" /\ answer' = answer
         /\ Moves(t, "clear", at[t].st, at[t].left)
         /\ Swaps(at[t].o, [pairs |-> objs[at[t].o].pairs, storage |-> <<at[t].st>>,
                            torn |-> FALSE])
<1> DEFINE o == at[t].o
           st == at[t].st
           m == [pairs |-> objs[o].pairs, storage |-> <<st>>, torn |-> FALSE]
<1>1. at[t] \in Going /\ at[t].pc = "store" /\ answer' = answer
  BY AtIs DEF Store
<1>2. Moves(t, "clear", at[t].st, at[t].left)
  BY <1>1, GoesIs DEF Store
<1>3. /\ o \in DOMAIN objs /\ ObjsOK(objs) /\ objs[o] \in Obj
      /\ objs = [x \in DOMAIN objs |-> objs[x]] /\ st \in Storage
  BY <1>1, AtIs DEF TypeInv, ObjsOK
<1>4. objs' = [objs EXCEPT ![o].storage = <<st>>, ![o].torn = FALSE]
  BY DEF Store
<1> HIDE DEF o, st
<1>5. m \in Obj
  BY <1>3 DEF Obj
<1>6. objs' = [objs EXCEPT ![o] = m]
  <2> DEFINE r == [objs[o] EXCEPT !.storage = <<st>>]
  <2>1. objs' = [objs EXCEPT ![o] = [r EXCEPT !.torn = FALSE]]
    BY <1>3, <1>4
  <2>2. objs[o] = [pairs |-> objs[o].pairs, storage |-> objs[o].storage, torn |-> objs[o].torn]
    BY <1>3 DEF Obj
  <2>3. r = [pairs |-> objs[o].pairs, storage |-> <<st>>, torn |-> objs[o].torn]
    BY <2>2
  <2> HIDE DEF r
  <2>4. PICK b : b = FALSE
    OBVIOUS
  <2>5. [r EXCEPT !.torn = b] = [pairs |-> objs[o].pairs, storage |-> <<st>>, torn |-> b]
    BY <2>3
  <2> QED BY <2>1, <2>4, <2>5
<1>7. Swaps(o, m)
  BY <1>3, <1>5, <1>6, Swapped
<1> QED BY <1>1, <1>2, <1>7 DEF o, st

LEMMA ClearIs ==
  ASSUME TypeInv, NEW t \in Task, Clear(t)
  PROVE  /\ at[t] \in Going /\ at[t].pc = "clear" /\ answer' = answer
         /\ Moves(t, "return", at[t].st, at[t].left)
         /\ Swaps(at[t].o, [pairs |-> <<>>, storage |-> objs[at[t].o].storage,
                            torn |-> objs[at[t].o].torn])
<1> DEFINE o == at[t].o
           m == [pairs |-> <<>>, storage |-> objs[o].storage, torn |-> objs[o].torn]
<1>1. at[t] \in Going /\ at[t].pc = "clear" /\ answer' = answer
  BY AtIs DEF Clear
<1>2. Moves(t, "return", at[t].st, at[t].left)
  BY <1>1, GoesIs DEF Clear
<1>3. o \in DOMAIN objs /\ ObjsOK(objs) /\ objs[o] \in Obj /\ objs = [x \in DOMAIN objs |-> objs[x]]
  BY <1>1, AtIs DEF TypeInv, ObjsOK
<1>4. objs' = [objs EXCEPT ![o].pairs = <<>>]
  BY DEF Clear
<1> HIDE DEF o
<1>5. m \in Obj
  BY <1>3 DEF Obj
<1>6. objs' = [objs EXCEPT ![o] = m]
  <2>1. objs' = [objs EXCEPT ![o] = [objs[o] EXCEPT !.pairs = <<>>]]
    BY <1>3, <1>4
  <2>2. objs[o] = [pairs |-> objs[o].pairs, storage |-> objs[o].storage, torn |-> objs[o].torn]
    BY <1>3 DEF Obj
  <2>3. [objs[o] EXCEPT !.pairs = <<>>] = m
    BY <2>2
  <2> QED BY <2>1, <2>3
<1>7. Swaps(o, m)
  BY <1>3, <1>5, <1>6, Swapped
<1> QED BY <1>1, <1>2, <1>7 DEF o

\* A task is no longer going, or a new one is.
LEMMA ReturnIs ==
  ASSUME TypeInv, NEW t \in Task, Return(t)
  PROVE  /\ at[t] \in Going /\ at[t].pc = "return" /\ objs[at[t].o].storage # <<>>
         /\ objs[at[t].o].storage[1] \in Storage
         /\ \E c \in Calls : Apply(t, objs[at[t].o].storage[1], c)
         /\ at' = [at EXCEPT ![t] = Idle]
<1>1. /\ at[t] \in Going /\ at[t].pc = "return" /\ at' = [at EXCEPT ![t] = Idle]
      /\ \E c \in Calls : Apply(t, objs[at[t].o].storage[1], c)
  BY AtIs DEF Return
<1>2. objs[at[t].o].storage # <<>>
  BY <1>1 DEF TypeInv, Reached
<1>3. objs[at[t].o].storage[1] \in Storage
  BY <1>1, <1>2, AtIs, ObjIs
<1> QED BY <1>1, <1>2, <1>3

LEMMA BeginIs ==
  ASSUME TypeInv, NEW t \in Task, NEW o \in DOMAIN objs, Begin(t, o)
  PROVE  /\ at[t] = Idle /\ objs[o].storage = <<>> /\ UNCHANGED <<objs, answer>>
         /\ Overlap \/ \A u \in Task : at[u] \in Going => at[u].o # o
         /\ \/ at' = [at EXCEPT ![t] = [pc |-> "convert", o |-> o, st |-> EmptyStorage,
                                        left |-> <<>>]]
            \/ at' = [at EXCEPT ![t] = Crashed] /\ objs[o].torn = TRUE
         /\ [pc |-> "convert", o |-> o, st |-> EmptyStorage, left |-> <<>>] \in Going
<1>1. at[t] = Idle /\ objs[o].storage = <<>> /\ UNCHANGED <<objs, answer>>
  BY DEF Begin
<1>2. ASSUME NEW u \in Task, at[u] \in Going, at[u].o = o PROVE o \in InUse
  <2>1. at[u].pc \notin {"idle", "crashed"}
    BY <1>2, AtIs
  <2> QED BY <1>2, <2>1 DEF InUse
<1>3. o \in Object /\ objs[o].torn \in BOOLEAN /\ EmptyStorage \in Storage /\ <<>> \in Mapping
  BY EmptyHolds, StorageIs, ObjIs DEF TypeInv, ObjsOK
<1>4. [pc |-> "convert", o |-> o, st |-> EmptyStorage, left |-> <<>>] \in Going
  BY <1>3 DEF Going
<1>5. \/ at' = [at EXCEPT ![t] = [pc |-> "convert", o |-> o, st |-> EmptyStorage, left |-> <<>>]]
      \/ at' = [at EXCEPT ![t] = Crashed] /\ objs[o].torn = TRUE
  BY <1>3 DEF Begin
<1>6. Overlap \/ o \notin InUse
  BY DEF Begin
<1> QED BY <1>1, <1>2, <1>4, <1>5, <1>6

LEMMA DropIs ==
  ASSUME TypeInv, NEW o \in DOMAIN objs, Drop(o)
  PROVE  /\ UNCHANGED <<at, answer>> /\ ObjsOK(objs') /\ DOMAIN objs' = DOMAIN objs \ {o}
         /\ \A x \in DOMAIN objs' : objs'[x] = objs[x]
         /\ \A u \in Task : at[u] \in Going => at[u].o \in DOMAIN objs'
<1> DEFINE os == [x \in DOMAIN objs \ {o} |-> objs[x]]
<1>1. /\ DOMAIN os = DOMAIN objs \ {o} /\ os = [x \in DOMAIN os |-> os[x]]
      /\ \A x \in DOMAIN os : os[x] = objs[x]
  OBVIOUS
<1>2. objs' = os /\ UNCHANGED <<at, answer>> /\ o \notin InUse
  BY DEF Drop
<1> HIDE DEF os
<1>3. ObjsOK(os)
  BY <1>1 DEF TypeInv, ObjsOK
<1>4. ASSUME NEW u \in Task, at[u] \in Going PROVE at[u].o \in DOMAIN os
  <2>1. at[u].pc \notin {"idle", "crashed"} /\ at[u].o \in DOMAIN objs
    BY <1>4, AtIs
  <2>2. at[u].o \in InUse
    BY <2>1 DEF InUse
  <2> QED BY <1>1, <1>2, <2>1, <2>2
<1> QED BY <1>1, <1>2, <1>3, <1>4

----------------------------------------------------------------------------
(* Every trie is well formed                                               *)

LEMMA TypeInit == Init => TypeInv
<1> SUFFICES ASSUME Init PROVE TypeInv
  OBVIOUS
<1>1. DOMAIN objs = {} /\ objs = [o \in DOMAIN objs |-> objs[o]]
  BY Nowhere DEF Init
<1>2. ObjsOK(objs)
  BY <1>1 DEF ObjsOK
<1>3. at = [t \in Task |-> Idle]
  BY DEF Init
<1>4. Idle \notin Going
  BY DEF Idle, Going
<1>5. at \in [Task -> {Idle, Crashed} \cup Going] /\ \A t \in Task : Reached(at[t], objs)
  BY <1>3, <1>4 DEF Reached
<1> QED BY <1>2, <1>5 DEF TypeInv

\* A task that is not going keeps the invariant as long as the objects do.
LEMMA Rests ==
  ASSUME TypeInv, ObjsOK(objs'), at' \in [Task -> {Idle, Crashed} \cup Going],
         NEW T \in SUBSET Task, \A u \in Task \ T : at'[u] = at[u],
         \A t \in T : Reached(at'[t], objs'),
         \A x \in DOMAIN objs : /\ x \in DOMAIN objs'
                                /\ objs[x].storage # <<>> => objs'[x].storage # <<>>
  PROVE  TypeInv'
<1>1. ASSUME NEW u \in Task PROVE Reached(at'[u], objs')
  <2>1. CASE u \in T
    BY <2>1
  <2>2. CASE u \notin T
    <3>1. at'[u] = at[u] /\ Reached(at[u], objs)
      BY <2>2 DEF TypeInv
    <3> QED BY <3>1 DEF Reached
  <2> QED BY <2>1, <2>2
<1>2. \A t \in Task : Reached(at'[t], objs')
  BY <1>1
<1> QED BY <1>2 DEF TypeInv

\* The objects after a task has used a storage.
LEMMA Applied ==
  ASSUME TypeInv, NEW t \in Task, NEW st \in Storage, NEW c \in Calls, Apply(t, st, c)
  PROVE  /\ ObjsOK(objs') /\ \A x \in DOMAIN objs : x \in DOMAIN objs' /\ objs'[x] = objs[x]
<1>1. ObjsOK(objs)
  BY DEF TypeInv
<1>2. \/ objs' = objs
      \/ \E d \in Object, s \in Storage : Create(d, Stored(s))
  BY <1>1, ApplyIs
<1>3. CASE objs' = objs
  BY <1>1, <1>3
<1>4. CASE \E d \in Object, s \in Storage : Create(d, Stored(s))
  <2>1. PICK d \in Object, s \in Storage : Create(d, Stored(s))
    BY <1>4
  <2>2. Stored(s) \in Obj
    BY StoredIs
  <2> QED BY <1>1, <2>1, <2>2, CreateIs
<1> QED BY <1>2, <1>3, <1>4

LEMMA TypeMoves ==
  ASSUME TypeInv, NEW t \in Task, NEW pc, NEW s, NEW w, Moves(t, pc, s, w), ObjsOK(objs'),
         \A x \in DOMAIN objs : /\ x \in DOMAIN objs'
                                /\ objs[x].storage # <<>> => objs'[x].storage # <<>>,
         pc \in {"clear", "return"} => objs'[at[t].o].storage # <<>>
  PROVE  TypeInv'
<1>1. /\ at' \in [Task -> {Idle, Crashed} \cup Going] /\ \A u \in Task \ {t} : at'[u] = at[u]
      /\ at'[t].pc = pc /\ at'[t].o = at[t].o /\ at[t] \in Going
  BY DEF Moves
<1>2. Reached(at'[t], objs')
  BY <1>1, AtIs DEF Reached
<1>3. {t} \in SUBSET Task /\ \A u \in {t} : Reached(at'[u], objs')
  BY <1>2
<1> QED BY <1>1, <1>3, Rests

LEMMA TypeNext ==
  ASSUME TypeInv, [Next]_vars
  PROVE  TypeInv'
<1>0. ObjsOK(objs) /\ at \in [Task -> {Idle, Crashed} \cup Going]
  BY DEF TypeInv
<1>1. ASSUME NEW o \in Object, Literal(o) PROVE TypeInv'
  <2>1. PICK m \in Literals : Create(o, [pairs |-> <<m>>, storage |-> <<>>, torn |-> FALSE])
    BY <1>1 DEF Literal
  <2>2. [pairs |-> <<m>>, storage |-> <<>>, torn |-> FALSE] \in Obj
    BY LiteralMapping DEF Obj
  <2>3. ObjsOK(objs') /\ \A x \in DOMAIN objs : x \in DOMAIN objs' /\ objs'[x] = objs[x]
    BY <1>0, <2>1, <2>2, CreateIs
  <2>4. {} \in SUBSET Task /\ at' = at
    BY <1>1 DEF Literal
  <2> QED BY <1>0, <2>3, <2>4, Rests
<1>2. ASSUME NEW o \in DOMAIN objs, Drop(o) PROVE TypeInv'
  <2>1. /\ at' = at /\ ObjsOK(objs') /\ \A x \in DOMAIN objs' : objs'[x] = objs[x]
        /\ \A u \in Task : at[u] \in Going => at[u].o \in DOMAIN objs'
    BY <1>2, DropIs
  <2>2. \A u \in Task : Reached(at'[u], objs')
    BY <2>1 DEF TypeInv, Reached
  <2> QED BY <1>0, <2>1, <2>2 DEF TypeInv
<1>3. ASSUME NEW t \in Task, Convert(t) PROVE TypeInv'
  <2>1. PICK w : Moves(t, "fill", at[t].st, w) /\ objs' = objs
    BY <1>3, ConvertIs
  <2> QED BY <1>0, <2>1, TypeMoves
<1>4. ASSUME NEW t \in Task, Fill(t) PROVE TypeInv'
  <2>1. PICK s, w : Moves(t, "fill", s, w) /\ objs' = objs
    BY <1>4, FillIs
  <2> QED BY <1>0, <2>1, TypeMoves
<1>5. ASSUME NEW t \in Task, Tear(t) PROVE TypeInv'
  <2>1. /\ Moves(t, "store", at[t].st, at[t].left)
        /\ Swaps(at[t].o, [pairs |-> objs[at[t].o].pairs, storage |-> objs[at[t].o].storage,
                           torn |-> TRUE])
    BY <1>5, TearIs
  <2>2. ObjsOK(objs') /\ \A x \in DOMAIN objs : /\ x \in DOMAIN objs'
                                                /\ objs'[x].storage = objs[x].storage
    BY <2>1 DEF Swaps
  <2> QED BY <2>1, <2>2, TypeMoves
<1>6. ASSUME NEW t \in Task, Store(t) PROVE TypeInv'
  <2>1. /\ Moves(t, "clear", at[t].st, at[t].left)
        /\ Swaps(at[t].o, [pairs |-> objs[at[t].o].pairs, storage |-> <<at[t].st>>,
                           torn |-> FALSE])
    BY <1>6, StoreIs
  <2>2. objs'[at[t].o].storage # <<>>
    BY <2>1 DEF Swaps
  <2>3. ObjsOK(objs') /\ \A x \in DOMAIN objs : /\ x \in DOMAIN objs'
                                                /\ x # at[t].o => objs'[x] = objs[x]
    BY <2>1 DEF Swaps
  <2>4. \A x \in DOMAIN objs : objs[x].storage # <<>> => objs'[x].storage # <<>>
    BY <2>2, <2>3
  <2> QED BY <2>1, <2>2, <2>3, <2>4, TypeMoves
<1>7. ASSUME NEW t \in Task, Clear(t) PROVE TypeInv'
  <2>1. /\ at[t] \in Going /\ at[t].pc = "clear" /\ Moves(t, "return", at[t].st, at[t].left)
        /\ Swaps(at[t].o, [pairs |-> <<>>, storage |-> objs[at[t].o].storage,
                           torn |-> objs[at[t].o].torn])
    BY <1>7, ClearIs
  <2>2. ObjsOK(objs') /\ \A x \in DOMAIN objs : /\ x \in DOMAIN objs'
                                                /\ objs'[x].storage = objs[x].storage
    BY <2>1 DEF Swaps
  <2>3. at[t].o \in DOMAIN objs /\ objs[at[t].o].storage # <<>>
    BY <2>1 DEF TypeInv, Reached
  <2> QED BY <2>1, <2>2, <2>3, TypeMoves
<1>8. ASSUME NEW t \in Task, Return(t) PROVE TypeInv'
  <2>1. at' = [at EXCEPT ![t] = Idle] /\ objs[at[t].o].storage[1] \in Storage
    BY <1>8, ReturnIs
  <2>2. PICK c \in Calls : Apply(t, objs[at[t].o].storage[1], c)
    BY <1>8, ReturnIs
  <2>3. ObjsOK(objs') /\ \A x \in DOMAIN objs : x \in DOMAIN objs' /\ objs'[x] = objs[x]
    BY <2>1, <2>2, Applied
  <2>4. /\ at' \in [Task -> {Idle, Crashed} \cup Going] /\ at'[t] = Idle
        /\ \A u \in Task \ {t} : at'[u] = at[u]
    BY <1>0, <2>1
  <2>5. {t} \in SUBSET Task /\ \A u \in {t} : Reached(at'[u], objs')
    BY <2>4, AtIs DEF Reached
  <2> QED BY <2>3, <2>4, <2>5, Rests
<1>9. ASSUME NEW t \in Task, NEW o \in DOMAIN objs, Use(t, o) PROVE TypeInv'
  <2>1. /\ objs[o].storage # <<>> /\ at' = at
        /\ \E c \in Calls : Apply(t, objs[o].storage[1], c)
    BY <1>9 DEF Use
  <2>2. objs[o].storage[1] \in Storage
    BY <1>0, <2>1, ObjIs DEF ObjsOK
  <2>3. ObjsOK(objs') /\ \A x \in DOMAIN objs : x \in DOMAIN objs' /\ objs'[x] = objs[x]
    BY <2>1, <2>2, Applied
  <2>4. {} \in SUBSET Task
    OBVIOUS
  <2> QED BY <1>0, <2>1, <2>3, <2>4, Rests
<1>10. ASSUME NEW t \in Task, NEW o \in DOMAIN objs, Begin(t, o) PROVE TypeInv'
  <2> DEFINE n == [pc |-> "convert", o |-> o, st |-> EmptyStorage, left |-> <<>>]
  <2>1. /\ n \in Going /\ objs' = objs
        /\ at' = [at EXCEPT ![t] = n] \/ at' = [at EXCEPT ![t] = Crashed]
    BY <1>10, BeginIs
  <2>2. Reached(n, objs)
    BY DEF Reached
  <2>3. Reached(Crashed, objs)
    BY AtIs DEF Reached
  <2> HIDE DEF n
  <2>4. /\ at' \in [Task -> {Idle, Crashed} \cup Going] /\ at'[t] \in {n, Crashed}
        /\ \A u \in Task \ {t} : at'[u] = at[u]
    BY <1>0, <2>1
  <2>5. {t} \in SUBSET Task /\ \A u \in {t} : Reached(at'[u], objs')
    BY <2>1, <2>2, <2>3, <2>4
  <2> QED BY <1>0, <2>1, <2>4, <2>5, Rests
<1>11. CASE UNCHANGED vars
  BY <1>11 DEF vars, TypeInv
<1> QED BY <1>1, <1>2, <1>3, <1>4, <1>5, <1>6, <1>7, <1>8, <1>9, <1>10, <1>11 DEF Next

LEMMA TypeHolds == Spec => []TypeInv
<1>1. Init => TypeInv
  BY TypeInit
<1>2. TypeInv /\ [Next]_vars => TypeInv'
  BY TypeNext
<1> QED BY <1>1, <1>2, PTL DEF Spec

\* What hamtInsert, hamtDelete and ensureStorage do to a trie leaves it the
\* trie that hamtGet and len rely on, whatever the hashes of the keys are and
\* however first uses of a map overlap: a bucket is at the end of the way of
\* its keys, none is under another, an overfull one has keys of one hash, and
\* the size put and del keep is the number of pairs.
THEOREM TriesWellFormed == Spec => []WellFormed
<1>1. TypeInv => WellFormed
  <2> SUFFICES ASSUME TypeInv, NEW o \in DOMAIN objs, objs[o].storage # <<>>
               PROVE  LET st == objs[o].storage[1] IN
                 /\ \A p \in DOMAIN st.root : LET keys == DOMAIN st.root[p] IN
                      /\ keys # {} /\ ~IsBranch(st.root, p)
                      /\ \A k \in keys : p = Upto(k, Len(p))
                      /\ Cardinality(keys) > BucketSize => \A k, x \in keys : Hash[k] = Hash[x]
                 /\ st.size = Cardinality(forEach(st)) /\ st.size = Cardinality(DOMAIN Listed(st))
    BY DEF WellFormed
  <2> DEFINE st == objs[o].storage[1]
  <2>1. st \in Storage
    BY ObjIs DEF TypeInv, ObjsOK
  <2> HIDE DEF st
  <2>2. Holds(st, Listed(st)) /\ Cardinality(forEach(st)) = st.size
    BY <2>1, StorageIs, ListHolds
  <2>3. TrieOK(st.root) /\ st.size = Cardinality(DOMAIN Listed(st))
    BY <2>2 DEF Holds
  <2>4. ASSUME NEW p \in DOMAIN st.root
        PROVE  /\ DOMAIN st.root[p] # {} /\ ~IsBranch(st.root, p)
               /\ \A k \in DOMAIN st.root[p] : p = Upto(k, Len(p))
               /\ Cardinality(DOMAIN st.root[p]) > BucketSize
                    => \A k, x \in DOMAIN st.root[p] : Hash[k] = Hash[x]
    <3>1. Free(st.root, p) /\ BucketOK(p, st.root[p])
      BY <2>3 DEF TrieOK
    <3>2. ~IsBranch(st.root, p)
      BY <3>1 DEF Free, IsBranch, Under
    <3> QED BY <3>1, <3>2 DEF BucketOK
  <2> QED BY <2>2, <2>3, <2>4 DEF st
<1> QED BY <1>1, TypeHolds, PTL

----------------------------------------------------------------------------
(* Maps keep what they promise, where first uses do not overlap            *)

Minus(m, w) == [k \in DOMAIN m \ DOMAIN w |-> m[k]]

\* What a task in its first use a of the map m has done so far: the new
\* storage has all pairs but those that are left.
FirstUse(a, m) ==
  /\ a.pc \in {"convert", "fill", "store"} => m.storage = <<>>
  /\ a.pc = "convert" => a.st = EmptyStorage
  /\ a.pc = "fill" => /\ DOMAIN a.left \subseteq DOMAIN Content(m)
                      /\ \A k \in DOMAIN a.left : a.left[k] = Content(m)[k]
                      /\ Holds(a.st, Minus(Content(m), a.left))
  /\ a.pc = "store" => Holds(a.st, Content(m))

\* A map has one first use at a time, and its storage is torn only while that
\* use writes it.
KeepInv ==
  /\ \A t \in Task : at[t] # Crashed
  /\ \A t, u \in Task : at[t] \in Going /\ at[u] \in Going /\ at[t].o = at[u].o => t = u
  /\ \A t \in Task : at[t] \in Going => FirstUse(at[t], objs[at[t].o])
  /\ \A o \in DOMAIN objs : objs[o].torn = TRUE =>
       \E t \in Task : at[t] \in Going /\ at[t].pc = "store" /\ at[t].o = o

LEMMA NotTorn ==
  ASSUME TypeInv, KeepInv, NEW t \in Task, at[t] \in Going, at[t].pc # "store"
  PROVE  objs[at[t].o].torn # TRUE
<1>1. at[t].o \in DOMAIN objs
  BY AtIs
<1> QED BY <1>1 DEF KeepInv

\* Steps that touch no object in its first use.
LEMMA KeepRests ==
  ASSUME TypeInv, KeepInv,
         \A t \in Task : at'[t] # Crashed,
         \A t \in Task : at'[t] \in Going => /\ at'[t] = at[t]
                                             /\ objs'[at[t].o] = objs[at[t].o],
         \A t \in Task : at[t] \in Going /\ at[t].pc = "store" => at'[t] = at[t],
         \A o \in DOMAIN objs' : objs'[o].torn = TRUE => o \in DOMAIN objs /\ objs[o].torn = TRUE
  PROVE  KeepInv'
<1>1. \A t, u \in Task : at'[t] \in Going /\ at'[u] \in Going /\ at'[t].o = at'[u].o => t = u
  BY DEF KeepInv
<1>2. \A t \in Task : at'[t] \in Going => FirstUse(at'[t], objs'[at'[t].o])
  BY DEF KeepInv
<1>3. ASSUME NEW o \in DOMAIN objs', objs'[o].torn = TRUE
      PROVE  \E t \in Task : at'[t] \in Going /\ at'[t].pc = "store" /\ at'[t].o = o
  <2>1. PICK t \in Task : at[t] \in Going /\ at[t].pc = "store" /\ at[t].o = o
    BY <1>3 DEF KeepInv
  <2> QED BY <2>1
<1>4. \A t \in Task : at'[t] # Crashed
  OBVIOUS
<1> QED BY <1>1, <1>2, <1>3, <1>4 DEF KeepInv

\* A step of a first use.
LEMMA KeepMoves ==
  ASSUME TypeInv, KeepInv, NEW t \in Task, NEW pc, NEW s, NEW w, Moves(t, pc, s, w),
         DOMAIN objs' = DOMAIN objs,
         \A x \in DOMAIN objs : x # at[t].o => objs'[x] = objs[x],
         FirstUse(at'[t], objs'[at[t].o]),
         objs'[at[t].o].torn = TRUE => pc = "store"
  PROVE  KeepInv'
<1> DEFINE o == at[t].o
<1>1. /\ at[t] \in Going /\ at'[t] \in Going /\ at'[t].pc = pc /\ at'[t].o = o
      /\ \A u \in Task : u # t => at'[u] = at[u]
  BY DEF Moves
<1>2. /\ o \in DOMAIN objs
      /\ \A u \in Task : at[u] \in Going /\ u # t => at[u].o # o /\ at[u].o \in DOMAIN objs
  BY <1>1, AtIs DEF KeepInv
<1>3. \A u \in Task : at'[u] # Crashed
  BY <1>1, AtIs DEF KeepInv
<1>4. \A u, v \in Task : at'[u] \in Going /\ at'[v] \in Going /\ at'[u].o = at'[v].o => u = v
  BY <1>1, <1>2 DEF KeepInv
<1>5. ASSUME NEW u \in Task, at'[u] \in Going PROVE FirstUse(at'[u], objs'[at'[u].o])
  <2>1. CASE u = t
    BY <1>1, <2>1
  <2>2. CASE u # t
    <3>1. at'[u] = at[u] /\ objs'[at[u].o] = objs[at[u].o] /\ FirstUse(at[u], objs[at[u].o])
      BY <1>1, <1>2, <1>5, <2>2 DEF KeepInv
    <3> QED BY <3>1
  <2> QED BY <2>1, <2>2
<1>6. ASSUME NEW x \in DOMAIN objs', objs'[x].torn = TRUE
      PROVE  \E u \in Task : at'[u] \in Going /\ at'[u].pc = "store" /\ at'[u].o = x
  <2>1. CASE x = o
    BY <1>1, <1>6, <2>1
  <2>2. CASE x # o
    <3>1. PICK u \in Task : at[u] \in Going /\ at[u].pc = "store" /\ at[u].o = x
      BY <1>6, <2>2 DEF KeepInv
    <3>2. at'[u] = at[u]
      BY <1>1, <2>2, <3>1
    <3> QED BY <3>1, <3>2
  <2> QED BY <2>1, <2>2
<1> QED BY <1>3, <1>4, <1>5, <1>6 DEF KeepInv

LEMMA SameContents ==
  ASSUME DOMAIN objs' = DOMAIN objs, \A x \in DOMAIN objs : Content(objs'[x]) = Content(objs[x])
  PROVE  Contents' = Contents
BY DEF Contents

LEMMA ConvertKeeps ==
  ASSUME TypeInv, KeepInv, NEW t \in Task, Convert(t)
  PROVE  KeepInv' /\ Contents' = Contents /\ answer' = answer
<1> DEFINE o == at[t].o
           w == IF objs[o].pairs = <<>> THEN <<>> ELSE objs[o].pairs[1]
<1>1. /\ at[t] \in Going /\ at[t].pc = "convert" /\ objs' = objs /\ answer' = answer
      /\ Moves(t, "fill", at[t].st, w)
  BY ConvertIs
<1>2. objs[o] \in Obj /\ objs[o].storage = <<>> /\ at[t].st = EmptyStorage
  BY <1>1, AtIs DEF KeepInv, FirstUse
<1>3. Content(objs[o]) = w /\ w \in Mapping
  BY <1>2, ContentIs
<1>4. at'[t].pc = "fill" /\ at'[t].st = EmptyStorage /\ at'[t].left = w
  BY <1>1, <1>2 DEF Moves
<1>5. objs[o].torn # TRUE
  BY <1>1, NotTorn
<1> HIDE DEF w
<1>6. Minus(w, w) = <<>>
  <2>1. DOMAIN Minus(w, w) = {} /\ Minus(w, w) = [k \in DOMAIN Minus(w, w) |-> Minus(w, w)[k]]
    BY DEF Minus
  <2> QED BY <2>1, Nowhere
<1>7. Holds(EmptyStorage, Minus(w, w))
  BY <1>6, EmptyHolds
<1>8. FirstUse(at'[t], objs'[o])
  BY <1>1, <1>2, <1>3, <1>4, <1>7 DEF FirstUse
<1>9. KeepInv'
  BY <1>1, <1>5, <1>8, KeepMoves
<1> QED BY <1>1, <1>9, SameContents

LEMMA FillKeeps ==
  ASSUME TypeInv, KeepInv, NEW t \in Task, Fill(t)
  PROVE  KeepInv' /\ Contents' = Contents /\ answer' = answer
<1> DEFINE o == at[t].o
           m == Content(objs[o])
           w == at[t].left
           n == Minus(m, w)
<1>1. at[t] \in Going /\ at[t].pc = "fill" /\ objs' = objs /\ answer' = answer
  BY FillIs
<1>2. PICK k \in DOMAIN w : Moves(t, "fill", put(at[t].st, k, w[k]), Without(w, k))
  BY FillIs
<1>3. /\ objs[o].storage = <<>> /\ DOMAIN w \subseteq DOMAIN m /\ \A x \in DOMAIN w : w[x] = m[x]
      /\ Holds(at[t].st, n)
  BY <1>1 DEF KeepInv, FirstUse
<1>4. w \in Mapping /\ k \in Key /\ w[k] \in Val
  BY <1>1, AtIs, MappingIs
<1>5. Holds(put(at[t].st, k, w[k]), With(n, k, w[k]))
  BY <1>3, <1>4, PutHolds
<1> DEFINE s == put(at[t].st, k, w[k])
           v == Without(w, k)
<1>6. at'[t].pc = "fill" /\ at'[t].st = s /\ at'[t].left = v
  BY <1>2 DEF Moves
<1>7. DOMAIN v = DOMAIN w \ {k} /\ \A x \in DOMAIN v : v[x] = w[x]
  BY DEF Without
<1> HIDE DEF m, w, v
<1>8. With(n, k, w[k]) = Minus(m, v)
  <2>1. DOMAIN With(n, k, w[k]) = DOMAIN m \ DOMAIN v
    BY <1>3, <1>7 DEF With, Minus
  <2>2. \A x \in DOMAIN m \ DOMAIN v : With(n, k, w[k])[x] = m[x]
    BY <1>3, <1>7 DEF With, Minus
  <2> QED BY <2>1, <2>2 DEF With, Minus
<1>9. FirstUse(at'[t], objs'[o])
  BY <1>1, <1>3, <1>5, <1>6, <1>7, <1>8 DEF FirstUse, m
<1>10. objs[o].torn # TRUE
  BY <1>1, NotTorn
<1>11. KeepInv'
  BY <1>1, <1>2, <1>9, <1>10, KeepMoves DEF w
<1> QED BY <1>1, <1>11, SameContents

LEMMA TearKeeps ==
  ASSUME TypeInv, KeepInv, NEW t \in Task, Tear(t)
  PROVE  KeepInv' /\ Contents' = Contents /\ answer' = answer
<1> DEFINE o == at[t].o
           m == objs[o]
           r == [pairs |-> m.pairs, storage |-> m.storage, torn |-> TRUE]
<1>1. /\ at[t] \in Going /\ at[t].pc = "fill" /\ at[t].left = <<>> /\ answer' = answer
      /\ Moves(t, "store", at[t].st, at[t].left) /\ Swaps(o, r)
  BY TearIs
<1>2. m.storage = <<>> /\ Holds(at[t].st, Minus(Content(m), <<>>)) /\ m \in Obj
  BY <1>1, AtIs DEF KeepInv, FirstUse
<1>3. Content(r) = Content(m) /\ r.storage = <<>>
  BY <1>2 DEF Content
<1>4. Minus(Content(m), <<>>) = Content(m)
  <2>1. Content(m) = [k \in DOMAIN Content(m) |-> Content(m)[k]] /\ DOMAIN <<>> = {}
    BY <1>2, ContentIs, MappingIs, Nowhere
  <2>2. Minus(Content(m), <<>>) = [k \in DOMAIN Content(m) |-> Content(m)[k]]
    BY <2>1 DEF Minus
  <2> QED BY <2>1, <2>2
<1>5. at'[t].pc = "store" /\ at'[t].st = at[t].st
  BY <1>1 DEF Moves
<1>6. /\ DOMAIN objs' = DOMAIN objs /\ objs'[o] = r
      /\ \A x \in DOMAIN objs : x # o => objs'[x] = objs[x]
  BY <1>1 DEF Swaps
<1> HIDE DEF r
<1>7. FirstUse(at'[t], objs'[o])
  BY <1>2, <1>3, <1>4, <1>5, <1>6 DEF FirstUse
<1>8. KeepInv'
  BY <1>1, <1>6, <1>7, KeepMoves
<1>9. \A x \in DOMAIN objs : Content(objs'[x]) = Content(objs[x])
  BY <1>3, <1>6
<1> QED BY <1>1, <1>6, <1>8, <1>9, SameContents

LEMMA StoreKeeps ==
  ASSUME TypeInv, KeepInv, NEW t \in Task, Store(t)
  PROVE  KeepInv' /\ Contents' = Contents /\ answer' = answer
<1> DEFINE o == at[t].o
           st == at[t].st
           r == [pairs |-> objs[o].pairs, storage |-> <<st>>, torn |-> FALSE]
<1>1. /\ at[t] \in Going /\ at[t].pc = "store" /\ answer' = answer
      /\ Moves(t, "clear", st, at[t].left) /\ Swaps(o, r)
  BY StoreIs
<1>2. Holds(st, Content(objs[o]))
  BY <1>1 DEF KeepInv, FirstUse
<1>3. r \in Obj /\ r.storage = <<st>> /\ <<st>> # <<>> /\ <<st>>[1] = st /\ r.torn # TRUE
  BY <1>1 DEF Swaps
<1>4. at'[t].pc = "clear"
  BY <1>1 DEF Moves
<1>5. /\ DOMAIN objs' = DOMAIN objs /\ objs'[o] = r
      /\ \A x \in DOMAIN objs : x # o => objs'[x] = objs[x]
  BY <1>1 DEF Swaps
<1> HIDE DEF r
<1>6. Content(r) = Content(objs[o])
  <2>1. Content(r) = Listed(st)
    BY <1>3, ContentIs
  <2> QED BY <1>2, <2>1, ListHolds
<1>7. FirstUse(at'[t], objs'[o])
  BY <1>4 DEF FirstUse
<1>8. KeepInv'
  BY <1>1, <1>3, <1>5, <1>7, KeepMoves
<1>9. \A x \in DOMAIN objs : Content(objs'[x]) = Content(objs[x])
  BY <1>5, <1>6
<1> QED BY <1>1, <1>5, <1>8, <1>9, SameContents

LEMMA ClearKeeps ==
  ASSUME TypeInv, KeepInv, NEW t \in Task, Clear(t)
  PROVE  KeepInv' /\ Contents' = Contents /\ answer' = answer
<1> DEFINE o == at[t].o
           m == objs[o]
           r == [pairs |-> <<>>, storage |-> m.storage, torn |-> m.torn]
<1>1. /\ at[t] \in Going /\ at[t].pc = "clear" /\ answer' = answer
      /\ Moves(t, "return", at[t].st, at[t].left) /\ Swaps(o, r)
  BY ClearIs
<1>2. m.storage # <<>> /\ m \in Obj
  BY <1>1, AtIs DEF TypeInv, Reached
<1>3. r \in Obj /\ r.storage = m.storage /\ r.torn = m.torn
  BY <1>1 DEF Swaps
<1>4. m.torn # TRUE
  BY <1>1, NotTorn
<1>5. at'[t].pc = "return"
  BY <1>1 DEF Moves
<1>6. /\ DOMAIN objs' = DOMAIN objs /\ objs'[o] = r
      /\ \A x \in DOMAIN objs : x # o => objs'[x] = objs[x]
  BY <1>1 DEF Swaps
<1> HIDE DEF r
<1>7. Content(r) = Content(m)
  BY <1>2, <1>3, ContentIs
<1>8. FirstUse(at'[t], objs'[o])
  BY <1>5 DEF FirstUse
<1>9. KeepInv'
  BY <1>1, <1>3, <1>4, <1>6, <1>8, KeepMoves
<1>10. \A x \in DOMAIN objs : Content(objs'[x]) = Content(objs[x])
  BY <1>6, <1>7
<1> QED BY <1>1, <1>6, <1>9, <1>10, SameContents

\* The tasks a step leaves in their first use are where they were, and no
\* task that writes a storage is stopped.
AtRests == /\ \A t \in Task : at'[t] # Crashed
           /\ \A t \in Task : at'[t] \in Going => at'[t] = at[t]
           /\ \A t \in Task : at[t] \in Going /\ at[t].pc = "store" => at'[t] = at[t]

LEMMA ContentsIs ==
  ASSUME ObjsOK(objs)
  PROVE  /\ DOMAIN Contents = DOMAIN objs /\ Contents = [o \in DOMAIN Contents |-> Contents[o]]
         /\ \A o \in DOMAIN objs : Contents[o] = Content(objs[o]) /\ Contents[o] \in Mapping
BY ContentIs DEF Contents, ObjsOK

LEMMA CreateKeeps ==
  ASSUME TypeInv, KeepInv, AtRests, NEW o \in Object, NEW m \in Obj, m.torn # TRUE, Create(o, m)
  PROVE  KeepInv' /\ Promised!Made(o, Content(m))
<1>1. ObjsOK(objs)
  BY DEF TypeInv
<1>2. /\ DOMAIN objs' = DOMAIN objs \cup {o} /\ o \notin DOMAIN objs
      /\ objs'[o] = m /\ \A x \in DOMAIN objs : objs'[x] = objs[x]
  BY <1>1, CreateIs
<1>3. KeepInv'
  <2>1. \A t \in Task : at'[t] \in Going => at'[t] = at[t] /\ objs'[at[t].o] = objs[at[t].o]
    BY <1>2, AtIs DEF AtRests
  <2>2. \A x \in DOMAIN objs' : objs'[x].torn = TRUE => x \in DOMAIN objs /\ objs[x].torn = TRUE
    BY <1>2
  <2> QED BY <2>1, <2>2, KeepRests DEF AtRests
<1>4. Contents' = Promised!With(Contents, o, Content(m))
  <2>1. Contents' = [x \in DOMAIN objs' |-> Content(objs'[x])]
    BY DEF Contents
  <2>2. DOMAIN Contents = DOMAIN objs /\ \A x \in DOMAIN objs : Contents[x] = Content(objs[x])
    BY DEF Contents
  <2>3. Promised!With(Contents, o, Content(m))
          = [x \in DOMAIN objs \cup {o} |-> IF x = o THEN Content(m) ELSE Contents[x]]
    BY <2>2 DEF Promised!With
  <2> QED BY <1>2, <2>1, <2>2, <2>3
<1>5. o \notin DOMAIN Contents
  BY <1>2 DEF Contents
<1> QED BY <1>3, <1>4, <1>5 DEF Promised!Made

LEMMA ApplyKeeps ==
  ASSUME TypeInv, KeepInv, AtRests, NEW t \in Task, NEW o \in DOMAIN objs, objs[o].storage # <<>>,
         NEW c \in Calls, Apply(t, objs[o].storage[1], c)
  PROVE  KeepInv' /\ Promised!Next
<1> DEFINE st == objs[o].storage[1]
<1>1. ObjsOK(objs) /\ objs[o] \in Obj
  BY DEF TypeInv, ObjsOK
<1>2. st \in Storage /\ Content(objs[o]) = Listed(st)
  BY <1>1, ObjIs, ContentIs
<1>3. Contents[o] = Listed(st) /\ DOMAIN Contents = DOMAIN objs
  BY <1>1, <1>2, ContentsIs
<1>4. Apply(t, st, c)
  OBVIOUS
<1> HIDE DEF st
<1>5. \/ /\ objs' = objs
         /\ \/ \E k \in Key : answer' = <<t, IF k \in DOMAIN Listed(st) THEN Listed(st)[k]
                                             ELSE Nothing>>
            \/ answer' = <<t, Cardinality(DOMAIN Listed(st))>>
      \/ /\ answer' = answer
         /\ \E d \in Object, s \in Storage :
              /\ Create(d, Stored(s))
              /\ \/ \E k \in Key, v \in Val : Holds(s, With(Listed(st), k, v))
                 \/ \E k \in Key : Holds(s, Without(Listed(st), k))
  BY <1>1, <1>2, <1>4, ApplyIs
<1>6. CASE /\ objs' = objs
           /\ \/ \E k \in Key : answer' = <<t, IF k \in DOMAIN Listed(st) THEN Listed(st)[k]
                                               ELSE Nothing>>
              \/ answer' = <<t, Cardinality(DOMAIN Listed(st))>>
  <2>1. KeepInv'
    <3>1. \A u \in Task : at'[u] \in Going => at'[u] = at[u] /\ objs'[at[u].o] = objs[at[u].o]
      BY <1>6 DEF AtRests
    <3>2. \A x \in DOMAIN objs' : objs'[x].torn = TRUE => x \in DOMAIN objs /\ objs[x].torn = TRUE
      BY <1>6
    <3> QED BY <3>1, <3>2, KeepRests DEF AtRests
  <2>2. Contents' = Contents
    BY <1>6 DEF Contents
  <2>3. Promised!Get(t, o) \/ Promised!Length(t, o)
    <3>1. CASE \E k \in Key : answer' = <<t, IF k \in DOMAIN Listed(st) THEN Listed(st)[k]
                                              ELSE Nothing>>
      <4>1. PICK k \in Key : answer' = <<t, IF k \in DOMAIN Listed(st) THEN Listed(st)[k]
                                            ELSE Nothing>>
        BY <3>1
      <4>2. answer' = <<t, IF k \in DOMAIN Contents[o] THEN Contents[o][k] ELSE Nothing>>
        BY <1>3, <4>1
      <4> QED BY <4>2 DEF Promised!Get, Promised!Answered
    <3>2. CASE answer' = <<t, Cardinality(DOMAIN Listed(st))>>
      <4>1. answer' = <<t, Cardinality(DOMAIN Contents[o])>>
        BY <1>3, <3>2
      <4>2. Promised!Cardinality(DOMAIN Contents[o]) = Cardinality(DOMAIN Contents[o])
        BY DEF Promised!Cardinality, Cardinality
      <4> QED BY <4>1, <4>2 DEF Promised!Length, Promised!Answered
    <3> QED BY <1>6, <3>1, <3>2
  <2> QED BY <1>3, <2>1, <2>2, <2>3 DEF Promised!Next
<1>7. CASE /\ answer' = answer
           /\ \E d \in Object, s \in Storage :
                /\ Create(d, Stored(s))
                /\ \/ \E k \in Key, v \in Val : Holds(s, With(Listed(st), k, v))
                   \/ \E k \in Key : Holds(s, Without(Listed(st), k))
  <2>1. PICK d \in Object, s \in Storage :
          /\ Create(d, Stored(s))
          /\ \/ \E k \in Key, v \in Val : Holds(s, With(Listed(st), k, v))
             \/ \E k \in Key : Holds(s, Without(Listed(st), k))
    BY <1>7
  <2>2. Stored(s) \in Obj /\ Stored(s).torn # TRUE /\ Content(Stored(s)) = Listed(s)
    BY StoredIs, ContentIs
  <2>3. KeepInv' /\ Promised!Made(d, Listed(s))
    BY <2>1, <2>2, CreateKeeps
  <2>4. CASE \E k \in Key, v \in Val : Holds(s, With(Listed(st), k, v))
    <3>1. PICK k \in Key, v \in Val : Holds(s, With(Listed(st), k, v))
      BY <2>4
    <3>2. Listed(s) = Promised!With(Contents[o], k, v)
      <4>1. Listed(s) = With(Listed(st), k, v)
        BY <3>1, ListHolds
      <4>2. With(Listed(st), k, v) = Promised!With(Listed(st), k, v)
        BY DEF With, Promised!With
      <4> QED BY <1>3, <4>1, <4>2
    <3>3. Promised!Put(o, d)
      BY <2>3, <3>2 DEF Promised!Put
    <3> QED BY <1>3, <1>7, <2>3, <3>3 DEF Promised!Next
  <2>5. CASE \E k \in Key : Holds(s, Without(Listed(st), k))
    <3>1. PICK k \in Key : Holds(s, Without(Listed(st), k))
      BY <2>5
    <3>2. Listed(s) = [x \in DOMAIN Contents[o] \ {k} |-> Contents[o][x]]
      <4>1. Listed(s) = Without(Listed(st), k)
        BY <3>1, ListHolds
      <4>2. Without(Listed(st), k) = [x \in DOMAIN Listed(st) \ {k} |-> Listed(st)[x]]
        BY DEF Without
      <4> QED BY <1>3, <4>1, <4>2
    <3>3. Promised!Remove(o, d)
      BY <2>3, <3>2 DEF Promised!Remove
    <3> QED BY <1>3, <1>7, <2>3, <3>3 DEF Promised!Next
  <2> QED BY <2>1, <2>4, <2>5
<1> QED BY <1>5, <1>6, <1>7

LEMMA KeepInit == Init => KeepInv /\ Promised!Init
<1> SUFFICES ASSUME Init PROVE KeepInv /\ Promised!Init
  OBVIOUS
<1>1. DOMAIN objs = {} /\ at = [t \in Task |-> Idle] /\ answer = <<>>
  BY Nowhere DEF Init
<1>2. Idle \notin Going /\ Idle # Crashed
  BY DEF Idle, Crashed, Going
<1>3. KeepInv
  BY <1>1, <1>2 DEF KeepInv
<1>4. DOMAIN Contents = {} /\ Contents = [o \in DOMAIN Contents |-> Contents[o]]
  BY <1>1 DEF Contents
<1>5. Contents = <<>>
  BY <1>4, Nowhere
<1> QED BY <1>1, <1>3, <1>5 DEF Promised!Init

LEMMA BeginKeeps ==
  ASSUME ~Overlap, TypeInv, KeepInv, NEW t \in Task, NEW o \in DOMAIN objs, Begin(t, o)
  PROVE  KeepInv' /\ Contents' = Contents /\ answer' = answer
<1> DEFINE n == [pc |-> "convert", o |-> o, st |-> EmptyStorage, left |-> <<>>]
<1>1. /\ at[t] = Idle /\ objs[o].storage = <<>> /\ objs' = objs /\ answer' = answer
      /\ \A u \in Task : at[u] \in Going => at[u].o # o
      /\ at' = [at EXCEPT ![t] = n] \/ objs[o].torn = TRUE
      /\ n \in Going
  BY BeginIs
<1>2. objs[o].torn # TRUE
  BY <1>1 DEF KeepInv
<1>3. n.pc = "convert" /\ n.o = o /\ n.st = EmptyStorage
  OBVIOUS
<1> HIDE DEF n
<1>4. at'[t] = n /\ \A u \in Task : u # t => at'[u] = at[u]
  BY <1>1, <1>2 DEF TypeInv
<1>5. \A u \in Task : at'[u] # Crashed
  BY <1>1, <1>4, AtIs DEF KeepInv
<1>6. \A u, v \in Task : at'[u] \in Going /\ at'[v] \in Going /\ at'[u].o = at'[v].o => u = v
  BY <1>1, <1>3, <1>4 DEF KeepInv
<1>7. FirstUse(n, objs[o])
  BY <1>1, <1>3 DEF FirstUse
<1>8. \A u \in Task : at'[u] \in Going => FirstUse(at'[u], objs'[at'[u].o])
  BY <1>1, <1>3, <1>4, <1>7 DEF KeepInv
<1>9. ASSUME NEW x \in DOMAIN objs', objs'[x].torn = TRUE
      PROVE  \E u \in Task : at'[u] \in Going /\ at'[u].pc = "store" /\ at'[u].o = x
  <2>1. PICK u \in Task : at[u] \in Going /\ at[u].pc = "store" /\ at[u].o = x
    BY <1>1, <1>9 DEF KeepInv
  <2>2. u # t
    BY <1>1, <2>1, AtIs
  <2> QED BY <1>4, <2>1, <2>2
<1>10. KeepInv'
  BY <1>5, <1>6, <1>8, <1>9 DEF KeepInv
<1>11. Contents' = Contents
  BY <1>1 DEF Contents
<1> QED BY <1>1, <1>10, <1>11

LEMMA KeepNext ==
  ASSUME ~Overlap, TypeInv, KeepInv, [Next]_vars
  PROVE  KeepInv' /\ [Promised!Next]_<<Contents, answer>>
<1>0. ObjsOK(objs) /\ at \in [Task -> {Idle, Crashed} \cup Going] /\ \A t \in Task : at[t] # Crashed
  BY DEF TypeInv, KeepInv
<1>12. ASSUME at' = at PROVE AtRests
  BY <1>0, <1>12 DEF AtRests
<1>1. ASSUME NEW o \in Object, Literal(o) PROVE KeepInv' /\ Promised!Next
  <2>1. PICK m \in Literals : Create(o, [pairs |-> <<m>>, storage |-> <<>>, torn |-> FALSE])
    BY <1>1 DEF Literal
  <2> DEFINE r == [pairs |-> <<m>>, storage |-> <<>>, torn |-> FALSE]
  <2>2. r \in Obj /\ r.torn # TRUE /\ r.storage = <<>> /\ r.pairs # <<>> /\ r.pairs[1] = m
    BY LiteralMapping DEF Obj
  <2>3. Create(o, r) /\ at' = at /\ answer' = answer
    BY <1>1, <2>1 DEF Literal
  <2> HIDE DEF r
  <2>4. KeepInv' /\ Promised!Made(o, Content(r))
    BY <1>12, <2>2, <2>3, CreateKeeps
  <2>5. Content(r) = m
    BY <2>2, ContentIs
  <2>6. DOMAIN m \in SUBSET Key /\ m \in [DOMAIN m -> Val]
    BY LiteralsAssumption
  <2>7. Promised!New(o)
    BY <2>4, <2>5, <2>6 DEF Promised!New
  <2> QED BY <2>3, <2>4, <2>7 DEF Promised!Next
<1>2. ASSUME NEW o \in DOMAIN objs, Drop(o) PROVE KeepInv' /\ Promised!Next
  <2>1. /\ UNCHANGED <<at, answer>> /\ DOMAIN objs' = DOMAIN objs \ {o}
        /\ \A x \in DOMAIN objs' : objs'[x] = objs[x]
        /\ \A u \in Task : at[u] \in Going => at[u].o \in DOMAIN objs'
    BY <1>2, DropIs
  <2>2. KeepInv'
    <3>1. AtRests
      BY <1>12, <2>1
    <3>2. \A t \in Task : at'[t] \in Going => at'[t] = at[t] /\ objs'[at[t].o] = objs[at[t].o]
      BY <2>1
    <3>3. \A x \in DOMAIN objs' : objs'[x].torn = TRUE => x \in DOMAIN objs /\ objs[x].torn = TRUE
      BY <2>1
    <3> QED BY <3>1, <3>2, <3>3, KeepRests DEF AtRests
  <2>3. Contents' = [x \in DOMAIN Contents \ {o} |-> Contents[x]]
    <3>1. Contents' = [x \in DOMAIN objs' |-> Content(objs'[x])]
      BY DEF Contents
    <3>2. DOMAIN Contents = DOMAIN objs /\ \A x \in DOMAIN objs : Contents[x] = Content(objs[x])
      BY DEF Contents
    <3> QED BY <2>1, <3>1, <3>2
  <2>4. Promised!Drop(o) /\ o \in DOMAIN Contents /\ answer' = answer
    BY <2>1, <2>3, <1>0, ContentsIs DEF Promised!Drop
  <2> QED BY <2>2, <2>4 DEF Promised!Next
<1>3. ASSUME NEW t \in Task, Convert(t) \/ Fill(t) \/ Tear(t) \/ Store(t) \/ Clear(t)
      PROVE  KeepInv' /\ Contents' = Contents /\ answer' = answer
  BY <1>3, ConvertKeeps, FillKeeps, TearKeeps, StoreKeeps, ClearKeeps
<1>4. ASSUME NEW t \in Task, Return(t) PROVE KeepInv' /\ Promised!Next
  <2>1. /\ at[t] \in Going /\ at[t].pc = "return" /\ objs[at[t].o].storage # <<>>
        /\ at' = [at EXCEPT ![t] = Idle]
    BY <1>4, ReturnIs
  <2>2. PICK c \in Calls : Apply(t, objs[at[t].o].storage[1], c)
    BY <1>4, ReturnIs
  <2>3. at'[t] = Idle /\ \A u \in Task : u # t => at'[u] = at[u]
    BY <1>0, <2>1
  <2>4. AtRests
    BY <1>0, <2>1, <2>3, AtIs DEF AtRests
  <2>5. at[t].o \in DOMAIN objs
    BY <2>1, AtIs
  <2> QED BY <2>1, <2>2, <2>4, <2>5, ApplyKeeps
<1>5. ASSUME NEW t \in Task, NEW o \in DOMAIN objs, Use(t, o) PROVE KeepInv' /\ Promised!Next
  <2>1. objs[o].storage # <<>> /\ at' = at
    BY <1>5 DEF Use
  <2>2. PICK c \in Calls : Apply(t, objs[o].storage[1], c)
    BY <1>5 DEF Use
  <2> QED BY <1>12, <2>1, <2>2, ApplyKeeps
<1>6. ASSUME NEW t \in Task, NEW o \in DOMAIN objs, Begin(t, o)
      PROVE  KeepInv' /\ Contents' = Contents /\ answer' = answer
  BY <1>6, BeginKeeps
<1>7. CASE UNCHANGED vars
  <2>1. objs' = objs /\ at' = at /\ answer' = answer
    BY <1>7 DEF vars
  <2>2. KeepInv' /\ Contents' = Contents
    BY <2>1 DEF KeepInv, Contents
  <2> QED BY <2>1, <2>2
<1> QED BY <1>1, <1>2, <1>3, <1>4, <1>5, <1>6, <1>7 DEF Next

\* Where no task uses a map whose first use is still going on, maps are what
\* SLUG.ai's law of immutability makes of them: ensureStorage changes nothing
\* anybody can see, put and remove (Clone, then PutPair or DeleteKey) make new
\* maps and leave those that share the trie alone, and every get and len is
\* answered from what the map was made with.
THEOREM MapsKeepTheirPromise ==
  ASSUME ~Overlap
  PROVE  Spec => ImplementsMap
<1>1. Init => TypeInv
  BY TypeInit
<1>2. TypeInv /\ [Next]_vars => TypeInv'
  BY TypeNext
<1>3. Init => KeepInv /\ Promised!Init
  BY KeepInit
<1>4. TypeInv /\ KeepInv /\ [Next]_vars => KeepInv' /\ [Promised!Next]_<<Contents, answer>>
  BY KeepNext
<1> QED BY <1>1, <1>2, <1>3, <1>4, PTL DEF Spec, ImplementsMap, Promised!Spec
=============================================================================
