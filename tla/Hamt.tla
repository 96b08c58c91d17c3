-------------------------------- MODULE Hamt --------------------------------
(***************************************************************************)
(* The hash trie under Slug's maps (internal/object/hamt.go and            *)
(* map_storage.go).  A trie is seen as its buckets: a function from the    *)
(* place of a bucket, the segments of the hash that lead to it, to the     *)
(* pairs in it, a function from keys to values.  The branches are the      *)
(* places above buckets.  Nodes are never changed: an update copies the    *)
(* path to the bucket and shares the rest.                                 *)
(***************************************************************************)
EXTENDS Naturals, Sequences, FiniteSets, SequencesExt, FiniteSetsExt

CONSTANTS
  Key,            \* the map keys
  Hash,           \* function: the hash of a key, which two keys may share
  BitsPerLevel,   \* hamtBitsPerLevel, 5
  BucketSize,     \* pairs in a bucket before it becomes a branch, 4
  MaxDepth        \* hamtMaxDepth, 13: the hash has no segments below it

ASSUME LevelAssumption == BucketSize \in Nat \ {0} /\ MaxDepth \in Nat

\* The segments of a key's hash, which have all of it, and the first n of them.
Segments(k) == [i \in 1..MaxDepth |-> (Hash[k] \div 2^((i - 1) * BitsPerLevel)) % 2^BitsPerLevel]
Upto(k, n) == SubSeq(Segments(k), 1, n)
ASSUME HashAssumption == /\ Hash \in [Key -> Nat]
                         /\ \A k, x \in Key : Segments(k) = Segments(x) => Hash[k] = Hash[x]

With(f, x, v) == [y \in DOMAIN f \cup {x} |-> IF y = x THEN v ELSE f[y]]
Over(f, g) == [y \in DOMAIN f \cup DOMAIN g |-> IF y \in DOMAIN f THEN f[y] ELSE g[y]]
Without(f, x) == [y \in DOMAIN f \ {x} |-> f[y]]
Under(trie, p) == {q \in DOMAIN trie : IsPrefix(p, q)}
IsBranch(trie, p) == \E q \in Under(trie, p) : q # p
\* The place where the way along a key's hash ends: a bucket, or the missing
\* child of a branch.
WayOf(trie, k) == Upto(k, Min({n \in 0..MaxDepth : ~IsBranch(trie, Upto(k, n))}))

-----------------------------------------------------------------------------
\* Mutant: the pairs are dealt out by the segment after the one that leads to
\* their place.
DealtBelow(pairs, p) ==
  LET place(k) == Append(p, Segments(k)[Min({Len(p) + 2, MaxDepth})])
  IN  [q \in {place(k) : k \in DOMAIN pairs} |->
         [k \in {x \in DOMAIN pairs : place(x) = q} |-> pairs[k]]]

\* What an overflowing bucket becomes: each pair goes down its hash until
\* few enough go with it, or the hash ends.
Dealt(pairs, p) ==
  LET beside(k, n) == {x \in DOMAIN pairs : Upto(x, n) = Upto(k, n)}
      place(k) == Upto(k, Min({n \in (Len(p) + 1)..MaxDepth :
                                 n = MaxDepth \/ Cardinality(beside(k, n)) <= BucketSize}))
  IN  [q \in {place(k) : k \in DOMAIN pairs} |->
         [k \in {x \in DOMAIN pairs : place(x) = q} |-> pairs[k]]]

\* The pairs of the bucket in which the key would be.
BucketOf(trie, k) == LET p == WayOf(trie, k) IN IF p \in DOMAIN trie THEN trie[p] ELSE <<>>

hamtInsert(trie, k, v) ==
  LET p == WayOf(trie, k)
      pairs == With(BucketOf(trie, k), k, v)
  IN  IF \/ k \in DOMAIN BucketOf(trie, k)
         \/ Cardinality(DOMAIN pairs) <= BucketSize
         \/ Len(p) >= MaxDepth
      THEN With(trie, p, pairs)
      ELSE Over(Dealt(pairs, p), Without(trie, p))

\* Mutant: an only child takes its parent's place whatever it is.
CollapsesBranches(trie, p) ==
  LET q == CHOOSE x \in Under(trie, p) : TRUE IN
  IF \A x \in Under(trie, p) : x[Len(p) + 1] = q[Len(p) + 1]
  THEN With([x \in DOMAIN trie \ Under(trie, p) |-> trie[x]], p, trie[q]) ELSE trie

\* A branch that lost a child: an only child that is a bucket takes its place.
Collapsed(trie, p) ==
  LET q == CHOOSE x \in Under(trie, p) : TRUE IN
  IF Under(trie, p) = {q} /\ Len(q) = Len(p) + 1 THEN With(Without(trie, q), p, trie[q]) ELSE trie

\* A bucket that is empty goes, with the branches that had nothing else.
hamtDelete(trie, k) ==
  LET p == WayOf(trie, k)
      pairs == Without(trie[p], k)
      rest == Without(trie, p)
      above == {n \in 0..(Len(p) - 1) : Under(rest, Upto(k, n)) # {}}
  IN  IF k \notin DOMAIN BucketOf(trie, k) THEN trie
      ELSE IF pairs # <<>> THEN With(trie, p, pairs)
      ELSE IF above = {} THEN rest
      ELSE Collapsed(rest, Upto(k, Max(above)))

-----------------------------------------------------------------------------
(* hamtMapStorage: the trie and a count that put and del keep              *)

EmptyStorage == [root |-> <<>>, size |-> 0]
get(st, k) == BucketOf(st.root, k)
put(st, k, v) ==
  [root |-> hamtInsert(st.root, k, v),
   size |-> IF k \in DOMAIN get(st, k) THEN st.size ELSE st.size + 1]
del(st, k) ==
  [root |-> hamtDelete(st.root, k),
   size |-> IF k \in DOMAIN get(st, k) THEN st.size - 1 ELSE st.size]
\* What forEach shows: the pairs of all buckets.
forEach(st) == UNION {{<<k, st.root[p][k]>> : k \in DOMAIN st.root[p]} : p \in DOMAIN st.root}
=============================================================================
