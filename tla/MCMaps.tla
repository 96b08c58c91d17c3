------------------------------- MODULE MCMaps -------------------------------
(***************************************************************************)
(* Four keys: two of one hash, one that shares a segment with them and one *)
(* that shares none.                                                       *)
(***************************************************************************)
EXTENDS Maps, TLC

CONSTANTS a, b, c, d, one, two, m1, m2, t1, t2

MCHash == (a :> 0) @@ (b :> 0) @@ (c :> 2) @@ (d :> 1)
MCSymmetry == Permutations({m1, m2}) \cup Permutations({t1, t2})
MCLiterals == {<<>>, (a :> one) @@ (d :> two), (a :> one) @@ (b :> two) @@ (c :> one)}
=============================================================================
