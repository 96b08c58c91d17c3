---------------------------- MODULE PersistentMap ---------------------------
(***************************************************************************)
(* What Slug's maps promise (src/SLUG.ai, law immutability): a map never   *)
(* changes, put and remove make new ones, and everybody who asks a map for *)
(* a key or for its length is answered from what it was made with.         *)
(***************************************************************************)
EXTENDS FiniteSets

CONSTANTS Object, Task, Key, Val, Nothing

VARIABLES contents,   \* the maps there are: functions on their keys
          answer      \* the last answer a task got, and which task

With(m, x, v) == [y \in DOMAIN m \cup {x} |-> IF y = x THEN v ELSE m[y]]

Init == contents = <<>> /\ answer = <<>>

Made(o, m) == o \notin DOMAIN contents /\ contents' = With(contents, o, m)
New(o) == \E ks \in SUBSET Key : \E m \in [ks -> Val] : Made(o, m)
Put(o, d) == \E k \in Key, v \in Val : Made(d, With(contents[o], k, v))
Remove(o, d) == \E k \in Key : Made(d, [x \in DOMAIN contents[o] \ {k} |-> contents[o][x]])
Drop(o) == contents' = [x \in DOMAIN contents \ {o} |-> contents[x]]

Answered(t, a) == answer' = <<t, a>>
Get(t, o) ==
  \E k \in Key : Answered(t, IF k \in DOMAIN contents[o] THEN contents[o][k] ELSE Nothing)
Length(t, o) == Answered(t, Cardinality(DOMAIN contents[o]))

Next ==
  \/ /\ \/ \E o \in Object : New(o)
        \/ \E o \in DOMAIN contents : Drop(o) \/ \E d \in Object : Put(o, d) \/ Remove(o, d)
     /\ UNCHANGED answer
  \/ /\ \E t \in Task, o \in DOMAIN contents : Get(t, o) \/ Length(t, o)
     /\ UNCHANGED contents

Spec == Init /\ [][Next]_<<contents, answer>>
=============================================================================
