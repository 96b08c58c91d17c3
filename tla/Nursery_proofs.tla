--------------------------- MODULE Nursery_proofs ---------------------------
(***************************************************************************)
(* Proofs about the nurseries of Executor: no nursery is left behind with  *)
(* tasks that have no result yet.  For programs in which no instruction    *)
(* ends in errorAt and no recur leaves a nursery block.                    *)
(***************************************************************************)
EXTENDS Scopes_proofs

----------------------------------------------------------------------------
(* The inductive invariant *)

\* errorAt leaves the scopes of its frame where they are, and the handles
\* that a recur carries out of a nursery block go when a defer of an enclosing
\* block replaces the signal.  Nurseries on whole functions may recur.
Joinable == Clean /\ ("nursery" \notin Ops \/ "recur" \notin Ops)

\* n is the depth of the task scopes that frame f has.  Handles are carried
\* from the moment a function with a nursery has recurred out of it to the
\* moment its next iteration enters it.
Carrying(f, n) ==
  /\ f.kind = "fn" /\ f.arg # 0 /\ f.goal = "none" /\ n = f.taskBase
  /\ f.st = "enter" \/ (f.st = "unwind" /\ f.cur = "recur" /\ f.defers = <<>>)

Ready(f, n) ==
  /\ f.carry # <<>> => Carrying(f, n)
  /\ f.st = "enter" => f.kind = "fn" /\ f.open = 0 /\ f.defers = <<>> /\ n = f.taskBase

\* A function that does not unwind is inside its outermost scope, with one
\* defer scope for each scope; only there does a recur go on to the function.
Tidy(f) ==
  /\ f.goal = "pop" => f.cur # "recur"
  /\ f.goal = "recur" => f.open >= 2
  /\ f.kind = "fn" /\ f.st \notin {"enter", "unwind"} /\ f.goal # "unwind" =>
       /\ f.open >= 1
       /\ Len(f.defers) + (IF f.st = "defers" THEN 1 ELSE 0) = f.open
  /\ "recur" \notin Ops => f.goal # "recur" /\ (f.st = "tail" => f.cur # "recur")

\* Without nursery blocks, the nurseries of a frame are those of functions.
Rooted(f, n, scopes) ==
  "nursery" \notin Ops =>
    \A j \in f.taskBase + 1 .. n : scopes[j].nursery => j = f.taskBase + 1 /\ f.arg # 0

Gathers(f, n, scopes) == Ready(f, n) /\ Tidy(f) /\ Rooted(f, n, scopes)

Gathered(s, scopes) == \A i \in 1 .. Len(s) : Gathers(s[i], TaskDepth(s, Len(scopes), i), scopes)

\* Only nurseries have handles.
Plain(scopes) == \A j \in 1 .. Len(scopes) : ~scopes[j].nursery => scopes[j].hs = <<>>

ShapeInv == \A g \in Goroutine : /\ Gathered(frames[g], taskScopes[g])
                                 /\ Plain(taskScopes[g])
                                 /\ frames[g] # <<>> => phase[g] = "run"

\* Where a handle is kept.
Has(hs, h) == \E j \in 1 .. Len(hs) : hs[j] = h
FrameKeeps(f, h) == Has(Joining(f), h) \/ Has(f.carry, h)
FramesKeep(s, h) == \E i \in 1 .. Len(s) : FrameKeeps(s[i], h)
ScopesKeep(scopes, h) == \E i \in 1 .. Len(scopes) : Has(scopes[i].hs, h)

KeptInv == \A h \in owned : result[h] = "open" =>
             ScopesKeep(taskScopes[spawner[h]], h) \/ FramesKeep(frames[spawner[h]], h)

JoinInv == ShapeInv /\ KeptInv

----------------------------------------------------------------------------
(* The shape of stacks *)

\* Nurseries stay where they are.
SameKinds(T, T2) == \A j \in 1 .. Len(T2) : j <= Len(T) => T2[j].nursery = T[j].nursery

LEMMA GathersBelow ==
  ASSUME NEW f, f.taskBase \in Nat, NEW n \in Nat, NEW T, NEW T2,
         Len(T) \in Nat, Len(T2) \in Nat, n <= Len(T), n <= Len(T2),
         SameKinds(T, T2), Gathers(f, n, T)
  PROVE  Gathers(f, n, T2)
<1>1. \A j \in f.taskBase + 1 .. n : T2[j].nursery = T[j].nursery
  BY DEF SameKinds
<1>2. Rooted(f, n, T2)
  BY <1>1 DEF Gathers, Rooted
<1> QED BY <1>2 DEF Gathers

\* A frame begins where the frames above it begin, or below.
LEMMA BasesInOrder ==
  ASSUME NEW s \in FrameSeq, NEW N, N = Len(s), N >= 1, Stacked(s),
         NEW n \in Nat, s[N].taskBase <= n, NEW i \in 1 .. N - 1
  PROVE  /\ s[i].taskBase \in Nat /\ s[i + 1].taskBase \in Nat
         /\ s[i + 1].taskBase <= s[N].taskBase /\ s[i + 1].taskBase <= n
<1>1. N \in Nat
  BY LenProperties DEF FrameSeq
<1>2. i \in 1 .. N /\ i + 1 \in 1 .. N /\ N \in 1 .. N /\ i + 1 <= N
  BY <1>1
<1>3. s[i].taskBase \in Nat /\ s[i + 1].taskBase \in Nat /\ s[N].taskBase \in Nat
  BY <1>2, BasesType
<1>4. s[i + 1].taskBase <= s[N].taskBase
  BY <1>2 DEF Stacked
<1> QED BY <1>3, <1>4

\* The frame on top and the task scopes are replaced.
LEMMA GatherTop ==
  ASSUME NEW s \in FrameSeq, NEW t, NEW N, N = Len(s), N >= 1, Len(t) = N,
         \A i \in 1 .. N - 1 : t[i] = s[i], t[N].taskBase = s[N].taskBase,
         NEW T, NEW T2, Len(T) \in Nat, Len(T2) \in Nat, Stacked(s),
         s[N].taskBase <= Len(T), s[N].taskBase <= Len(T2), SameKinds(T, T2),
         Gathered(s, T), Gathers(t[N], Len(T2), T2)
  PROVE  Gathered(t, T2)
<1>1. N \in Nat
  BY LenProperties DEF FrameSeq
<1> SUFFICES ASSUME NEW i \in 1 .. N PROVE Gathers(t[i], TaskDepth(t, Len(T2), i), T2)
  BY DEF Gathered
<1>2. CASE i = N
  BY <1>2 DEF TaskDepth
<1>3. CASE i \in 1 .. N - 1
  <2>1. /\ s[i].taskBase \in Nat /\ s[i + 1].taskBase \in Nat
        /\ s[i + 1].taskBase <= Len(T) /\ s[i + 1].taskBase <= Len(T2)
    BY <1>3, BasesInOrder
  <2>2. Gathers(s[i], s[i + 1].taskBase, T)
    BY <1>1, <1>3 DEF Gathered, TaskDepth
  <2>3. Gathers(s[i], s[i + 1].taskBase, T2)
    BY <2>1, <2>2, GathersBelow
  <2>4. t[i + 1].taskBase = s[i + 1].taskBase
    BY <1>1, <1>3
  <2> QED BY <1>1, <1>3, <2>3, <2>4 DEF TaskDepth
<1> QED BY <1>1, <1>2, <1>3

\* A frame is pushed.
LEMMA GatherPush ==
  ASSUME NEW s \in FrameSeq, NEW t, Len(t) = Len(s) + 1,
         \A i \in 1 .. Len(s) : t[i] = s[i], NEW T,
         t[Len(s) + 1].taskBase = Len(T), Gathered(s, T), Gathers(t[Len(s) + 1], Len(T), T)
  PROVE  Gathered(t, T)
<1>1. Len(s) \in Nat
  BY LenProperties DEF FrameSeq
<1> SUFFICES ASSUME NEW i \in 1 .. Len(t) PROVE Gathers(t[i], TaskDepth(t, Len(T), i), T)
  BY DEF Gathered
<1>2. CASE i = Len(s) + 1
  BY <1>2 DEF TaskDepth
<1>3. CASE i \in 1 .. Len(s)
  <2>1. TaskDepth(t, Len(T), i) = TaskDepth(s, Len(T), i)
    BY <1>1, <1>3 DEF TaskDepth
  <2> QED BY <1>3, <2>1 DEF Gathered
<1> QED BY <1>1, <1>2, <1>3

\* The frame on top is gone and has left the task scopes as it got them.
LEMMA GatherPop ==
  ASSUME NEW s \in FrameSeq, NEW t, Len(s) >= 1, Len(t) = Len(s) - 1,
         \A i \in 1 .. Len(t) : t[i] = s[i], NEW T,
         s[Len(s)].taskBase = Len(T), Gathered(s, T)
  PROVE  Gathered(t, T)
<1>1. Len(s) \in Nat
  BY LenProperties DEF FrameSeq
<1> SUFFICES ASSUME NEW i \in 1 .. Len(t) PROVE Gathers(t[i], TaskDepth(t, Len(T), i), T)
  BY DEF Gathered
<1>2. i \in 1 .. Len(s) /\ i # Len(s) /\ i + 1 \in 1 .. Len(s)
  BY <1>1
<1>3. TaskDepth(t, Len(T), i) = TaskDepth(s, Len(T), i)
  <2>1. CASE i = Len(t)
    <3>1. i + 1 = Len(s)
      BY <1>1, <2>1
    <3> QED BY <1>2, <2>1, <3>1 DEF TaskDepth
  <2>2. CASE i # Len(t)
    <3>1. i + 1 \in 1 .. Len(t)
      BY <1>1, <2>2
    <3> QED BY <1>2, <2>2, <3>1 DEF TaskDepth
  <2> QED BY <2>1, <2>2
<1> QED BY <1>2, <1>3 DEF Gathered

----------------------------------------------------------------------------
(* Where handles are *)

LEMMA EmptyHasNone == \A h : ~Has(<<>>, h)
BY EmptySeq DEF Has

LEMMA HasOne == \A h : Has(<<h>>, h)
BY DEF Has

LEMMA HasConcat ==
  ASSUME NEW S, NEW a \in Seq(S), NEW b \in Seq(S), NEW h
  PROVE  Has(a \o b, h) <=> Has(a, h) \/ Has(b, h)
<1> DEFINE c == a \o b
<1>1. /\ Len(a) \in Nat /\ Len(b) \in Nat /\ Len(c) = Len(a) + Len(b)
      /\ \A j \in 1 .. Len(c) : c[j] = IF j <= Len(a) THEN a[j] ELSE b[j - Len(a)]
  BY ConcatProperties, LenProperties
<1> HIDE DEF c
<1>2. ASSUME Has(a, h) PROVE Has(c, h)
  <2>1. PICK j \in 1 .. Len(a) : a[j] = h
    BY <1>2 DEF Has
  <2>2. j \in 1 .. Len(c) /\ c[j] = h
    BY <1>1, <2>1
  <2> QED BY <2>2 DEF Has
<1>3. ASSUME Has(b, h) PROVE Has(c, h)
  <2>1. PICK j \in 1 .. Len(b) : b[j] = h
    BY <1>3 DEF Has
  <2> DEFINE k == Len(a) + j
  <2>2. k \in 1 .. Len(c) /\ ~(k <= Len(a)) /\ k - Len(a) = j
    BY <1>1, <2>1
  <2> HIDE DEF k
  <2>3. c[k] = h
    BY <1>1, <2>1, <2>2
  <2> QED BY <2>2, <2>3 DEF Has
<1>4. ASSUME Has(c, h) PROVE Has(a, h) \/ Has(b, h)
  <2>1. PICK j \in 1 .. Len(c) : c[j] = h
    BY <1>4 DEF Has
  <2>2. CASE j <= Len(a)
    <3>1. j \in 1 .. Len(a) /\ a[j] = h
      BY <1>1, <2>1, <2>2
    <3> QED BY <3>1 DEF Has
  <2>3. CASE ~(j <= Len(a))
    <3>1. j - Len(a) \in 1 .. Len(b) /\ b[j - Len(a)] = h
      BY <1>1, <2>1, <2>3
    <3> QED BY <3>1 DEF Has
  <2> QED BY <2>2, <2>3
<1> QED BY <1>2, <1>3, <1>4 DEF c

LEMMA HasTail ==
  ASSUME NEW S, NEW s \in Seq(S), s # <<>>, NEW h, Has(s, h), h # Head(s)
  PROVE  Has(Tail(s), h)
<1>1. PICK j \in 1 .. Len(s) : s[j] = h
  BY DEF Has
<1>2. Len(s) \in Nat /\ Head(s) = s[1] /\ Len(Tail(s)) = Len(s) - 1
      /\ \A i \in 1 .. Len(s) - 1 : Tail(s)[i] = s[i + 1]
  BY HeadTailProperties, LenProperties
<1>3. j - 1 \in 1 .. Len(s) - 1 /\ (j - 1) + 1 = j
  BY <1>1, <1>2
<1>4. Tail(s)[j - 1] = h
  BY <1>1, <1>2, <1>3
<1> QED BY <1>2, <1>3, <1>4 DEF Has

\* The frame on top is replaced, or a frame is pushed or gone.
LEMMA TopKeeps ==
  ASSUME NEW S, NEW s \in Seq(S), s # <<>>, NEW f \in S, NEW h
  PROVE  LET t == Append(Front(s), f)
         IN  /\ FramesKeep(s, h) => FramesKeep(t, h) \/ FrameKeeps(Last(s), h)
             /\ FrameKeeps(f, h) => FramesKeep(t, h)
<1> DEFINE t == Append(Front(s), f)
<1>1. /\ Len(s) \in Nat /\ Len(s) >= 1 /\ Last(s) = s[Len(s)] /\ Front(s) \in Seq(S)
      /\ Len(Front(s)) = Len(s) - 1 /\ \A i \in 1 .. Len(s) - 1 : Front(s)[i] = s[i]
  BY StackParts
<1>2. /\ Len(t) = Len(s) /\ t[Len(s)] = f
      /\ \A i \in 1 .. Len(s) - 1 : t[i] = s[i]
  BY <1>1, StackPush
<1> HIDE DEF t
<1>3. ASSUME FramesKeep(s, h) PROVE FramesKeep(t, h) \/ FrameKeeps(Last(s), h)
  <2>1. PICK i \in 1 .. Len(s) : FrameKeeps(s[i], h)
    BY <1>3 DEF FramesKeep
  <2>2. CASE i = Len(s)
    BY <1>1, <2>1, <2>2
  <2>3. CASE i # Len(s)
    <3>1. i \in 1 .. Len(s) - 1 /\ i \in 1 .. Len(t)
      BY <1>1, <1>2, <2>3
    <3>2. FrameKeeps(t[i], h)
      BY <1>2, <2>1, <3>1
    <3> QED BY <3>1, <3>2 DEF FramesKeep
  <2> QED BY <2>2, <2>3
<1>4. FrameKeeps(f, h) => FramesKeep(t, h)
  <2>1. Len(s) \in 1 .. Len(t)
    BY <1>1, <1>2
  <2> QED BY <1>2, <2>1 DEF FramesKeep
<1> QED BY <1>3, <1>4 DEF t

LEMMA PushKeeps ==
  ASSUME NEW S, NEW s \in Seq(S), NEW f \in S, NEW h, FramesKeep(s, h)
  PROVE  FramesKeep(Append(s, f), h)
<1>1. PICK i \in 1 .. Len(s) : FrameKeeps(s[i], h)
  BY DEF FramesKeep
<1> DEFINE t == Append(s, f)
<1>2. Len(s) \in Nat /\ Len(t) = Len(s) + 1 /\ t[i] = s[i]
  BY StackPush
<1> HIDE DEF t
<1>3. i \in 1 .. Len(t) /\ FrameKeeps(t[i], h)
  BY <1>1, <1>2
<1> QED BY <1>3 DEF FramesKeep, t

LEMMA PopKeeps ==
  ASSUME NEW S, NEW s \in Seq(S), s # <<>>, NEW h, FramesKeep(s, h)
  PROVE  FramesKeep(Front(s), h) \/ FrameKeeps(Last(s), h)
<1>1. PICK i \in 1 .. Len(s) : FrameKeeps(s[i], h)
  BY DEF FramesKeep
<1>2. /\ Len(s) \in Nat /\ Len(s) >= 1 /\ Last(s) = s[Len(s)]
      /\ Len(Front(s)) = Len(s) - 1 /\ \A j \in 1 .. Len(s) - 1 : Front(s)[j] = s[j]
  BY StackParts
<1>3. CASE i = Len(s)
  BY <1>1, <1>2, <1>3
<1>4. CASE i # Len(s)
  <2>1. i \in 1 .. Len(Front(s)) /\ Front(s)[i] = s[i]
    BY <1>2, <1>4
  <2>2. FrameKeeps(Front(s)[i], h)
    BY <1>1, <2>1
  <2> QED BY <2>1, <2>2 DEF FramesKeep
<1> QED BY <1>3, <1>4

\* A scope is pushed or popped, or adopts handles.
LEMMA PushScopeKeeps ==
  ASSUME NEW S, NEW T \in Seq(S), NEW sc \in S, NEW h
  PROVE  ScopesKeep(T, h) \/ Has(sc.hs, h) => ScopesKeep(Append(T, sc), h)
<1> DEFINE T2 == Append(T, sc)
<1>1. /\ Len(T) \in Nat /\ Len(T2) = Len(T) + 1 /\ T2[Len(T) + 1] = sc
      /\ \A j \in 1 .. Len(T) : T2[j] = T[j]
  BY StackPush
<1> HIDE DEF T2
<1>2. ASSUME ScopesKeep(T, h) PROVE ScopesKeep(T2, h)
  <2>1. PICK i \in 1 .. Len(T) : Has(T[i].hs, h)
    BY <1>2 DEF ScopesKeep
  <2>2. i \in 1 .. Len(T2) /\ Has(T2[i].hs, h)
    BY <1>1, <2>1
  <2> QED BY <2>2 DEF ScopesKeep
<1>3. ASSUME Has(sc.hs, h) PROVE ScopesKeep(T2, h)
  <2>1. Len(T) + 1 \in 1 .. Len(T2) /\ Has(T2[Len(T) + 1].hs, h)
    BY <1>1, <1>3
  <2> QED BY <2>1 DEF ScopesKeep
<1> QED BY <1>2, <1>3 DEF T2

LEMMA PopScopeKeeps ==
  ASSUME NEW S, NEW T \in Seq(S), NEW h, ScopesKeep(T, h)
  PROVE  ScopesKeep(Popped(T), h) \/ Has(TopOr(T, NoScope).hs, h)
<1>1. PICK i \in 1 .. Len(T) : Has(T[i].hs, h)
  BY DEF ScopesKeep
<1>2. T # <<>>
  BY <1>1, EmptySeq
<1>3. /\ Len(T) \in Nat /\ Len(T) >= 1 /\ Last(T) = T[Len(T)]
      /\ Len(Front(T)) = Len(T) - 1 /\ \A j \in 1 .. Len(T) - 1 : Front(T)[j] = T[j]
  BY <1>2, StackParts
<1>4. Popped(T) = Front(T) /\ TopOr(T, NoScope) = Last(T)
  BY <1>2 DEF Popped, TopOr
<1>5. CASE i = Len(T)
  BY <1>1, <1>3, <1>4, <1>5
<1>6. CASE i # Len(T)
  <2>1. i \in 1 .. Len(Front(T)) /\ Front(T)[i] = T[i]
    BY <1>3, <1>6
  <2>2. Has(Front(T)[i].hs, h)
    BY <1>1, <2>1
  <2> QED BY <1>4, <2>1, <2>2 DEF ScopesKeep
<1> QED BY <1>5, <1>6

LEMMA AdoptKeeps ==
  ASSUME NEW k, NEW T \in Seq(ScopeUpTo(k)), NEW S, 1 .. k \subseteq S, NEW hs \in Seq(S), NEW h
  PROVE  LET T2 == AdoptAll(T, hs)
         IN  /\ Len(T2) = Len(T) /\ SameKinds(T, T2)
             /\ \A j \in 1 .. Len(T) : T2[j].hs = T[j].hs \/ (j = ownerIdx(T) /\ T[j].nursery)
             /\ ScopesKeep(T, h) => ScopesKeep(T2, h)
             /\ ownerIdx(T) # 0 /\ Has(hs, h) => ScopesKeep(T2, h)
<1> DEFINE T2 == AdoptAll(T, hs)
           o == ownerIdx(T)
<1>1. o \in 0 .. Len(T) /\ Len(T) \in Nat /\ (o # 0 => T[o].nursery)
  BY OwnerIdx, LenProperties
<1>2. /\ Len(T2) = Len(T)
      /\ \A j \in 1 .. Len(T) : T2[j].nursery = T[j].nursery
  BY AdoptAllParts DEF ScopeUpTo
<1>3. \A j \in 1 .. Len(T) : T2[j].hs = IF j = o THEN T[j].hs \o hs ELSE T[j].hs
  <2> SUFFICES ASSUME NEW j \in 1 .. Len(T)
               PROVE  T2[j].hs = IF j = o THEN T[j].hs \o hs ELSE T[j].hs
    OBVIOUS
  <2>1. CASE o = 0
    BY <2>1 DEF AdoptAll
  <2>2. CASE o # 0
    <3> DEFINE new == [T[o] EXCEPT !.hs = @ \o hs]
    <3>1. T2 = [T EXCEPT ![o] = new]
      BY <2>2 DEF AdoptAll
    <3>2. o \in 1 .. Len(T) /\ DOMAIN T = 1 .. Len(T)
      BY <1>1, <2>2, LenProperties
    <3>3. new.hs = T[o].hs \o hs
      <4>1. T[o] \in ScopeUpTo(k)
        BY <3>2, ElementOfSeq
      <4> QED BY <4>1 DEF ScopeUpTo
    <3> HIDE DEF new, T2, o
    <3> QED BY <3>1, <3>2, <3>3
  <2> QED BY <2>1, <2>2
<1>4. \A j \in 1 .. Len(T) : T[j].hs \in Seq(S)
  <2> SUFFICES ASSUME NEW j \in 1 .. Len(T) PROVE T[j].hs \in Seq(S)
    OBVIOUS
  <2>1. T[j] \in ScopeUpTo(k)
    BY ElementOfSeq
  <2>2. T[j].hs \in Seq(1 .. k)
    BY <2>1 DEF ScopeUpTo, HandleList
  <2> QED BY <2>2, SeqMonotonic
<1> HIDE DEF T2, o
<1>5. ASSUME ScopesKeep(T, h) PROVE ScopesKeep(T2, h)
  <2>1. PICK i \in 1 .. Len(T) : Has(T[i].hs, h)
    BY <1>5 DEF ScopesKeep
  <2>2. Has(T2[i].hs, h)
    <3>1. CASE i = o
      BY <1>3, <1>4, <2>1, <3>1, HasConcat
    <3>2. CASE i # o
      BY <1>3, <2>1, <3>2
    <3> QED BY <3>1, <3>2
  <2> QED BY <1>2, <2>1, <2>2 DEF ScopesKeep
<1>6. ASSUME o # 0, Has(hs, h) PROVE ScopesKeep(T2, h)
  <2>1. o \in 1 .. Len(T)
    BY <1>1, <1>6
  <2>2. Has(T2[o].hs, h)
    BY <1>3, <1>4, <1>6, <2>1, HasConcat
  <2> QED BY <1>2, <2>1, <2>2 DEF ScopesKeep
<1>7. SameKinds(T, T2) /\ \A j \in 1 .. Len(T) : T2[j].hs = T[j].hs \/ (j = o /\ T[j].nursery)
  BY <1>1, <1>2, <1>3 DEF SameKinds
<1> QED BY <1>2, <1>5, <1>6, <1>7 DEF T2, o

----------------------------------------------------------------------------
(* The shapes of a step *)

\* Results only settle.
Settles == \A h \in Handle : result'[h] = "open" => result[h] = "open"

\* What was kept and is still open is kept.
Keeping(s, T, s2, T2) ==
  \A h \in Handle : result'[h] = "open" /\ (ScopesKeep(T, h) \/ FramesKeep(s, h)) =>
                      ScopesKeep(T2, h) \/ FramesKeep(s2, h)

\* A step of goroutine g that starts no task.
LEMMA JoinStep ==
  ASSUME IInv, JoinInv, NEW g \in Goroutine, NEW stack, NEW scopes,
         frames' = [frames EXCEPT ![g] = stack],
         taskScopes' = [taskScopes EXCEPT ![g] = scopes],
         UNCHANGED <<owned, spawner>>, Settles,
         \A k \in Goroutine : k # g => phase'[k] = phase[k],
         stack # <<>> => phase'[g] = "run",
         Gathered(stack, scopes), Plain(scopes),
         Keeping(frames[g], taskScopes[g], stack, scopes)
  PROVE  JoinInv'
<1>1. ASSUME NEW k \in Goroutine
      PROVE  /\ frames'[k] = IF k = g THEN stack ELSE frames[k]
             /\ taskScopes'[k] = IF k = g THEN scopes ELSE taskScopes[k]
  BY DEF IInv, FramesOK, ScopesOK
<1>2. ASSUME NEW k \in Goroutine
      PROVE  (/\ Gathered(frames[k], taskScopes[k])
              /\ Plain(taskScopes[k])
              /\ frames[k] # <<>> => phase[k] = "run")'
  <2>1. /\ Gathered(frames[k], taskScopes[k]) /\ Plain(taskScopes[k])
        /\ frames[k] # <<>> => phase[k] = "run"
    BY DEF JoinInv, ShapeInv
  <2>2. /\ Gathered(frames'[k], taskScopes'[k]) /\ Plain(taskScopes'[k])
        /\ frames'[k] # <<>> => phase'[k] = "run"
    BY <1>1, <2>1
  <2> QED BY <2>2 DEF Gathered, Plain, Gathers, Ready, Carrying, Tidy, Rooted, TaskDepth
<1>3. ASSUME NEW h \in owned', result'[h] = "open"
      PROVE  (ScopesKeep(taskScopes[spawner[h]], h) \/ FramesKeep(frames[spawner[h]], h))'
  <2>1. h \in owned /\ h \in Handle /\ spawner[h] \in Goroutine /\ spawner'[h] = spawner[h]
    BY DEF IInv, TasksOK
  <2>2. result[h] = "open"
    BY <1>3, <2>1 DEF Settles
  <2>3. ScopesKeep(taskScopes[spawner[h]], h) \/ FramesKeep(frames[spawner[h]], h)
    BY <2>1, <2>2 DEF JoinInv, KeptInv
  <2>4. ScopesKeep(taskScopes'[spawner[h]], h) \/ FramesKeep(frames'[spawner[h]], h)
    <3>1. CASE spawner[h] = g
      BY <1>1, <1>3, <2>1, <2>3, <3>1 DEF Keeping
    <3>2. CASE spawner[h] # g
      BY <1>1, <2>1, <2>3, <3>2
    <3> QED BY <3>1, <3>2
  <2>5. ScopesKeep(taskScopes'[spawner'[h]], h) \/ FramesKeep(frames'[spawner'[h]], h)
    BY <2>1, <2>4
  <2> QED BY <2>5 DEF ScopesKeep, FramesKeep, FrameKeeps, Joining, Has
<1> QED BY <1>2, <1>3 DEF JoinInv, ShapeInv, KeptInv

\* What a running goroutine's top frame and task scopes are.
LEMMA TopJoins ==
  ASSUME Joinable, IInv, LinkInv, BalanceInv, JoinInv, NEW g \in Goroutine, Running(g)
  PROVE  LET f == Top(g)
             T == taskScopes[g]
             n == Len(T)
         IN  /\ f \in FrameRec(spawned) /\ FrameSt(f) /\ f.goal \in Goal
             /\ f.open \in Int /\ Len(f.defers) \in Nat /\ f.taskBase \in Nat /\ n \in Nat
             /\ FrameOpen(f, n) /\ f.taskBase <= n
             /\ T \in Seq(ScopeUpTo(spawned)) /\ Plain(T) /\ Gathers(f, n, T)
<1> DEFINE s == frames[g]
           n == Len(taskScopes[g])
<1>1. /\ s \in FrameSeq /\ s # <<>> /\ taskScopes[g] \in Seq(ScopeUpTo(spawned))
  BY FramesTyped DEF Running
<1>2. Len(s) \in Nat /\ Len(s) >= 1 /\ Top(g) = s[Len(s)]
  BY <1>1, StackParts DEF Top, FrameSeq
<1>3. Gathers(Top(g), n, taskScopes[g])
  BY <1>2 DEF JoinInv, ShapeInv, Gathered, TaskDepth
<1>4. Plain(taskScopes[g])
  BY DEF JoinInv, ShapeInv
<1> HIDE DEF s, n
<1> QED BY <1>1, <1>3, <1>4, TopCounts DEF FrameOpen, n

\* Goroutine g replaces its top frame and changes the task scopes on top.
LEMMA JoinTop ==
  ASSUME Joinable, IInv, IInv', LinkInv, BalanceInv, JoinInv, NEW g \in Goroutine, Running(g),
         NEW f, NEW scopes, SetTop(g, f),
         taskScopes' = [taskScopes EXCEPT ![g] = scopes],
         UNCHANGED <<owned, spawner, phase, spawned>>, Settles,
         f.taskBase = Top(g).taskBase, f.taskBase <= Len(scopes),
         SameKinds(taskScopes[g], scopes), Gathers(f, Len(scopes), scopes), Plain(scopes),
         \A h \in Handle :
           result'[h] = "open" /\ (ScopesKeep(taskScopes[g], h) \/ FrameKeeps(Top(g), h)) =>
             ScopesKeep(scopes, h) \/ FrameKeeps(f, h)
  PROVE  JoinInv'
<1> DEFINE s == frames[g]
           t == Append(Front(frames[g]), f)
           T == taskScopes[g]
<1>1. /\ s \in FrameSeq /\ s # <<>> /\ Len(s) \in Nat /\ Len(s) >= 1
      /\ Top(g) = s[Len(s)] /\ Top(g) = Last(s) /\ Len(T) \in Nat /\ phase[g] = "run"
  <2>1. s \in FrameSeq /\ s # <<>> /\ Len(T) \in Nat /\ phase[g] = "run"
    BY FramesTyped DEF Running
  <2> QED BY <2>1, StackParts DEF FrameSeq, Top
<1>2. frames' = [frames EXCEPT ![g] = t] /\ frames'[g] = t /\ taskScopes'[g] = scopes
  BY DEF SetTop, IInv, FramesOK, ScopesOK
<1>3. Len(scopes) \in Nat
  <2>1. scopes \in Seq(ScopeUpTo(spawned))
    BY <1>2 DEF IInv, ScopesOK
  <2> QED BY <2>1, LenProperties
<1>4. f \in FrameRec(spawned)
  <2>1. t \in Seq(FrameUpTo(spawned))
    BY <1>2 DEF IInv, FramesOK
  <2>2. FrameUpTo(spawned) \subseteq FrameRec(spawned)
    BY DEF FrameUpTo
  <2>3. t # <<>> /\ Last(t) = f
    <3>1. Front(s) \in Seq(FrameRec(spawned)) /\ Len(Front(s)) = Len(s) - 1
      BY <1>1, StackParts DEF FrameSeq
    <3>2. Len(Append(Front(s), f)) = Len(Front(s)) + 1
      BY <3>1
    <3> QED BY <3>1, <3>2, LenProperties, EmptySeq DEF Last
  <2> HIDE DEF t
  <2> QED BY <2>1, <2>2, <2>3, StackTop
<1>5. /\ Len(t) = Len(s) /\ t[Len(s)] = f
      /\ \A i \in 1 .. Len(s) - 1 : t[i] = s[i]
  <2>1. /\ Front(s) \in Seq(FrameRec(spawned)) /\ Len(Front(s)) = Len(s) - 1
        /\ \A i \in 1 .. Len(s) - 1 : Front(s)[i] = s[i]
    BY <1>1, StackParts DEF FrameSeq
  <2> QED BY <1>1, <1>4, <2>1, StackPush
<1>6. Stacked(s) /\ s[Len(s)].taskBase <= Len(T) /\ Gathered(s, T)
  <2>1. Stacked(s)
    BY DEF BalanceInv, Balanced, Aligned, Joinable
  <2>2. Top(g).taskBase <= Len(T)
    BY TopJoins
  <2> QED BY <1>1, <2>1, <2>2 DEF JoinInv, ShapeInv
<1>7. /\ \A h \in Handle : /\ FramesKeep(s, h) => FramesKeep(t, h) \/ FrameKeeps(Last(s), h)
                           /\ FrameKeeps(f, h) => FramesKeep(t, h)
  BY <1>1, <1>4, TopKeeps DEF FrameSeq
<1>8. f.taskBase <= Len(scopes) /\ f.taskBase = s[Len(s)].taskBase
  BY <1>1
<1>9. SameKinds(T, scopes) /\ Gathers(f, Len(scopes), scopes)
  OBVIOUS
<1>0. Settles /\ Plain(scopes) /\ UNCHANGED <<owned, spawner, phase>>
      /\ taskScopes' = [taskScopes EXCEPT ![g] = scopes]
  OBVIOUS
<1>10. Keeping(s, T, t, scopes)
  <2> SUFFICES ASSUME NEW h \in Handle, result'[h] = "open", ScopesKeep(T, h) \/ FramesKeep(s, h)
               PROVE  ScopesKeep(scopes, h) \/ FramesKeep(t, h)
    BY DEF Keeping
  <2> HIDE DEF s, t, T
  <2>1. ScopesKeep(T, h) \/ FrameKeeps(Top(g), h) => ScopesKeep(scopes, h) \/ FrameKeeps(f, h)
    BY DEF T
  <2> QED BY <1>1, <1>7, <2>1
<1> HIDE DEF s, t, T
<1>11. Gathered(t, scopes)
  BY <1>1, <1>3, <1>5, <1>6, <1>8, <1>9, GatherTop
<1> QED BY ONLY IInv, JoinInv, g \in Goroutine, <1>0, <1>1, <1>2, <1>10, <1>11, JoinStep DEF s, T

\* The same, with all scopes as they are.
LEMMA JoinFrame ==
  ASSUME Joinable, IInv, IInv', LinkInv, BalanceInv, JoinInv, NEW g \in Goroutine, Running(g),
         NEW f, SetTop(g, f), UNCHANGED <<taskScopes, owned, spawner, phase, spawned>>, Settles,
         f.taskBase = Top(g).taskBase, Gathers(f, Len(taskScopes[g]), taskScopes[g]),
         \A h \in Handle : result'[h] = "open" /\ FrameKeeps(Top(g), h) => FrameKeeps(f, h)
  PROVE  JoinInv'
<1>1. taskScopes' = [taskScopes EXCEPT ![g] = taskScopes[g]]
  BY DEF IInv, ScopesOK
<1>2. Top(g).taskBase <= Len(taskScopes[g]) /\ Plain(taskScopes[g])
  BY TopJoins
<1>3. SameKinds(taskScopes[g], taskScopes[g])
  BY DEF SameKinds
<1> QED BY <1>1, <1>2, <1>3, JoinTop

----------------------------------------------------------------------------
(* Steps that change the top frame only *)

\* The frame goes on with the scopes it has, or begins to unwind.
Resumes(f, new) ==
  /\ new.kind = f.kind /\ new.arg = f.arg /\ new.taskBase = f.taskBase
  /\ new.goal = f.goal /\ new.open = f.open /\ new.carry = f.carry
  /\ f.st \notin {"enter", "unwind"} /\ new.st \notin {"enter", "tail"}
  /\ new.goal = "pop" => new.cur # "recur"
  /\ \/ new.st = "unwind"
     \/ /\ new.st = "defers" <=> f.st = "defers"
        /\ new.kind = "fn" => Len(new.defers) = Len(f.defers)

LEMMA Resumed ==
  ASSUME NEW f, NEW new, NEW n, NEW T, Gathers(f, n, T), Resumes(f, new)
  PROVE  Gathers(new, n, T) /\ new.carry = <<>> /\ f.carry = <<>>
<1>1. f.carry = <<>> /\ new.carry = <<>>
  BY DEF Gathers, Ready, Carrying, Resumes
<1>2. Ready(new, n)
  BY <1>1 DEF Ready, Resumes
<1>3. Rooted(new, n, T)
  BY DEF Gathers, Rooted, Resumes
<1>4. Tidy(new)
  <2>1. /\ new.goal = "pop" => new.cur # "recur"
        /\ new.goal = "recur" => new.open >= 2
        /\ "recur" \notin Ops => new.goal # "recur" /\ (new.st = "tail" => new.cur # "recur")
    BY DEF Gathers, Tidy, Resumes
  <2>2. CASE new.st = "unwind"
    BY <2>1, <2>2 DEF Tidy
  <2>3. CASE new.st # "unwind"
    <3>1. ASSUME new.kind = "fn", new.goal # "unwind"
          PROVE  /\ new.open >= 1
                 /\ Len(new.defers) + (IF new.st = "defers" THEN 1 ELSE 0) = new.open
      <4>1. f.kind = "fn" /\ f.st \notin {"enter", "unwind"} /\ f.goal # "unwind"
        BY <3>1 DEF Resumes
      <4>2. f.open >= 1 /\ Len(f.defers) + (IF f.st = "defers" THEN 1 ELSE 0) = f.open
        BY <4>1 DEF Gathers, Tidy
      <4>3. Len(new.defers) = Len(f.defers) /\ new.open = f.open
            /\ (new.st = "defers" <=> f.st = "defers")
        BY <2>3, <3>1 DEF Resumes
      <4> QED BY <4>2, <4>3
    <3> QED BY <2>1, <3>1 DEF Tidy
  <2> QED BY <2>2, <2>3
<1> QED BY <1>1, <1>2, <1>3, <1>4 DEF Gathers

LEMMA JoinResumes ==
  ASSUME Joinable, IInv, IInv', LinkInv, BalanceInv, JoinInv, NEW g \in Goroutine, Running(g),
         NEW f, SetTop(g, f), UNCHANGED <<taskScopes, owned, spawner, phase, spawned>>, Settles,
         Resumes(Top(g), f),
         \A h \in Handle : result'[h] = "open" /\ Has(Joining(Top(g)), h) => Has(Joining(f), h)
  PROVE  JoinInv'
<1>1. Gathers(f, Len(taskScopes[g]), taskScopes[g]) /\ Top(g).carry = <<>>
  BY TopJoins, Resumed
<1>2. \A h \in Handle : result'[h] = "open" /\ FrameKeeps(Top(g), h) => FrameKeeps(f, h)
  BY <1>1, EmptyHasNone DEF FrameKeeps
<1>3. f.taskBase = Top(g).taskBase
  BY DEF Resumes
<1> QED BY <1>1, <1>2, <1>3, JoinFrame

\* Instructions and the end of an await: the frame joins nothing.
LEMMA JoinQuiet ==
  ASSUME Joinable, IInv, IInv', LinkInv, BalanceInv, JoinInv, NEW g \in Goroutine, Running(g),
         NEW f, SetTop(g, f), UNCHANGED <<taskScopes, owned, spawner, phase, spawned, result>>,
         Resumes(Top(g), f), Top(g).goal = "none"
  PROVE  JoinInv'
<1>1. \A h \in Handle : ~Has(Joining(Top(g)), h)
  BY EmptyHasNone DEF Joining
<1>2. Settles
  BY DEF Settles
<1> QED BY <1>1, <1>2, JoinResumes

LEMMA DeferJoin ==
  ASSUME Joinable, IInv, IInv', LinkInv, BalanceInv, JoinInv,
         NEW g \in Goroutine, NEW mode \in Mode, Defer(g, mode)
  PROVE  JoinInv'
<1> DEFINE f == Top(g)
           scopes == IF f.defers = <<>> THEN << <<>> >> ELSE f.defers
           defers == Append(Front(scopes), Append(Last(scopes), mode))
           new == [f EXCEPT !.defers = defers]
<1>1. /\ Running(g) /\ f.st = "run" /\ SetTop(g, new)
      /\ UNCHANGED <<taskScopes, owned, spawner, phase, spawned, result>>
  BY DEF Defer, Instr, Step, stackVars, taskVars
<1>2. /\ f \in FrameRec(spawned) /\ f.defers \in Seq(Seq(Mode)) /\ f.goal = "none"
      /\ Tidy(f) /\ f.open \in Int
  BY <1>1, TopJoins DEF FrameRec, FrameSt, Gathers
<1>3. f.kind = "fn" => Len(defers) = Len(f.defers)
  <2> SUFFICES ASSUME f.kind = "fn" PROVE Len(defers) = Len(f.defers)
    OBVIOUS
  <2>1. Len(f.defers) + 0 = f.open /\ f.open >= 1
    BY <1>1, <1>2 DEF Tidy
  <2>2. f.defers # <<>>
    BY <1>2, <2>1, EmptySeq
  <2>3. scopes = f.defers
    BY <2>2
  <2> HIDE DEF f, scopes
  <2>4. /\ Front(f.defers) \in Seq(Seq(Mode)) /\ Last(f.defers) \in Seq(Mode)
        /\ Len(Front(f.defers)) = Len(f.defers) - 1 /\ Len(f.defers) \in Nat
    BY <1>2, <2>2, StackParts
  <2>5. Append(Last(f.defers), mode) \in Seq(Mode)
    BY <2>4
  <2>6. Len(Append(Front(f.defers), Append(Last(f.defers), mode))) = Len(Front(f.defers)) + 1
    BY <2>4, <2>5, StackPush
  <2> QED BY <2>3, <2>4, <2>6
<1> HIDE DEF defers
<1>4. Resumes(f, new)
  BY <1>1, <1>2, <1>3 DEF FrameRec, Resumes
<1> HIDE DEF new
<1> QED BY <1>1, <1>2, <1>4, JoinQuiet

LEMMA QuietJoin ==
  ASSUME Joinable, IInv, IInv', LinkInv, BalanceInv, JoinInv, NEW g \in Goroutine,
         Spawn(g) \/ \E h \in Handle : Await(g, h)
  PROVE  JoinInv'
<1> DEFINE f == Top(g)
<1>1. Running(g) /\ f.st = "run" /\ UNCHANGED <<taskScopes, owned, spawner, phase, spawned, result>>
  BY DEF Spawn, Await, Instr, Step, stackVars, taskVars
<1>2. f \in FrameRec(spawned) /\ f.goal = "none"
  BY <1>1, TopJoins DEF FrameSt
<1>3. CASE Spawn(g)
  <2> DEFINE new == [f EXCEPT !.st = "spawn"]
  <2>1. SetTop(g, new)
    BY <1>3 DEF Spawn
  <2>2. Resumes(f, new)
    BY <1>1, <1>2 DEF FrameRec, Resumes
  <2> HIDE DEF new
  <2> QED BY <1>1, <1>2, <2>1, <2>2, JoinQuiet
<1>4. ASSUME NEW h \in Handle, Await(g, h) PROVE JoinInv'
  <2> PICK ms : SetTop(g, [f EXCEPT !.st = "await", !.todo = <<h>>, !.timeout = ms])
    BY <1>4 DEF Await
  <2> DEFINE todo == <<h>>
             new == [f EXCEPT !.st = "await", !.todo = todo, !.timeout = ms]
  <2>1. SetTop(g, new)
    OBVIOUS
  <2> HIDE DEF todo
  <2>2. Resumes(f, new)
    BY <1>1, <1>2 DEF FrameRec, Resumes
  <2> HIDE DEF new
  <2> QED BY <1>1, <1>2, <2>1, <2>2, JoinQuiet
<1> QED BY <1>3, <1>4

LEMMA UnwindJoin ==
  ASSUME Joinable, IInv, IInv', LinkInv, BalanceInv, JoinInv, NEW g \in Goroutine,
         Throw(g) \/ CallFails(g) \/ Return(g) \/ AwaitReturns(g) \/ AwaitTimesOut(g)
  PROVE  JoinInv'
<1> DEFINE f == Top(g)
<1>1. /\ Running(g) /\ f.st \in {"run", "await"}
      /\ UNCHANGED <<taskScopes, owned, spawner, phase, spawned, result>>
  BY DEF Throw, CallFails, Return, AwaitReturns, AwaitTimesOut, StartUnwind, Instr, Step,
     stackVars, taskVars
<1>2. f \in FrameRec(spawned) /\ f.goal = "none"
  BY <1>1, TopJoins DEF FrameSt
<1>3. CASE \E cur : SetTop(g, [f EXCEPT !.st = "unwind", !.cur = cur])
  <2> PICK cur : SetTop(g, [f EXCEPT !.st = "unwind", !.cur = cur])
    BY <1>3
  <2> DEFINE new == [f EXCEPT !.st = "unwind", !.cur = cur]
  <2>1. Resumes(f, new)
    BY <1>1, <1>2 DEF FrameRec, Resumes
  <2> HIDE DEF new
  <2> QED BY <1>1, <1>2, <2>1, JoinQuiet DEF new
<1>4. CASE \E st \in {"run", "unwind"} : \E cur :
             SetTop(g, [f EXCEPT !.todo = <<>>, !.timeout = 0, !.st = st, !.cur = cur])
  <2> PICK st \in {"run", "unwind"} :
             \E cur : SetTop(g, [f EXCEPT !.todo = <<>>, !.timeout = 0, !.st = st, !.cur = cur])
    BY <1>4
  <2> PICK cur : SetTop(g, [f EXCEPT !.todo = <<>>, !.timeout = 0, !.st = st, !.cur = cur])
    OBVIOUS
  <2> DEFINE new == [f EXCEPT !.todo = <<>>, !.timeout = 0, !.st = st, !.cur = cur]
  <2>1. Resumes(f, new)
    BY <1>1, <1>2 DEF FrameRec, Resumes
  <2> HIDE DEF new
  <2> QED BY <1>1, <1>2, <2>1, JoinQuiet DEF new
<1>5. CASE Throw(g) \/ CallFails(g) \/ Return(g)
  <2>1. \E cur : StartUnwind(g, cur)
    BY <1>5 DEF Throw, CallFails, Return
  <2> QED BY <1>3, <2>1 DEF StartUnwind
<1>6. CASE AwaitReturns(g)
  <2> DEFINE r == result[Head(f.todo)]
             st == IF IsError(r) THEN "unwind" ELSE "run"
             cur == IF IsError(r) THEN r ELSE "val"
  <2>1. SetTop(g, [f EXCEPT !.todo = <<>>, !.timeout = 0, !.st = st, !.cur = cur])
    BY <1>6 DEF AwaitReturns
  <2>2. st \in {"run", "unwind"}
    OBVIOUS
  <2> HIDE DEF st, cur, f
  <2> QED BY <1>4, <2>1, <2>2
<1>7. CASE AwaitTimesOut(g)
  BY <1>4, <1>7 DEF AwaitTimesOut
<1> QED BY <1>5, <1>6, <1>7

\* A handle leaves the list that a frame joins when it has a result.
LEMMA JoinHandleJoin ==
  ASSUME Joinable, IInv, IInv', LinkInv, BalanceInv, JoinInv, NEW g \in Goroutine, JoinHandle(g)
  PROVE  JoinInv'
<1> DEFINE f == Top(g)
           r == result[Head(f.todo)]
           rest == Tail(f.todo)
           new == JoinedOne(f, r)
<1>1. /\ Running(g) /\ f.st = "join" /\ f.todo # <<>> /\ r # "open" /\ SetTop(g, new)
      /\ UNCHANGED <<taskScopes, owned, spawner, phase, spawned>> /\ result' = result
  BY DEF JoinHandle, Done, Step, stackVars, taskVars
<1>2. f \in FrameRec(spawned) /\ f.todo \in HandleList(spawned) /\ f.goal # "none" /\ Tidy(f)
  BY <1>1, TopJoins DEF FrameRec, FrameSt, Gathers
<1>3. \/ new = [f EXCEPT !.todo = rest, !.doomed = rest, !.st = "cancel", !.cur = r]
         /\ r # "recur"
      \/ new = [f EXCEPT !.todo = rest]
  BY DEF JoinedOne, IsError
<1>4. f.goal = "pop" => f.cur # "recur"
  BY <1>2 DEF Tidy
<1> HIDE DEF rest, new, r
<1>5. Resumes(f, new) /\ new.todo = rest
  <2>1. CASE new = [f EXCEPT !.todo = rest, !.doomed = rest, !.st = "cancel", !.cur = r]
             /\ r # "recur"
    BY <1>1, <1>2, <2>1 DEF FrameRec, Resumes
  <2>2. CASE new = [f EXCEPT !.todo = rest]
    BY <1>1, <1>2, <1>4, <2>2 DEF FrameRec, Resumes
  <2> QED BY <1>3, <2>1, <2>2
<1>6. Joining(f) = f.todo /\ Joining(new) = rest
  BY <1>2, <1>5 DEF Joining, Resumes
<1> HIDE DEF f
<1>7. ASSUME NEW h \in Handle, result'[h] = "open", Has(f.todo, h) PROVE Has(rest, h)
  <2>1. h # Head(f.todo)
    BY <1>1, <1>7 DEF r
  <2> QED BY <1>1, <1>2, <1>7, <2>1, HasTail DEF HandleList, rest
<1>8. Settles
  BY <1>1 DEF Settles
<1> QED BY <1>1, <1>5, <1>6, <1>7, <1>8, JoinResumes DEF f

\* VMTaskHandle.Complete leaves what has a result as it is.
LEMMA CompleteOpens ==
  ASSUME IInv, NEW k, NEW r, r # "open", Complete(k, r)
  PROVE  Settles
<1> SUFFICES ASSUME NEW h \in Handle, result'[h] = "open" PROVE result[h] = "open"
  BY DEF Settles
<1>1. result' = [result EXCEPT ![k] = IF result[k] = "open" THEN r ELSE result[k]]
      /\ h \in DOMAIN result
  BY DEF Complete, IInv, TasksOK
<1> QED BY <1>1

LEMMA CancelSiblingJoin ==
  ASSUME Joinable, IInv, IInv', LinkInv, BalanceInv, JoinInv, NEW g \in Goroutine, CancelSibling(g)
  PROVE  JoinInv'
<1> DEFINE f == Top(g)
           rest == Tail(f.doomed)
<1>1. /\ Running(g) /\ f.st = "cancel"
      /\ UNCHANGED <<taskScopes, owned, spawner, phase, spawned>>
  BY DEF CancelSibling, Step, stackVars
<1>2. /\ f \in FrameRec(spawned) /\ f.goal # "none" /\ (f.goal = "pop" => f.cur # "recur")
  BY <1>1, TopJoins DEF FrameSt, Gathers, Tidy
<1>3. Settles
  <2>1. CASE result' = result
    BY <2>1 DEF Settles
  <2>2. CASE Complete(Head(f.doomed), "cancel")
    BY <2>2, CompleteOpens
  <2> QED BY <2>1, <2>2 DEF CancelSibling
<1>4. PICK new : /\ SetTop(g, new)
                 /\ new = [f EXCEPT !.st = "join"] \/ new = [f EXCEPT !.doomed = rest]
  BY DEF CancelSibling
<1> HIDE DEF rest
<1>5. Resumes(f, new) /\ new.todo = f.todo
  <2>1. CASE new = [f EXCEPT !.st = "join"]
    BY <1>1, <1>2, <2>1 DEF FrameRec, Resumes
  <2>2. CASE new = [f EXCEPT !.doomed = rest]
    BY <1>1, <1>2, <2>2 DEF FrameRec, Resumes
  <2> QED BY <1>4, <2>1, <2>2
<1>6. Joining(new) = Joining(f)
  BY <1>5 DEF Joining, Resumes
<1> QED BY <1>1, <1>3, <1>4, <1>5, <1>6, JoinResumes

\* A frame that has nothing to join, and carries nothing, leaves a scope.
LEMMA JoinLeaves ==
  ASSUME Joinable, IInv, IInv', LinkInv, BalanceInv, JoinInv, NEW g \in Goroutine, Running(g),
         NEW f, SetTop(g, f), UNCHANGED <<taskScopes, owned, spawner, phase, spawned, result>>,
         Top(g).st \notin {"enter", "unwind"}, Top(g).todo = <<>>,
         f.arg = Top(g).arg, f.taskBase = Top(g).taskBase, f.carry = Top(g).carry,
         f.st # "enter", Tidy(f)
  PROVE  JoinInv'
<1>1. Gathers(Top(g), Len(taskScopes[g]), taskScopes[g])
  BY TopJoins
<1>2. Top(g).carry = <<>>
  BY <1>1 DEF Gathers, Ready, Carrying
<1>3. Ready(f, Len(taskScopes[g]))
  BY <1>2 DEF Ready
<1>4. Rooted(f, Len(taskScopes[g]), taskScopes[g])
  BY <1>1 DEF Gathers, Rooted
<1>5. Gathers(f, Len(taskScopes[g]), taskScopes[g])
  BY <1>3, <1>4 DEF Gathers
<1>6. \A h : ~FrameKeeps(Top(g), h)
  BY <1>2, EmptyHasNone DEF FrameKeeps, Joining
<1>7. Settles
  BY DEF Settles
<1> QED BY <1>5, <1>6, <1>7, JoinFrame

LEMMA JoinedJoin ==
  ASSUME Joinable, IInv, IInv', LinkInv, BalanceInv, JoinInv, NEW g \in Goroutine, Joined(g)
  PROVE  JoinInv'
<1> DEFINE f == Top(g)
           entries == TopOr(f.defers, <<>>)
           defers == Popped(f.defers)
           new == [f EXCEPT !.st = "defers", !.entries = entries, !.defers = defers]
<1>1. /\ Running(g) /\ f.st = "join" /\ f.todo = <<>> /\ SetTop(g, new)
      /\ UNCHANGED <<taskScopes, owned, spawner, phase, spawned, result>>
  BY DEF Joined, Step, stackVars, taskVars
<1>2. /\ f \in FrameRec(spawned) /\ f.defers \in Seq(Seq(Mode)) /\ Tidy(f) /\ f.open \in Int
  BY <1>1, TopJoins DEF FrameRec, Gathers
<1>3. Len(f.defers) \in Nat /\ (Len(f.defers) > 0 => Len(defers) = Len(f.defers) - 1)
  <2> HIDE DEF f
  <2> QED BY <1>2, PoppedParts
<1> HIDE DEF entries, defers
<1>4. /\ new.st = "defers" /\ new.kind = f.kind /\ new.arg = f.arg /\ new.goal = f.goal
      /\ new.taskBase = f.taskBase /\ new.carry = f.carry /\ new.cur = f.cur
      /\ new.open = f.open /\ new.defers = defers
  BY <1>2 DEF FrameRec
<1> HIDE DEF new, f
<1>5. ASSUME f.kind = "fn", f.goal # "unwind"
      PROVE  f.open >= 1 /\ Len(defers) + 1 = f.open
  <2>1. f.open >= 1 /\ Len(f.defers) + 0 = f.open
    BY <1>1, <1>2, <1>5 DEF Tidy
  <2> QED BY <1>2, <1>3, <2>1
<1>6. Tidy(new)
  <2>1. /\ new.goal = "pop" => new.cur # "recur"
        /\ new.goal = "recur" => new.open >= 2
        /\ "recur" \notin Ops => new.goal # "recur"
    BY <1>2, <1>4 DEF Tidy
  <2> QED BY <1>4, <1>5, <2>1 DEF Tidy
<1> QED BY <1>1, <1>4, <1>6, JoinLeaves DEF f

LEMMA ScopeUnwoundJoin ==
  ASSUME Joinable, IInv, IInv', LinkInv, BalanceInv, JoinInv, NEW g \in Goroutine, ScopeUnwound(g)
  PROVE  JoinInv'
<1> DEFINE f == Top(g)
           new == [f EXCEPT !.st = "unwind", !.goal = "none"]
<1>1. /\ Running(g) /\ f.st = "defers" /\ SetTop(g, new)
      /\ UNCHANGED <<taskScopes, owned, spawner, phase, spawned, result>>
  BY DEF ScopeUnwound, Step, stackVars, taskVars
<1>2. f \in FrameRec(spawned) /\ f.todo = <<>>
  BY <1>1, TopJoins DEF FrameSt
<1>3. /\ new.st = "unwind" /\ new.goal = "none" /\ new.arg = f.arg
      /\ new.taskBase = f.taskBase /\ new.carry = f.carry
  BY <1>2 DEF FrameRec
<1> HIDE DEF new
<1>4. Tidy(new)
  BY <1>3 DEF Tidy
<1> QED BY <1>1, <1>2, <1>3, <1>4, JoinLeaves

LEMMA ScopeLeftJoin ==
  ASSUME Joinable, IInv, IInv', LinkInv, BalanceInv, JoinInv, NEW g \in Goroutine, ScopeLeft(g)
  PROVE  JoinInv'
<1> DEFINE f == Top(g)
           open == f.open - 1
           env == f.env - 1
           less == [f EXCEPT !.open = open, !.env = env]
<1>1. /\ Running(g) /\ f.st = "defers" /\ f.goal = "pop"
      /\ UNCHANGED <<taskScopes, owned, spawner, phase, spawned, result>>
  BY DEF ScopeLeft, Step, taskVars
<1>2. /\ f \in FrameRec(spawned) /\ f.todo = <<>> /\ f.open \in Int /\ Len(f.defers) \in Nat
      /\ Tidy(f)
  BY <1>1, TopJoins DEF FrameSt, Gathers
<1>3. PICK new \in AfterPop(less, f.cur) : SetTop(g, new)
  BY DEF ScopeLeft
<1>4. less.kind = f.kind /\ less.open = open
  BY <1>2 DEF FrameRec
<1>5. PICK st \in {"unwind", "tail", "run"}, cur \in {"val", f.cur} :
        /\ new = [less EXCEPT !.goal = "none", !.cur = cur, !.st = st]
        /\ f.kind = "fn" /\ st # "unwind" => open # 0
  <2> HIDE DEF less, open, f
  <2>1. CASE new = [less EXCEPT !.goal = "none", !.cur = f.cur,
                                !.st = IF less.open = 0 THEN "unwind" ELSE "tail"]
    <3>1. CASE less.open = 0
      BY <2>1, <3>1
    <3>2. CASE less.open # 0
      BY <1>4, <2>1, <3>2
    <3> QED BY <3>1, <3>2
  <2>2. CASE new = [less EXCEPT !.goal = "none", !.cur = "val", !.st = "run"]
             /\ ~(less.kind = "fn" /\ less.open = 0)
    BY <1>4, <2>2
  <2> QED BY <1>3, <2>1, <2>2 DEF AfterPop
<1> HIDE DEF open, env
<1>6. /\ new.st = st /\ new.goal = "none" /\ new.open = open /\ new.kind = f.kind
      /\ new.arg = f.arg /\ new.cur = cur
      /\ new.taskBase = f.taskBase /\ new.carry = f.carry /\ new.defers = f.defers
  BY <1>2, <1>5 DEF FrameRec
<1> HIDE DEF f, less
<1>7. cur # "recur"
  BY <1>1, <1>2 DEF Tidy
<1>8. ASSUME f.kind = "fn", st # "unwind"
      PROVE  open >= 1 /\ Len(f.defers) = open
  <2>1. f.open >= 1 /\ Len(f.defers) + 1 = f.open
    BY <1>1, <1>2, <1>8 DEF Tidy
  <2>2. open # 0
    BY <1>5, <1>8
  <2> QED BY <1>2, <2>1, <2>2 DEF open
<1>9. Len(new.defers) + 0 = Len(f.defers)
  BY <1>2, <1>6
<1>10. Tidy(new)
  BY <1>5, <1>6, <1>7, <1>8, <1>9 DEF Tidy
<1> QED BY <1>1, <1>2, <1>3, <1>5, <1>6, <1>10, JoinLeaves DEF f

----------------------------------------------------------------------------
(* Leaving scopes *)

\* The scopes below the top are those of before.
LEMMA PoppedJoins ==
  ASSUME NEW S, NEW T \in Seq(S), Plain(T)
  PROVE  /\ SameKinds(T, Popped(T)) /\ Plain(Popped(T))
         /\ TopOr(T, NoScope).hs # <<>> => Len(T) > 0 /\ T[Len(T)].nursery
<1>1. /\ Len(T) \in Nat /\ Len(Popped(T)) \in Nat
      /\ \A j \in 1 .. Len(Popped(T)) : j \in 1 .. Len(T) /\ Popped(T)[j] = T[j]
  BY PoppedParts
<1>2. SameKinds(T, Popped(T)) /\ Plain(Popped(T))
  BY <1>1 DEF SameKinds, Plain
<1>3. ASSUME TopOr(T, NoScope).hs # <<>> PROVE Len(T) > 0 /\ T[Len(T)].nursery
  <2>1. T # <<>>
    BY <1>3 DEF TopOr, NoScope
  <2>2. Len(T) \in 1 .. Len(T) /\ TopOr(T, NoScope) = T[Len(T)]
    BY <1>1, <2>1, EmptySeq DEF TopOr, Last
  <2> QED BY <1>1, <1>3, <2>2 DEF Plain
<1> QED BY <1>2, <1>3

\* The handles of the scope are about to be joined.
LEMMA BeginJoinJoin ==
  ASSUME Joinable, IInv, IInv', LinkInv, BalanceInv, JoinInv, NEW g \in Goroutine, Running(g),
         NEW goal \in {"pop", "unwind"}, NEW cur, BeginJoin(g, Top(g), goal, cur),
         goal = "pop" => /\ Top(g).st \in {"run", "tail"} /\ Top(g).open > 0
                         /\ cur # "recur",
         goal = "unwind" => Top(g).st = "unwind" /\ Len(taskScopes[g]) > Top(g).taskBase,
         UNCHANGED taskVars
  PROVE  JoinInv'
<1> DEFINE f == Top(g)
           T == taskScopes[g]
           hs == TopOr(T, NoScope).hs
           scopes == Popped(T)
           n == Len(T)
           new == [f EXCEPT !.st = "join", !.goal = goal, !.cur = cur, !.todo = hs]
<1>1. /\ SetTop(g, new) /\ taskScopes' = [taskScopes EXCEPT ![g] = scopes]
      /\ UNCHANGED <<owned, spawner, phase, spawned>> /\ result' = result
  BY DEF BeginJoin, taskVars
<1>2. /\ f \in FrameRec(spawned) /\ f.open \in Int /\ Len(f.defers) \in Nat
      /\ f.taskBase \in Nat /\ n \in Nat /\ FrameSt(f) /\ FrameOpen(f, n)
      /\ T \in Seq(ScopeUpTo(spawned)) /\ Plain(T) /\ Gathers(f, n, T)
  BY TopJoins
<1>3. /\ SameKinds(T, scopes) /\ Plain(scopes) /\ (n > 0 => Len(scopes) = n - 1)
  <2> HIDE DEF T
  <2> QED BY <1>2, PoppedJoins, PoppedParts
<1>4. /\ new.st = "join" /\ new.goal = goal /\ new.open = f.open /\ new.kind = f.kind
      /\ new.arg = f.arg /\ new.cur = cur /\ new.todo = hs
      /\ new.taskBase = f.taskBase /\ new.defers = f.defers /\ new.carry = f.carry
  <2> HIDE DEF hs
  <2> QED BY <1>2 DEF FrameRec
<1>5. /\ goal = "pop" => f.st \in {"run", "tail"} /\ f.open > 0 /\ cur # "recur"
      /\ goal = "unwind" => f.st = "unwind" /\ n > f.taskBase
  OBVIOUS
<1>6. ASSUME NEW h, ScopesKeep(T, h) PROVE ScopesKeep(scopes, h) \/ Has(hs, h)
  <2> HIDE DEF T
  <2> QED BY <1>2, <1>6, PopScopeKeeps
<1> HIDE DEF new, f, n, scopes, hs, T
<1>7. f.goal = "none"
  BY <1>2, <1>5 DEF FrameSt
<1>8. n > f.taskBase /\ n > 0
  <2>1. CASE goal = "pop"
    <3>1. n + 0 >= f.taskBase + f.open
      BY <1>5, <1>7, <2>1, <1>2 DEF FrameOpen
    <3> QED BY <1>2, <1>5, <2>1, <3>1
  <2>2. CASE goal = "unwind"
    BY <1>2, <1>5, <2>2
  <2> QED BY <2>1, <2>2
<1>9. Len(scopes) = n - 1 /\ f.taskBase <= n - 1 /\ n - 1 \in Nat /\ n - 1 <= n
  BY <1>2, <1>3, <1>8
<1>10. f.carry = <<>>
  <2>1. n # f.taskBase
    BY <1>2, <1>8
  <2> QED BY <2>1, <1>2 DEF Gathers, Ready, Carrying
<1>11. Tidy(new)
  <2>1. CASE goal = "unwind"
    <3>1. "recur" \notin Ops => new.goal # "recur"
      BY <1>4, <2>1
    <3> QED BY <1>4, <2>1, <3>1 DEF Tidy
  <2>2. CASE goal = "pop"
    <3>1. ASSUME f.kind = "fn" PROVE f.open >= 1 /\ Len(f.defers) + 0 = f.open
      BY <1>2, <1>5, <1>7, <2>2, <3>1 DEF Gathers, Tidy
    <3> QED BY <1>4, <1>5, <2>2, <3>1 DEF Tidy
  <2> QED BY <2>1, <2>2
<1>12. Ready(new, Len(scopes))
  BY <1>4, <1>10 DEF Ready
<1>13. Rooted(new, Len(scopes), scopes)
  <2>1. \A j \in f.taskBase + 1 .. n - 1 : j \in f.taskBase + 1 .. n /\ j \in 1 .. n - 1 /\ j <= n
    BY <1>2
  <2>2. \A j \in f.taskBase + 1 .. n - 1 : scopes[j].nursery = T[j].nursery
    BY <1>3, <1>9, <2>1 DEF SameKinds, n
  <2> QED BY <1>2, <1>4, <1>9, <2>1, <2>2 DEF Gathers, Rooted
<1>14. Joining(new) = hs /\ \A h : ~FrameKeeps(f, h)
  <2>1. Joining(new) = hs
    BY <1>4 DEF Joining
  <2>2. Joining(f) = <<>>
    BY <1>7 DEF Joining
  <2> QED BY <1>10, <2>1, <2>2, EmptyHasNone DEF FrameKeeps
<1>15. ASSUME NEW h \in Handle, ScopesKeep(T, h) \/ FrameKeeps(f, h)
       PROVE  ScopesKeep(scopes, h) \/ FrameKeeps(new, h)
  BY <1>6, <1>14, <1>15 DEF FrameKeeps
<1>16. Settles
  BY <1>1 DEF Settles
<1>17. Gathers(new, Len(scopes), scopes) /\ f.taskBase <= Len(scopes)
  BY <1>9, <1>11, <1>12, <1>13 DEF Gathers
<1> QED BY <1>1, <1>3, <1>4, <1>15, <1>16, <1>17, JoinTop DEF f, T

LEMMA UnwindScopeJoin ==
  ASSUME Joinable, IInv, IInv', LinkInv, BalanceInv, JoinInv, NEW g \in Goroutine, UnwindScope(g)
  PROVE  JoinInv'
<1> DEFINE f == Top(g)
           n == Len(taskScopes[g])
<1>1. Running(g) /\ f.st = "unwind" /\ UNCHANGED taskVars
  BY DEF UnwindScope, Step
<1>2. CASE n > f.taskBase
  BY <1>1, <1>2, BeginJoinJoin DEF UnwindScope
<1>3. CASE ~(n > f.taskBase)
  <2> DEFINE new == [f EXCEPT !.st = "join", !.goal = "unwind"]
  <2>1. SetTop(g, new) /\ UNCHANGED <<taskScopes, owned, spawner, phase, spawned>> /\ result' = result
    BY <1>1, <1>3 DEF UnwindScope, stackVars, taskVars
  <2>2. /\ f \in FrameRec(spawned) /\ f.taskBase \in Nat /\ n \in Nat
        /\ FrameSt(f) /\ f.taskBase <= n /\ Gathers(f, n, taskScopes[g])
    BY <1>1, TopJoins
  <2>3. /\ new.goal = "unwind" /\ new.st = "join" /\ new.taskBase = f.taskBase /\ new.arg = f.arg
        /\ new.carry = f.carry /\ new.todo = f.todo
    BY <2>2 DEF FrameRec
  <2>4. f.defers # <<>>
    BY <1>3, <2>2 DEF UnwindScope, Unwound
  <2> HIDE DEF new, f, n
  <2>5. f.carry = <<>> /\ f.goal = "none" /\ f.todo = <<>>
    BY <1>1, <2>2, <2>4 DEF Gathers, Ready, Carrying, FrameSt
  <2>6. Ready(new, n) /\ Tidy(new) /\ Rooted(new, n, taskScopes[g])
    <3>1. Ready(new, n)
      BY <2>3, <2>5 DEF Ready
    <3>2. Tidy(new)
      BY <2>3 DEF Tidy
    <3>3. Rooted(new, n, taskScopes[g])
      BY <2>2, <2>3 DEF Gathers, Rooted
    <3> QED BY <3>1, <3>2, <3>3
  <2>7. Gathers(new, n, taskScopes[g])
    BY <2>6 DEF Gathers
  <2>8. \A h : ~FrameKeeps(f, h)
    BY <2>5, EmptyHasNone DEF FrameKeeps, Joining
  <2>9. Settles
    BY <2>1 DEF Settles
  <2> QED BY <1>1, <2>1, <2>3, <2>7, <2>8, <2>9, JoinFrame DEF f, n
<1> QED BY <1>2, <1>3

\* A recur moves the handles of the scope that it leaves.
LEMMA MigrateJoin ==
  ASSUME Joinable, IInv, IInv', LinkInv, BalanceInv, JoinInv, NEW g \in Goroutine, Running(g),
         "recur" \in Ops, NEW f \in FrameRec(spawned), Migrate(g, f), UNCHANGED taskVars,
         f.kind = "fn", f.cur = "recur", f.taskBase = Top(g).taskBase, f.arg = Top(g).arg,
         f.open > 0, Len(f.defers) + 1 = f.open, Len(taskScopes[g]) >= f.taskBase + f.open,
         f.carry = <<>>, Top(g).carry = <<>>, Joining(Top(g)) = <<>>
  PROVE  JoinInv'
<1> DEFINE T == taskScopes[g]
           rest == Popped(T)
           hs == TopOr(T, NoScope).hs
           scopes == AdoptAll(rest, hs)
           st == IF f.open = 1 THEN "unwind" ELSE "tail"
           carry == Carried(f, rest, hs)
           open == f.open - 1
           env == f.env - 1
           n == Len(T)
           new == [f EXCEPT !.st = st, !.goal = "none", !.open = open, !.env = env,
                            !.carry = carry]
<1>1. /\ SetTop(g, new) /\ taskScopes' = [taskScopes EXCEPT ![g] = scopes]
      /\ UNCHANGED <<owned, spawner, phase, spawned>> /\ result' = result
  BY DEF Migrate, taskVars
<1>2. /\ f.open \in Int /\ f.taskBase \in Nat /\ f.defers \in Seq(Seq(Mode)) /\ n \in Nat
      /\ T \in Seq(ScopeUpTo(spawned)) /\ Plain(T) /\ Gathers(Top(g), n, T) /\ spawned \in Nat
  BY TopJoins, FramesTyped DEF FrameRec
<1>3. Len(f.defers) \in Nat
  BY <1>2, LenProperties
<1>4. rest \in Seq(ScopeUpTo(spawned)) /\ hs \in Seq(1 .. spawned)
  BY ScopeTopType DEF HandleList
<1>5. /\ SameKinds(T, rest) /\ Plain(rest) /\ (n > 0 => Len(rest) = n - 1)
      /\ hs # <<>> => n > 0 /\ T[n].nursery
  <2> HIDE DEF T
  <2> QED BY <1>2, PoppedJoins, PoppedParts
<1>6. /\ Len(scopes) = Len(rest) /\ SameKinds(rest, scopes)
      /\ \A j \in 1 .. Len(rest) : scopes[j].hs = rest[j].hs \/ (j = ownerIdx(rest) /\ rest[j].nursery)
      /\ \A h : /\ ScopesKeep(rest, h) => ScopesKeep(scopes, h)
                /\ ownerIdx(rest) # 0 /\ Has(hs, h) => ScopesKeep(scopes, h)
  <2> HIDE DEF rest, hs
  <2> QED BY <1>4, AdoptKeeps
<1>7. \A h : ScopesKeep(T, h) => ScopesKeep(rest, h) \/ Has(hs, h)
  <2> HIDE DEF T
  <2> QED BY <1>2, PopScopeKeeps
<1>8. carry = IF ownerIdx(rest) = 0 THEN hs ELSE <<>>
  <2>1. <<>> \o hs = hs
    <3> HIDE DEF hs
    <3> QED BY <1>4
  <2> HIDE DEF hs, rest
  <2> QED BY <2>1 DEF Carried
<1>9. st \in {"unwind", "tail"} /\ (st = "unwind" <=> f.open = 1)
  OBVIOUS
<1>10. Rooted(Top(g), n, T)
  BY <1>2 DEF Gathers
<1>0. f.open > 0 /\ Len(f.defers) + 1 = f.open /\ n >= f.taskBase + f.open
  OBVIOUS
<1> HIDE DEF T, rest, hs, scopes, st, carry, n
<1>11. /\ new.st = st /\ new.goal = "none" /\ new.open = open /\ new.kind = "fn"
       /\ new.arg = f.arg /\ new.cur = "recur"
       /\ new.taskBase = f.taskBase /\ new.defers = f.defers /\ new.carry = carry
  BY DEF FrameRec
<1> HIDE DEF new
<1>12. n > 0 /\ Len(scopes) = n - 1 /\ n - 1 \in Nat /\ f.taskBase <= n - 1
  BY <1>0, <1>2, <1>5, <1>6
\* Only the nursery of the function itself has handles.
<1>13. ASSUME hs # <<>> PROVE n = f.taskBase + 1 /\ f.arg # 0 /\ f.open = 1
  <2>1. n \in f.taskBase + 1 .. n
    BY <1>2, <1>12
  <2>2. "nursery" \notin Ops
    BY DEF Joinable
  <2>3. n = f.taskBase + 1 /\ f.arg # 0
    BY <1>5, <1>10, <1>13, <2>1, <2>2 DEF Rooted
  <2>4. f.open = 1
    BY ONLY <1>0, <1>2, <2>3
  <2> QED BY <2>3, <2>4
<1>14. SameKinds(T, scopes)
  <2> SUFFICES ASSUME NEW j \in 1 .. Len(scopes), j <= Len(T)
               PROVE  scopes[j].nursery = T[j].nursery
    BY DEF SameKinds
  <2>1. j \in 1 .. Len(rest) /\ j <= Len(rest)
    BY <1>6, <1>12
  <2> QED BY <1>5, <1>6, <2>1 DEF SameKinds
<1>15. Plain(scopes)
  <2> SUFFICES ASSUME NEW j \in 1 .. Len(scopes), ~scopes[j].nursery PROVE scopes[j].hs = <<>>
    BY DEF Plain
  <2>1. j \in 1 .. Len(rest) /\ j <= Len(rest)
    BY <1>6, <1>12
  <2>2. ~rest[j].nursery
    BY <1>6, <2>1 DEF SameKinds
  <2> QED BY <1>5, <1>6, <2>1, <2>2 DEF Plain
<1>16. Ready(new, Len(scopes))
  <2>1. new.st # "enter"
    BY <1>9, <1>11
  <2>2. ASSUME new.carry # <<>> PROVE Carrying(new, Len(scopes))
    <3>1. hs # <<>>
      BY <1>8, <1>11, <2>2
    <3>2. n = f.taskBase + 1 /\ f.arg # 0 /\ f.open = 1
      BY <1>13, <3>1
    <3>3. Len(f.defers) = 0
      BY <1>3, <3>2
    <3>4. f.defers = <<>>
      BY <1>2, <3>3, EmptySeq
    <3>5. Len(scopes) = f.taskBase
      BY <1>2, <1>12, <3>2
    <3> QED BY <1>9, <1>11, <3>2, <3>4, <3>5 DEF Carrying
  <2> QED BY <2>1, <2>2 DEF Ready
<1>17. Tidy(new)
  <2>1. CASE f.open = 1
    BY <1>9, <1>11, <2>1 DEF Tidy
  <2>2. CASE f.open # 1
    <3>0. f.open \in Int /\ f.open > 0 /\ f.open # 1 /\ Len(f.defers) + 1 = f.open
      BY <1>0, <1>2, <2>2
    <3>1. open >= 1 /\ Len(f.defers) + 0 = open
      BY ONLY <1>3, <3>0
    <3>2. new.st = "tail"
      BY <1>9, <1>11, <2>2
    <3> QED BY <1>11, <3>1, <3>2 DEF Tidy
  <2> QED BY <2>1, <2>2
<1>18. Rooted(new, Len(scopes), scopes)
  <2>1. \A j \in f.taskBase + 1 .. n - 1 : j \in f.taskBase + 1 .. n /\ j \in 1 .. n - 1 /\ j <= n
    BY <1>2, <1>12
  <2>2. \A j \in f.taskBase + 1 .. n - 1 : scopes[j].nursery = T[j].nursery
    BY <1>12, <1>14, <2>1 DEF SameKinds, n
  <2> QED BY <1>10, <1>11, <1>12, <2>1, <2>2 DEF Rooted
<1>19. ASSUME NEW h \in Handle, ScopesKeep(T, h) \/ FrameKeeps(Top(g), h)
       PROVE  ScopesKeep(scopes, h) \/ FrameKeeps(new, h)
  <2>1. ~FrameKeeps(Top(g), h)
    BY EmptyHasNone DEF FrameKeeps
  <2>2. ScopesKeep(rest, h) \/ Has(hs, h)
    BY <1>7, <1>19, <2>1
  <2>3. CASE ScopesKeep(rest, h)
    BY <1>6, <2>3
  <2>4. CASE Has(hs, h)
    BY <1>6, <1>8, <1>11, <2>4 DEF FrameKeeps
  <2> QED BY <2>2, <2>3, <2>4
<1>20. Settles
  BY <1>1 DEF Settles
<1>21. Gathers(new, Len(scopes), scopes) /\ f.taskBase <= Len(scopes)
  BY <1>12, <1>16, <1>17, <1>18 DEF Gathers
<1>22. new.taskBase = Top(g).taskBase /\ new.taskBase <= Len(scopes)
  BY <1>11, <1>21
<1> QED BY <1>1, <1>14, <1>15, <1>19, <1>20, <1>21, <1>22, JoinTop DEF T

\* A recur leaves a block after the block's defers, and a function at once.
LEMMA RecurPopJoin ==
  ASSUME Joinable, IInv, IInv', LinkInv, BalanceInv, JoinInv, NEW g \in Goroutine, Running(g),
         Top(g).st \in {"run", "tail"}, Top(g).open > 0, Top(g).kind = "fn", "recur" \in Ops,
         RecurPop(g, Top(g)), UNCHANGED taskVars
  PROVE  JoinInv'
<1> DEFINE f == Top(g)
           defers == Popped(f.defers)
           entries == TopOr(f.defers, <<>>)
           n == Len(taskScopes[g])
<1>1. /\ f \in FrameRec(spawned) /\ FrameSt(f) /\ f.open \in Int /\ Len(f.defers) \in Nat
      /\ f.taskBase \in Nat /\ n \in Nat /\ FrameOpen(f, n) /\ Gathers(f, n, taskScopes[g])
  BY TopJoins
<1>2. /\ f.st \in {"run", "tail"} /\ f.goal = "none" /\ f.todo = <<>> /\ f.open > 0
      /\ f.kind = "fn" /\ f.carry = <<>>
  BY <1>1 DEF FrameSt, Gathers, Ready, Carrying
<1>3. Len(f.defers) + 0 = f.open /\ n + 0 >= f.taskBase + f.open
  BY <1>1, <1>2 DEF FrameOpen, Gathers, Tidy
<1>4. /\ defers \in Seq(Seq(Mode)) /\ entries \in Seq(Mode)
      /\ Len(defers) + 1 = f.open
  <2>1. f.defers \in Seq(Seq(Mode))
    BY <1>1 DEF FrameRec
  <2>2. defers \in Seq(Seq(Mode)) /\ entries \in Seq(Mode)
    BY <1>1, FramesTyped, DefersType
  <2> HIDE DEF f
  <2>3. Len(f.defers) > 0 => Len(defers) = Len(f.defers) - 1
    BY <2>1, PoppedParts
  <2>4. Len(f.defers) > 0 /\ Len(f.defers) = f.open
    BY <1>1, <1>2, <1>3
  <2> QED BY <1>1, <2>2, <2>3, <2>4
<1>5. CASE f.open = 1
  <2> DEFINE new == [f EXCEPT !.cur = "recur", !.defers = defers]
  <2>1. Migrate(g, new)
    BY <1>5 DEF RecurPop
  <2> HIDE DEF defers
  <2>2. /\ new \in FrameRec(spawned) /\ new.open = f.open /\ new.kind = "fn"
        /\ new.cur = "recur" /\ new.arg = f.arg
        /\ new.taskBase = f.taskBase /\ new.defers = defers /\ new.carry = <<>>
    BY <1>1, <1>2, <1>4 DEF FrameRec, Result
  <2>3. Joining(f) = <<>>
    BY <1>2 DEF Joining
  <2>4. n >= f.taskBase + f.open
    BY <1>1, <1>3
  <2> HIDE DEF new, f
  <2> QED BY <1>2, <1>4, <2>1, <2>2, <2>3, <2>4, MigrateJoin DEF f, n
<1>6. CASE f.open # 1
  <2> DEFINE new == [f EXCEPT !.st = "defers", !.goal = "recur", !.cur = "recur",
                              !.entries = entries, !.defers = defers]
  <2>1. SetTop(g, new) /\ UNCHANGED <<taskScopes, owned, spawner, phase, spawned, result>>
    BY <1>6 DEF RecurPop, stackVars, taskVars
  <2> HIDE DEF defers, entries
  <2>2. /\ new.st = "defers" /\ new.goal = "recur" /\ new.open = f.open
        /\ new.arg = f.arg /\ new.carry = f.carry
        /\ new.taskBase = f.taskBase /\ new.defers = defers
    BY <1>1 DEF FrameRec
  <2> HIDE DEF new, f
  <2>3. f.open >= 2 /\ f.open >= 1
    BY <1>1, <1>2, <1>6
  <2>4. Tidy(new)
    BY <1>4, <2>2, <2>3 DEF Tidy
  <2> QED BY <1>2, <2>1, <2>2, <2>4, JoinLeaves DEF f
<1> QED BY <1>5, <1>6

LEMMA PopScopeJoin ==
  ASSUME Joinable, IInv, IInv', LinkInv, BalanceInv, JoinInv, NEW g \in Goroutine, PopScope(g)
  PROVE  JoinInv'
<1>1. Running(g) /\ Top(g).open > 0 /\ UNCHANGED taskVars
  BY DEF PopScope
<1>2. CASE Top(g).st \in {"run", "tail"} /\ BeginJoin(g, Top(g), "pop", "val")
  BY <1>1, <1>2, BeginJoinJoin
<1>3. CASE /\ Top(g).st = "tail" /\ Top(g).cur # "recur"
           /\ BeginJoin(g, Top(g), "pop", Top(g).cur)
  BY <1>1, <1>3, BeginJoinJoin
<1>4. CASE Top(g).st = "tail" /\ Top(g).cur = "recur" /\ RecurPop(g, Top(g))
  <2>1. Top(g).kind = "fn"
    BY <1>1, <1>4, TopType DEF FrameUpTo
  <2>2. "recur" \in Ops
    BY <1>1, <1>4, TopJoins DEF Gathers, Tidy
  <2> QED BY <1>1, <1>4, <2>1, <2>2, RecurPopJoin
<1>5. CASE /\ Top(g).st = "run" /\ Top(g).kind = "fn" /\ "recur" \in Ops
           /\ RecurPop(g, Top(g))
  BY <1>1, <1>5, RecurPopJoin
<1> QED BY <1>2, <1>3, <1>4, <1>5 DEF PopScope, Step, Instr

LEMMA RecurScopeLeftJoin ==
  ASSUME Joinable, IInv, IInv', LinkInv, BalanceInv, JoinInv, NEW g \in Goroutine, RecurScopeLeft(g)
  PROVE  JoinInv'
<1> DEFINE f == Top(g)
           n == Len(taskScopes[g])
<1>1. Running(g) /\ f.st = "defers" /\ f.goal = "recur" /\ UNCHANGED taskVars
  BY DEF RecurScopeLeft, Step
<1>2. /\ f \in FrameRec(spawned) /\ FrameSt(f) /\ f.open \in Int /\ Len(f.defers) \in Nat
      /\ f.taskBase \in Nat /\ n \in Nat /\ FrameOpen(f, n) /\ Gathers(f, n, taskScopes[g])
  BY <1>1, TopJoins
<1>3. /\ f.open >= 2 /\ f.todo = <<>> /\ f.carry = <<>> /\ "recur" \in Ops
      /\ n + 0 >= f.taskBase + f.open
      /\ f.kind = "fn" => Len(f.defers) + 1 = f.open
  BY <1>1, <1>2 DEF FrameSt, FrameOpen, Gathers, Tidy, Ready, Carrying
<1>4. CASE f.cur = "recur"
  <2>1. Migrate(g, f) /\ f.kind = "fn"
    BY <1>1, <1>4, TopType DEF RecurScopeLeft, FrameUpTo
  <2>2. n >= f.taskBase + f.open /\ f.open > 0
    BY <1>2, <1>3
  <2>3. Joining(f) = <<>>
    BY <1>3 DEF Joining
  <2> QED BY <1>1, <1>2, <1>3, <1>4, <2>1, <2>2, <2>3, MigrateJoin
<1>5. CASE f.cur # "recur"
  <2> DEFINE open == f.open - 1
             new == [f EXCEPT !.st = "tail", !.goal = "none", !.open = open]
  <2>1. SetTop(g, new) /\ UNCHANGED <<taskScopes, owned, spawner, phase, spawned, result>>
    BY <1>1, <1>5 DEF RecurScopeLeft, stackVars, taskVars
  <2>2. open >= 1 /\ (f.kind = "fn" => Len(f.defers) + 0 = open)
    BY <1>2, <1>3
  <2> HIDE DEF open
  <2>3. /\ new.st = "tail" /\ new.goal = "none" /\ new.open = open /\ new.kind = f.kind
        /\ new.arg = f.arg /\ new.cur = f.cur
        /\ new.taskBase = f.taskBase /\ new.carry = f.carry /\ new.defers = f.defers
    BY <1>2 DEF FrameRec
  <2> HIDE DEF new, f
  <2>4. Tidy(new)
    BY <1>5, <2>2, <2>3 DEF Tidy
  <2> QED BY <1>1, <1>3, <2>1, <2>3, <2>4, JoinLeaves DEF f
<1> QED BY <1>4, <1>5

----------------------------------------------------------------------------
(* Entering scopes and calling *)

\* A nursery takes the carried handles.
LEMMA EnterScopeJoin ==
  ASSUME Joinable, IInv, IInv', LinkInv, BalanceInv, JoinInv, NEW g \in Goroutine, Running(g),
         NEW arg \in ScopeArg, EnterScope(g, Top(g), arg),
         Top(g).st \in {"enter", "run"},
         Top(g).st = "enter" => arg = Top(g).arg,
         Top(g).st = "run" /\ "nursery" \notin Ops => arg = 0
  PROVE  JoinInv'
<1> DEFINE f == Top(g)
           T == taskScopes[g]
           open == f.open + 1
           env == f.env + 1
           defers == Append(f.defers, <<>>)
           carry == IF arg = 0 THEN f.carry ELSE <<>>
           hs == IF arg = 0 THEN <<>> ELSE f.carry
           scope == [nursery |-> arg # 0, hs |-> hs]
           scopes == Append(T, scope)
           n == Len(T)
           new == [f EXCEPT !.st = "run", !.open = open, !.env = env, !.defers = defers,
                            !.carry = carry]
<1>1. /\ SetTop(g, new) /\ taskScopes' = [taskScopes EXCEPT ![g] = scopes]
      /\ UNCHANGED <<owned, spawner, phase, spawned>> /\ result' = result
  BY DEF EnterScope, Entered, taskVars
<1>2. /\ f \in FrameRec(spawned) /\ FrameSt(f) /\ f.open \in Int /\ f.taskBase \in Nat /\ n \in Nat
      /\ f.defers \in Seq(Seq(Mode)) /\ f.carry \in HandleList(spawned)
      /\ T \in Seq(ScopeUpTo(spawned)) /\ Plain(T) /\ Gathers(f, n, T) /\ f.taskBase <= n
  BY TopJoins DEF FrameRec
<1>3. /\ f.st \in {"enter", "run"} /\ f.goal = "none"
      /\ f.st = "enter" => arg = f.arg
      /\ f.st = "run" /\ "nursery" \notin Ops => arg = 0
  BY <1>2 DEF FrameSt
<1>4. scope \in ScopeUpTo(spawned) /\ scope.nursery = (arg # 0) /\ scope.hs = hs
  <2>1. hs \in HandleList(spawned)
    BY <1>2, EmptySeq DEF HandleList
  <2> HIDE DEF hs
  <2> QED BY <2>1 DEF ScopeUpTo
<1>5. /\ Len(scopes) = n + 1 /\ scopes[n + 1] = scope
      /\ \A j \in 1 .. n : scopes[j] = T[j]
  <2> HIDE DEF scope
  <2> QED BY <1>2, <1>4, PushedParts
<1>6. \A h : ScopesKeep(T, h) \/ Has(hs, h) => ScopesKeep(scopes, h)
  <2> HIDE DEF scope, T
  <2> QED BY <1>2, <1>4, PushScopeKeeps
<1>7. Len(defers) = Len(f.defers) + 1
  <2>1. <<>> \in Seq(Mode)
    BY EmptySeq
  <2> QED BY <1>2, <2>1, PushedParts
<1>8. f.carry # <<>> => f.st = "enter" /\ f.arg # 0
  BY <1>2, <1>3 DEF Gathers, Ready, Carrying
<1>9. carry = <<>> /\ (f.carry = <<>> \/ hs = f.carry) /\ (arg = 0 => hs = <<>>)
  BY <1>3, <1>8
<1>10. Len(f.defers) \in Nat /\ Tidy(f) /\ Ready(f, n) /\ Rooted(f, n, T)
  BY <1>2, LenProperties DEF Gathers
<1> HIDE DEF f, T, open, env, defers, carry, hs, scope, scopes, n
<1>11. /\ new.st = "run" /\ new.goal = f.goal /\ new.open = open /\ new.kind = f.kind
       /\ new.arg = f.arg
  BY <1>2 DEF FrameRec
<1>12. new.taskBase = f.taskBase /\ new.defers = defers /\ new.carry = carry
  BY <1>2 DEF FrameRec
<1> HIDE DEF new
<1>13. SameKinds(T, scopes)
  <2>1. \A j \in 1 .. n + 1 : j <= n => j \in 1 .. n
    BY <1>2
  <2> QED BY <1>5, <2>1 DEF SameKinds, n
<1>14. Plain(scopes)
  <2> SUFFICES ASSUME NEW j \in 1 .. n + 1, ~scopes[j].nursery PROVE scopes[j].hs = <<>>
    BY <1>5 DEF Plain
  <2>1. CASE j = n + 1
    BY <1>4, <1>5, <1>9, <2>1
  <2>2. CASE j \in 1 .. n
    BY <1>2, <1>5, <2>2 DEF Plain, n
  <2> QED BY <1>2, <2>1, <2>2
<1>15. Ready(new, n + 1)
  BY <1>9, <1>11, <1>12 DEF Ready
<1>16. Tidy(new)
  <2>1. ASSUME f.kind = "fn" PROVE open >= 1 /\ Len(defers) + 0 = open
    <3>1. f.open >= 0 /\ Len(f.defers) = f.open
      <4>1. CASE f.st = "enter"
        BY <1>10, <4>1, EmptySeq DEF Ready
      <4>2. CASE f.st = "run"
        <5>1. f.open >= 1 /\ Len(f.defers) + 0 = f.open
          BY <1>3, <1>10, <2>1, <4>2 DEF Tidy
        <5> QED BY <1>2, <1>10, <5>1
      <4> QED BY <1>3, <4>1, <4>2
    <3> QED BY <1>2, <1>7, <3>1 DEF open
  <2> QED BY <1>3, <1>11, <1>12, <2>1 DEF Tidy
<1>17. Rooted(new, n + 1, scopes)
  <2> SUFFICES ASSUME "nursery" \notin Ops,
                      NEW j \in f.taskBase + 1 .. n + 1, scopes[j].nursery
               PROVE  j = f.taskBase + 1 /\ f.arg # 0
    BY <1>11, <1>12 DEF Rooted
  <2>1. CASE j = n + 1
    <3>1. arg # 0
      BY <1>4, <1>5, <2>1
    <3>2. f.st = "enter" /\ f.arg # 0
      BY <1>3, <3>1
    <3>3. n = f.taskBase
      BY <1>10, <3>2 DEF Ready
    <3> QED BY <2>1, <3>2, <3>3
  <2>2. CASE j # n + 1
    <3>1. j \in f.taskBase + 1 .. n /\ j \in 1 .. n
      BY <1>2, <2>2
    <3> QED BY <1>5, <1>10, <3>1 DEF Rooted
  <2> QED BY <2>1, <2>2
<1>18. Gathers(new, Len(scopes), scopes) /\ new.taskBase <= Len(scopes)
  <2>1. f.taskBase <= n + 1
    BY <1>2
  <2> QED BY <1>5, <1>12, <1>15, <1>16, <1>17, <2>1 DEF Gathers
<1>19. ASSUME NEW h \in Handle, ScopesKeep(T, h) \/ FrameKeeps(f, h)
       PROVE  ScopesKeep(scopes, h) \/ FrameKeeps(new, h)
  <2>1. FrameKeeps(f, h) => Has(f.carry, h)
    BY <1>3, EmptyHasNone DEF FrameKeeps, Joining
  <2>2. Has(f.carry, h) => Has(hs, h)
    BY <1>9, EmptyHasNone
  <2> QED BY <1>6, <1>19, <2>1, <2>2
<1>20. Settles
  BY <1>1 DEF Settles
<1> QED BY <1>1, <1>12, <1>13, <1>14, <1>18, <1>19, <1>20, JoinTop DEF f, T

LEMMA PushScopeJoin ==
  ASSUME Joinable, IInv, IInv', LinkInv, BalanceInv, JoinInv, NEW g \in Goroutine,
         PushScope(g) \/ EnterFunction(g)
  PROVE  JoinInv'
<1>1. CASE EnterFunction(g)
  <2>1. Running(g) /\ Top(g).st = "enter" /\ EnterScope(g, Top(g), Top(g).arg)
    BY <1>1 DEF EnterFunction, Step
  <2>2. Top(g).arg \in ScopeArg
    BY <2>1, TopCounts DEF FrameRec
  <2> QED BY <2>1, <2>2, EnterScopeJoin
<1>2. CASE PushScope(g)
  <2>1. Running(g) /\ Top(g).st = "run"
    BY <1>2 DEF PushScope, Instr, Step
  <2>2. PICK arg \in ScopeArg : /\ EnterScope(g, Top(g), arg)
                                /\ "nursery" \notin Ops => arg = 0
    BY <1>2 DEF PushScope, NurseryArg, ScopeArg, Instr
  <2> QED BY <2>1, <2>2, EnterScopeJoin
<1> QED BY <1>1, <1>2

\* A new frame has opened nothing and carries nothing.
LEMMA NewFrameGathers ==
  ASSUME NEW kind \in {"body", "fn", "defer"}, NEW mode, NEW arg, NEW n \in Nat, NEW m \in Nat, NEW T
  PROVE  Gathers(NewFrame(kind, mode, arg, n, m), n, T)
<1> DEFINE f == NewFrame(kind, mode, arg, n, m)
<1>1. /\ f.taskBase = n /\ f.goal = "none" /\ f.open = 0 /\ f.carry = <<>> /\ f.cur = "val"
      /\ f.kind = kind /\ f.st = (IF kind = "fn" THEN "enter" ELSE "run") /\ f.defers = <<>>
  BY DEF NewFrame
<1> HIDE DEF f
<1>2. Ready(f, n)
  BY <1>1 DEF Ready
<1>3. Tidy(f)
  BY <1>1 DEF Tidy
<1>4. n + 1 .. n = {}
  OBVIOUS
<1>5. Rooted(f, n, T)
  BY <1>1, <1>4 DEF Rooted
<1> QED BY <1>2, <1>3, <1>5 DEF Gathers, f

LEMMA CallJoin ==
  ASSUME Joinable, IInv, IInv', LinkInv, BalanceInv, JoinInv, NEW g \in Goroutine, Call(g)
  PROVE  JoinInv'
<1> DEFINE s == frames[g]
           T == taskScopes[g]
           n == Len(T)
           m == Len(taskLimits[g])
<1>1. Running(g) /\ UNCHANGED <<taskScopes, owned, spawner, phase, spawned>> /\ result' = result
  BY DEF Call, Instr, Step, stackVars, taskVars
<1>2. PICK arg \in ScopeArg : PushFrame(g, Callee(g, "fn", "always", arg))
  BY DEF Call, NurseryArg, ScopeArg
<1> DEFINE callee == Callee(g, "fn", "always", arg)
           t == Append(s, callee)
<1>3. frames' = [frames EXCEPT ![g] = t]
  BY <1>2 DEF PushFrame
<1>4. taskScopes' = [taskScopes EXCEPT ![g] = T]
  BY <1>1 DEF IInv, ScopesOK
<1>5. s \in FrameSeq /\ n \in Nat /\ m \in Nat /\ phase[g] = "run"
  BY <1>1, FramesTyped DEF Running
<1>6. callee.taskBase = n /\ callee \in FrameRec(spawned) /\ Gathers(callee, n, T)
  <2>1. callee.taskBase = n /\ Gathers(callee, n, T)
    BY <1>5, NewFrameCounts, NewFrameGathers DEF Callee
  <2>2. callee \in FrameRec(spawned)
    BY <1>5, NewFrameType, FramesTyped DEF Callee, Mode, FrameUpTo
  <2> QED BY <2>1, <2>2
<1>7. Gathered(s, T) /\ Plain(T)
  BY DEF JoinInv, ShapeInv
<1> HIDE DEF callee
<1>8. Len(t) = Len(s) + 1 /\ t[Len(s) + 1] = callee /\ \A i \in 1 .. Len(s) : t[i] = s[i]
  BY <1>5, <1>6, StackPush DEF FrameSeq
<1>9. \A h : FramesKeep(s, h) => FramesKeep(t, h)
  BY <1>5, <1>6, PushKeeps DEF FrameSeq
<1> HIDE DEF s, t, T
<1>10. Gathered(t, T)
  BY <1>5, <1>6, <1>7, <1>8, GatherPush
<1>11. Keeping(s, T, t, T) /\ Settles
  BY <1>1, <1>9 DEF Keeping, Settles
<1> QED BY <1>1, <1>3, <1>4, <1>5, <1>7, <1>10, <1>11, JoinStep DEF s, T

\* The frame on top goes on and nurseries adopt handles.
LEMMA TopGathered ==
  ASSUME NEW s \in FrameSeq, s # <<>>, NEW f \in FrameRec(spawned), f.taskBase = Last(s).taskBase,
         NEW T, NEW T2, Len(T) \in Nat, Len(T2) \in Nat, Stacked(s),
         f.taskBase <= Len(T), f.taskBase <= Len(T2), SameKinds(T, T2),
         Gathered(s, T), Gathers(f, Len(T2), T2)
  PROVE  LET t == Append(Front(s), f)
         IN  t \in FrameSeq /\ t # <<>> /\ Gathered(t, T2)
<1> DEFINE t == Append(Front(s), f)
<1>1. /\ Len(s) \in Nat /\ Len(s) >= 1 /\ Last(s) = s[Len(s)]
      /\ Front(s) \in Seq(FrameRec(spawned)) /\ Len(Front(s)) = Len(s) - 1
      /\ \A i \in 1 .. Len(s) - 1 : Front(s)[i] = s[i]
  BY StackParts DEF FrameSeq
<1>2. /\ t \in FrameSeq /\ t # <<>> /\ Len(t) = Len(s) /\ t[Len(s)] = f
      /\ \A i \in 1 .. Len(s) - 1 : t[i] = s[i]
  <2>1. /\ t \in FrameSeq /\ t # <<>> /\ Len(t) = Len(Front(s)) + 1 /\ t[Len(Front(s)) + 1] = f
        /\ \A i \in 1 .. Len(Front(s)) : t[i] = Front(s)[i]
    BY <1>1, StackPush DEF FrameSeq
  <2> HIDE DEF t
  <2> QED BY <1>1, <2>1
<1> HIDE DEF t
<1>3. Gathered(t, T2)
  BY <1>1, <1>2, GatherTop
<1> QED BY <1>2, <1>3 DEF t

\* The shape of the frames of a running goroutine.
LEMMA StackJoins ==
  ASSUME Joinable, IInv, LinkInv, BalanceInv, JoinInv, NEW g \in Goroutine, Running(g)
  PROVE  /\ frames[g] \in FrameSeq /\ frames[g] # <<>> /\ Top(g) = Last(frames[g])
         /\ Stacked(frames[g]) /\ Gathered(frames[g], taskScopes[g]) /\ Plain(taskScopes[g])
         /\ taskScopes' = taskScopes => taskScopes' = [taskScopes EXCEPT ![g] = taskScopes[g]]
<1>1. frames[g] \in FrameSeq /\ frames[g] # <<>>
  BY FramesTyped DEF Running
<1>2. Stacked(frames[g])
  BY DEF BalanceInv, Balanced, Aligned, Joinable
<1>3. Gathered(frames[g], taskScopes[g]) /\ Plain(taskScopes[g])
  BY DEF JoinInv, ShapeInv
<1>4. taskScopes' = taskScopes => taskScopes' = [taskScopes EXCEPT ![g] = taskScopes[g]]
  BY DEF IInv, ScopesOK
<1> QED BY <1>1, <1>2, <1>3, <1>4 DEF Top

LEMMA RunDeferredJoin ==
  ASSUME Joinable, IInv, IInv', LinkInv, BalanceInv, JoinInv, NEW g \in Goroutine, RunDeferred(g)
  PROVE  JoinInv'
<1> DEFINE s == frames[g]
           T == taskScopes[g]
           f == Top(g)
           mode == Last(f.entries)
           front == Front(f.entries)
           rest == [f EXCEPT !.entries = front]
           callee == Callee(g, "defer", mode, 0)
           below == Append(Front(s), rest)
           t == Append(below, callee)
           n == Len(T)
           m == Len(taskLimits[g])
<1>1. /\ Running(g) /\ f.st = "defers" /\ f.entries # <<>>
      /\ UNCHANGED <<taskScopes, owned, spawner, phase, spawned>> /\ result' = result
  BY DEF RunDeferred, Step, stackVars, taskVars
<1>2. /\ f \in FrameRec(spawned) /\ f.goal # "none" /\ f.todo = <<>> /\ Tidy(f) /\ n \in Nat
      /\ Gathers(f, n, T) /\ f.taskBase <= n
  BY <1>1, TopJoins DEF FrameSt, Gathers
<1>3. mode \in Mode /\ front \in Seq(Mode)
  BY <1>1, <1>2, StackTop DEF FrameRec
<1>4. /\ rest \in FrameRec(spawned) /\ Resumes(f, rest) /\ rest.todo = <<>>
      /\ rest.taskBase = f.taskBase
  <2> HIDE DEF front, f
  <2>1. rest \in FrameRec(spawned)
    BY <1>2, <1>3 DEF FrameRec
  <2>2. f.goal = "pop" => f.cur # "recur"
    BY <1>2 DEF Tidy
  <2>3. Resumes(f, rest) /\ rest.todo = <<>> /\ rest.taskBase = f.taskBase
    BY <1>1, <1>2, <2>2 DEF FrameRec, Resumes
  <2> QED BY <2>1, <2>3
<1>5. Joining(f) = <<>>
  BY <1>2 DEF Joining
<1>6. Settles
  BY <1>1 DEF Settles
<1>7. CASE SetTop(g, rest)
  <2>1. \A h : ~Has(Joining(f), h)
    BY <1>5, EmptyHasNone
  <2> HIDE DEF rest
  <2> QED BY <1>1, <1>4, <1>6, <1>7, <2>1, JoinResumes
<1>8. CASE frames' = [frames EXCEPT ![g] = t]
  <2>1. /\ s \in FrameSeq /\ s # <<>> /\ f = Last(s) /\ Stacked(s) /\ Gathered(s, T) /\ Plain(T)
        /\ taskScopes' = [taskScopes EXCEPT ![g] = T] /\ m \in Nat /\ phase[g] = "run"
    BY <1>1, StackJoins, FramesTyped DEF Running
  <2>2. Gathers(rest, n, T) /\ f.carry = <<>>
    <3> HIDE DEF rest, f
    <3> QED BY <1>2, <1>4, Resumed
  <2>3. callee.taskBase = n /\ callee \in FrameRec(spawned) /\ Gathers(callee, n, T)
    <3>1. callee.taskBase = n /\ Gathers(callee, n, T)
      BY <1>2, <2>1, NewFrameCounts, NewFrameGathers DEF Callee
    <3>2. 0 \in ScopeArg
      BY DEF ScopeArg
    <3>3. callee \in FrameRec(spawned)
      <4> HIDE DEF mode
      <4> QED BY <1>2, <1>3, <2>1, <3>2, NewFrameType, FramesTyped DEF Callee, FrameUpTo
    <3> QED BY <3>1, <3>3
  <2> HIDE DEF rest, f, callee, m, T
  <2>4. SameKinds(T, T)
    BY DEF SameKinds
  <2>5. below \in FrameSeq /\ below # <<>> /\ Gathered(below, T)
    BY <1>2, <1>4, <2>1, <2>2, <2>4, TopGathered DEF n
  <2>6. \A h : FramesKeep(s, h) => FramesKeep(below, h) \/ FrameKeeps(f, h)
    BY <1>4, <2>1, TopKeeps DEF FrameSeq
  <2> HIDE DEF below
  <2>7. Len(t) = Len(below) + 1 /\ t[Len(below) + 1] = callee
        /\ \A i \in 1 .. Len(below) : t[i] = below[i]
    BY <2>3, <2>5, StackPush DEF FrameSeq
  <2>8. \A h : FramesKeep(below, h) => FramesKeep(t, h)
    BY <2>3, <2>5, PushKeeps DEF FrameSeq
  <2>9. \A h : ~FrameKeeps(f, h)
    BY <1>5, <2>2, EmptyHasNone DEF FrameKeeps
  <2> HIDE DEF t, s
  <2>10. Gathered(t, T)
    BY <2>3, <2>5, <2>7, GatherPush DEF n
  <2>11. Keeping(s, T, t, T)
    BY <2>6, <2>8, <2>9 DEF Keeping
  <2> QED BY <1>1, <1>6, <1>8, <2>1, <2>10, <2>11, JoinStep DEF s, T
<1> QED BY <1>7, <1>8 DEF RunDeferred

----------------------------------------------------------------------------
(* Frames that leave *)

\* A caller takes a result up and goes on.
LEMMA ReturnedResumes ==
  ASSUME NEW k, NEW c \in FrameRec(k), FrameSt(c), NEW f, c.st = CallerSt(f),
         NEW r, r # "recur", c.goal = "pop" => c.cur # "recur"
  PROVE  Resumes(c, Returned(c, f, r)) /\ Returned(c, f, r).todo = c.todo
<1> DEFINE new == Returned(c, f, r)
           cur == DeferOutcome(c.cur, f.mode, r)
<1>1. c.st \in {"defers", "run"} /\ (f.kind # "defer" => c.st = "run" /\ c.goal = "none")
  BY DEF CallerSt, FrameSt
<1>2. c.goal = "pop" => cur # "recur"
  BY DEF DeferOutcome
<1>3. CASE new = [c EXCEPT !.cur = cur]
  <2> HIDE DEF cur
  <2>1. Resumes(c, [c EXCEPT !.cur = cur]) /\ [c EXCEPT !.cur = cur].todo = c.todo
    BY <1>1, <1>2 DEF FrameRec, Resumes
  <2> QED BY <1>3, <2>1
<1>4. CASE f.kind # "defer" /\ new = [c EXCEPT !.st = "unwind", !.cur = r]
  <2>1. /\ Resumes(c, [c EXCEPT !.st = "unwind", !.cur = r])
        /\ [c EXCEPT !.st = "unwind", !.cur = r].todo = c.todo
    BY <1>1, <1>4 DEF FrameRec, Resumes
  <2> QED BY <1>4, <2>1
<1>5. CASE f.kind # "defer" /\ new = c
  <2>1. Resumes(c, c)
    BY <1>1, <1>5 DEF Resumes
  <2> QED BY <1>5, <2>1
<1> QED BY <1>3, <1>4, <1>5 DEF Returned

LEMMA LeaveJoin ==
  ASSUME Joinable, IInv, IInv', LinkInv, BalanceInv, JoinInv, NEW g \in Goroutine, Running(g),
         NEW r, r # "recur", Leave(g, r), UNCHANGED <<taskScopes, owned, spawner, result, spawned>>,
         Top(g).taskBase = Len(taskScopes[g]), Top(g).carry = <<>>, Joining(Top(g)) = <<>>
  PROVE  JoinInv'
<1> DEFINE s == frames[g]
           T == taskScopes[g]
           rest == Front(s)
           f == Top(g)
           n == Len(T)
<1>1. /\ s \in FrameSeq /\ s # <<>> /\ f = Last(s) /\ Stacked(s) /\ Gathered(s, T) /\ Plain(T)
      /\ taskScopes' = [taskScopes EXCEPT ![g] = T] /\ n \in Nat /\ phase[g] = "run"
  BY StackJoins, FramesTyped DEF Running
<1>2. /\ rest \in FrameSeq /\ Len(s) \in Nat /\ Len(s) >= 1 /\ Len(rest) = Len(s) - 1
      /\ \A i \in 1 .. Len(s) - 1 : rest[i] = s[i]
      /\ f = s[Len(s)]
  BY <1>1, StackParts DEF FrameSeq
<1>3. f.taskBase = n /\ Settles
  BY DEF Settles
<1>4. rest # <<>> => Last(rest).st = CallerSt(f)
  <2>1. s \in Seq(GoodFrame(g)) /\ Linked(s)
    BY TopGood
  <2> QED BY <1>1, <2>1, LinkedPop
<1>5. \A h : FramesKeep(s, h) => FramesKeep(rest, h)
  <2>1. \A h : ~FrameKeeps(f, h)
    BY EmptyHasNone DEF FrameKeeps
  <2> HIDE DEF s, f
  <2> QED BY <1>1, <2>1, PopKeeps DEF FrameSeq
<1>6. Gathered(rest, T)
  <2>1. /\ Len(s) >= 1 /\ Len(rest) = Len(s) - 1 /\ \A i \in 1 .. Len(rest) : rest[i] = s[i]
        /\ s[Len(s)].taskBase = Len(T)
    BY <1>2, <1>3
  <2> HIDE DEF s, rest, T
  <2> QED BY <1>1, <2>1, GatherPop
<1>7. CASE rest = <<>>
  <2>1. frames' = [frames EXCEPT ![g] = rest] /\ \A k \in Goroutine : k # g => phase'[k] = phase[k]
    BY <1>7 DEF Leave, IInv, TasksOK
  <2> HIDE DEF rest, s, T
  <2>2. Keeping(s, T, rest, T)
    BY <1>5 DEF Keeping
  <2> QED BY <1>1, <1>3, <1>6, <1>7, <2>1, <2>2, JoinStep DEF s, T
<1>8. CASE rest # <<>>
  <2> DEFINE c == Last(rest)
             new == Returned(c, f, r)
             t == Append(Front(rest), new)
  <2>1. frames' = [frames EXCEPT ![g] = t] /\ UNCHANGED phase
    BY <1>8 DEF Leave
  <2>2. /\ c \in FrameRec(spawned) /\ c.st = CallerSt(f) /\ FrameSt(c)
        /\ Len(rest) \in Nat /\ Len(rest) >= 1 /\ c = rest[Len(rest)]
    <3>1. rest \in Seq(GoodFrame(g))
      BY <1>1, TopGood, StackTop
    <3>2. c \in GoodFrame(g)
      <4> HIDE DEF rest
      <4> QED BY <1>8, <3>1, StackTop
    <3>3. Len(rest) \in Nat /\ Len(rest) >= 1 /\ c = rest[Len(rest)]
      <4> HIDE DEF rest
      <4> QED BY <1>2, <1>8, StackParts DEF FrameSeq
    <3> HIDE DEF rest, c
    <3> QED BY <1>4, <1>8, <3>2, <3>3 DEF GoodFrame, FrameUpTo, c
  <2>3. c.taskBase <= n /\ c.taskBase \in Nat
    <3>1. Len(rest) \in 1 .. Len(s) /\ Len(s) \in 1 .. Len(s) /\ Len(rest) <= Len(s) /\ c = s[Len(rest)]
      BY <1>2, <2>2
    <3> HIDE DEF s, rest, c
    <3>2. s[Len(rest)].taskBase <= s[Len(s)].taskBase
      BY <1>1, <3>1 DEF Stacked
    <3> QED BY <1>2, <1>3, <2>2, <3>1, <3>2 DEF FrameRec
  <2>4. Gathers(c, n, T)
    <3> HIDE DEF s, rest, c, T
    <3> QED BY <1>6, <2>2 DEF Gathered, TaskDepth, n
  <2>5. Stacked(rest)
    <3> HIDE DEF s, rest
    <3>1. \A i \in 1 .. Len(rest) : i \in 1 .. Len(s) /\ rest[i] = s[i]
      BY <1>2
    <3> QED BY <1>1, <3>1 DEF Stacked
  <2>6. Resumes(c, new) /\ new.todo = c.todo
    <3>1. c.goal = "pop" => c.cur # "recur"
      BY <2>4 DEF Gathers, Tidy
    <3> HIDE DEF c, f
    <3> QED BY <2>2, <3>1, ReturnedResumes
  <2>7. new \in FrameRec(spawned)
    <3>1. frames'[g] = t
      BY <2>1 DEF IInv, FramesOK
    <3>2. t \in Seq(FrameUpTo(spawned))
      BY <3>1 DEF IInv, FramesOK
    <3>3. t # <<>> /\ Last(t) = new
      <4>1. Front(rest) \in Seq(FrameRec(spawned))
        <5> HIDE DEF rest
        <5> QED BY <1>2, <1>8, StackTop DEF FrameSeq
      <4> HIDE DEF new, rest
      <4>2. Len(Append(Front(rest), new)) = Len(Front(rest)) + 1
        BY <4>1
      <4> QED BY <4>1, <4>2, LenProperties, EmptySeq DEF Last
    <3> HIDE DEF t
    <3> QED BY <3>2, <3>3, StackTop DEF FrameUpTo
  <2> HIDE DEF rest, c, new, f, s, T
  <2>8. Gathers(new, n, T) /\ new.carry = <<>> /\ c.carry = <<>>
    BY <2>4, <2>6, Resumed
  <2>9. new.taskBase = c.taskBase /\ Joining(new) = Joining(c)
    BY <2>6 DEF Resumes, Joining
  <2>10. SameKinds(T, T)
    BY DEF SameKinds
  <2>11. t # <<>> /\ Gathered(t, T)
    BY <1>1, <1>2, <1>6, <1>8, <2>3, <2>5, <2>7, <2>8, <2>9, <2>10, TopGathered DEF n, c
  <2>12. \A h : FramesKeep(rest, h) => FramesKeep(t, h)
    <3>1. \A h : FrameKeeps(c, h) => FrameKeeps(new, h)
      BY <2>8, <2>9 DEF FrameKeeps
    <3>2. \A h : /\ FramesKeep(rest, h) => FramesKeep(t, h) \/ FrameKeeps(c, h)
                 /\ FrameKeeps(new, h) => FramesKeep(t, h)
      BY <1>2, <1>8, <2>7, TopKeeps DEF FrameSeq, c
    <3> QED BY <3>1, <3>2
  <2> HIDE DEF t
  <2>13. Keeping(s, T, t, T)
    BY <1>5, <2>12 DEF Keeping
  <2> QED BY <1>1, <1>3, <2>1, <2>11, <2>13, JoinStep DEF s, T
<1> QED BY <1>7, <1>8

LEMMA FrameReturnsJoin ==
  ASSUME Joinable, IInv, IInv', LinkInv, BalanceInv, JoinInv, NEW g \in Goroutine,
         FrameReturns(g) \/ Fault(g)
  PROVE  JoinInv'
<1> DEFINE f == Top(g)
           n == Len(taskScopes[g])
<1>1. /\ Running(g) /\ f.st = "unwind" /\ f.defers = <<>> /\ n <= f.taskBase
      /\ UNCHANGED <<taskScopes, owned, spawner, result, spawned>>
      /\ FrameReturns(g)
  <2>1. ~Fault(g)
    BY DEF Fault, Instr, Joinable, Clean
  <2> QED BY <2>1 DEF FrameReturns, Step, Unwound, stackVars
<1>2. /\ f \in FrameRec(spawned) /\ FrameSt(f) /\ f.taskBase \in Nat
      /\ n \in Nat /\ f.taskBase <= n /\ Gathers(f, n, taskScopes[g])
  BY <1>1, TopJoins
<1>3. f.goal = "none" /\ n = f.taskBase /\ f.todo = <<>>
  BY <1>1, <1>2 DEF FrameSt
<1>4. CASE f.kind = "fn" /\ f.cur = "recur"
  <2> DEFINE iter == f.iter + 1
             open == 0
             new == [f EXCEPT !.st = "enter", !.cur = "val", !.open = open, !.iter = iter]
  <2>1. SetTop(g, new) /\ UNCHANGED phase
    BY <1>1, <1>4 DEF FrameReturns
  <2> HIDE DEF iter, open
  <2>2. /\ new.st = "enter" /\ new.goal = "none" /\ new.kind = "fn" /\ new.arg = f.arg
        /\ new.open = open /\ new.carry = f.carry /\ new.cur = "val"
        /\ new.taskBase = f.taskBase /\ new.defers = <<>>
    BY <1>1, <1>2, <1>3, <1>4 DEF FrameRec
  <2> HIDE DEF new, f, n
  <2>3. Ready(new, n)
    <3>1. f.carry # <<>> => f.arg # 0
      BY <1>2 DEF Gathers, Ready, Carrying
    <3> QED BY <1>3, <2>2, <3>1 DEF Ready, Carrying, open
  <2>4. Tidy(new)
    BY <2>2 DEF Tidy
  <2>5. Rooted(new, n, taskScopes[g])
    BY <1>2, <2>2 DEF Gathers, Rooted
  <2>6. Gathers(new, n, taskScopes[g])
    BY <2>3, <2>4, <2>5 DEF Gathers
  <2>7. \A h : FrameKeeps(f, h) => FrameKeeps(new, h)
    BY <1>3, <2>2 DEF FrameKeeps, Joining
  <2>8. Settles
    BY <1>1 DEF Settles
  <2> QED BY <1>1, <2>1, <2>2, <2>6, <2>7, <2>8, JoinFrame DEF f, n
<1>5. CASE ~(f.kind = "fn" /\ f.cur = "recur")
  <2>1. PICK r \in Results(f) : Leave(g, r)
    BY <1>1, <1>5 DEF FrameReturns
  <2>2. f.cur # "recur"
    <3>1. f \in FrameUpTo(spawned)
      BY <1>1, TopType
    <3> QED BY <1>5, <3>1 DEF FrameUpTo
  <2>3. r # "recur"
    BY <2>1, <2>2 DEF Results
  <2>4. f.carry = <<>> /\ Joining(f) = <<>>
    BY <1>1, <1>2, <1>3, <2>2 DEF Gathers, Ready, Carrying, Joining
  <2> QED BY <1>1, <1>3, <2>1, <2>3, <2>4, LeaveJoin
<1> QED BY <1>4, <1>5

----------------------------------------------------------------------------
(* Tasks *)

LEMMA StartTaskJoin ==
  ASSUME Joinable, IInv, IInv', LinkInv, BalanceInv, JoinInv, NEW g \in Goroutine, StartTask(g)
  PROVE  JoinInv'
<1> DEFINE h == spawned + 1
           s == frames[g]
           T == taskScopes[g]
           old == Top(g)
           top == [old EXCEPT !.st = "run"]
           caller == Append(Front(s), top)
           scopes == AdoptAll(T, <<h>>)
<1>1. /\ Running(g) /\ old.st = "spawn" /\ spawned < MaxTask
      /\ taskScopes' = [taskScopes EXCEPT ![g] = scopes]
      /\ spawned' = h /\ result' = result
      /\ phase' = [phase EXCEPT ![h] = "run"]
      /\ spawner' = [spawner EXCEPT ![h] = g]
      /\ owned' = IF ownerIdx(T) = 0 THEN owned ELSE owned \cup {h}
  BY DEF StartTask, Step
<1>2. PICK kind \in {"body", "fn"} :
        frames' = [frames EXCEPT ![g] = caller, ![h] = << NewFrame(kind, "always", 0, 0, 0) >>]
  <2>1. PICK kind \in {"body"} \cup (IF "spawnBlock" \in Ops THEN {"fn"} ELSE {}) :
          frames' = [frames EXCEPT
             ![g] = Append(Front(@), [Last(@) EXCEPT !.st = "run"]),
             ![h] = << NewFrame(kind, "always", 0, 0, 0) >>]
    BY DEF StartTask
  <2> QED BY <2>1 DEF Top
<1> DEFINE body == << NewFrame(kind, "always", 0, 0, 0) >>
<1>3. spawned \in Nat /\ h \in Handle /\ h \in Goroutine /\ h # g /\ h > spawned
  <2>1. spawned \in Nat /\ h \in Handle /\ h \in Goroutine /\ h > spawned
    BY <1>1, TopType, ExecutorAssumption DEF Handle, Goroutine
  <2>2. h # g
    BY <1>1, <2>1 DEF IInv, TasksOK, Running
  <2> QED BY <2>1, <2>2
<1>4. /\ old \in FrameRec(spawned) /\ old.taskBase <= Len(T) /\ Len(T) \in Nat
      /\ T \in Seq(ScopeUpTo(spawned)) /\ Plain(T) /\ Gathers(old, Len(T), T) /\ old.goal = "none"
  BY <1>1, TopJoins DEF FrameSt
<1>5. s \in FrameSeq /\ s # <<>> /\ old = Last(s) /\ Stacked(s) /\ Gathered(s, T)
  BY <1>1, StackJoins
<1>6. top \in FrameRec(spawned) /\ Resumes(old, top) /\ top.taskBase = old.taskBase
  <2> HIDE DEF old
  <2>1. top \in FrameRec(spawned)
    BY <1>4 DEF FrameRec, State
  <2>2. Resumes(old, top) /\ top.taskBase = old.taskBase
    BY <1>1, <1>4 DEF FrameRec, Resumes
  <2> QED BY <2>1, <2>2
<1>7. taskScopes[h] = <<>> /\ h \notin owned
  BY <1>3 DEF BalanceInv, LinkInv
<1> HIDE DEF top
<1>8. /\ Len(scopes) = Len(T) /\ SameKinds(T, scopes)
      /\ \A j \in 1 .. Len(T) : scopes[j].hs = T[j].hs \/ T[j].nursery
      /\ \A k : /\ ScopesKeep(T, k) => ScopesKeep(scopes, k)
                /\ ownerIdx(T) # 0 /\ k = h => ScopesKeep(scopes, k)
  <2>1. <<h>> \in Seq(Nat) /\ 1 .. spawned \subseteq Nat
    BY <1>3
  <2> HIDE DEF T, h
  <2> QED BY <1>4, <2>1, AdoptKeeps, HasOne
<1>9. Gathers(top, Len(T), T) /\ top.carry = <<>> /\ old.carry = <<>>
  <2> HIDE DEF old, T
  <2> QED BY <1>4, <1>6, Resumed
<1>10. Gathers(top, Len(scopes), scopes)
  <2>1. top.taskBase \in Nat
    <3> HIDE DEF old
    <3> QED BY <1>6 DEF FrameRec
  <2>2. Len(T) <= Len(T)
    BY <1>4
  <2> HIDE DEF scopes, T
  <2> QED BY <1>4, <1>8, <1>9, <2>1, <2>2, GathersBelow
<1> HIDE DEF scopes, T, s, old, h
<1>11. Gathered(caller, scopes)
  BY <1>4, <1>5, <1>6, <1>8, <1>10, TopGathered
<1>12. Plain(scopes)
  <2> SUFFICES ASSUME NEW j \in 1 .. Len(scopes), ~scopes[j].nursery PROVE scopes[j].hs = <<>>
    BY DEF Plain
  <2>1. j \in 1 .. Len(T) /\ j <= Len(T)
    BY <1>4, <1>8
  <2>2. ~T[j].nursery
    BY <1>8, <2>1 DEF SameKinds
  <2> QED BY <1>4, <1>8, <2>1, <2>2 DEF Plain
<1>13. \A k : FramesKeep(s, k) => FramesKeep(caller, k)
  <2>1. \A k : ~FrameKeeps(old, k)
    BY <1>4, <1>9, EmptyHasNone DEF FrameKeeps, Joining
  <2>2. \A k : FramesKeep(s, k) => FramesKeep(caller, k) \/ FrameKeeps(old, k)
    BY <1>5, <1>6, TopKeeps DEF FrameSeq
  <2> QED BY <2>1, <2>2
<1> HIDE DEF caller
<1>14. Gathered(body, <<>>) /\ Plain(<<>>)
  <2> DEFINE f == NewFrame(kind, "always", 0, 0, 0)
  <2>1. Gathers(f, 0, <<>>)
    BY NewFrameGathers
  <2> HIDE DEF f
  <2>2. Len(body) = 1 /\ body[1] = f /\ Len(<<>>) = 0
    BY EmptySeq DEF f
  <2> HIDE DEF body
  <2>3. TaskDepth(body, 0, 1) = 0
    BY <2>2 DEF TaskDepth
  <2> QED BY <2>1, <2>2, <2>3 DEF Gathered, Plain
<1> HIDE DEF body
<1>15. ASSUME NEW k \in Goroutine
       PROVE  /\ frames'[k] = IF k = g THEN caller ELSE IF k = h THEN body ELSE frames[k]
              /\ taskScopes'[k] = IF k = g THEN scopes ELSE taskScopes[k]
              /\ phase'[k] = IF k = h THEN "run" ELSE phase[k]
  BY <1>1, <1>2, <1>3 DEF IInv, FramesOK, ScopesOK, TasksOK, body, s, T
<1>16. phase[g] = "run"
  BY <1>1 DEF Running
<1>17. ASSUME NEW k \in Goroutine
       PROVE  (/\ Gathered(frames[k], taskScopes[k])
               /\ Plain(taskScopes[k])
               /\ frames[k] # <<>> => phase[k] = "run")'
  <2>1. /\ Gathered(frames[k], taskScopes[k]) /\ Plain(taskScopes[k])
        /\ frames[k] # <<>> => phase[k] = "run"
    BY DEF JoinInv, ShapeInv
  <2>2. /\ Gathered(frames'[k], taskScopes'[k]) /\ Plain(taskScopes'[k])
        /\ frames'[k] # <<>> => phase'[k] = "run"
    <3>1. CASE k = g
      BY <1>3, <1>11, <1>12, <1>15, <1>16, <3>1
    <3>2. CASE k = h
      BY <1>3, <1>7, <1>14, <1>15, <3>2
    <3>3. CASE k # g /\ k # h
      BY <1>15, <2>1, <3>3
    <3> QED BY <3>1, <3>2, <3>3
  <2> QED BY <2>2 DEF Gathered, Plain, Gathers, Ready, Carrying, Tidy, Rooted, TaskDepth
<1>18. ASSUME NEW k \in owned', result'[k] = "open"
       PROVE  (ScopesKeep(taskScopes[spawner[k]], k) \/ FramesKeep(frames[spawner[k]], k))'
  <2>1. ScopesKeep(taskScopes'[spawner'[k]], k) \/ FramesKeep(frames'[spawner'[k]], k)
    <3>1. CASE k = h
      <4>1. ownerIdx(T) # 0 /\ spawner'[k] = g
        BY <1>1, <1>3, <1>7, <1>18, <3>1 DEF IInv, TasksOK
      <4>2. ScopesKeep(scopes, k)
        BY <1>8, <3>1, <4>1
      <4> QED BY <1>15, <4>1, <4>2
    <3>2. CASE k # h
      <4>1. k \in owned /\ k \in Handle /\ spawner[k] \in Goroutine /\ spawner'[k] = spawner[k]
        BY <1>1, <1>18, <3>2 DEF IInv, TasksOK
      <4>2. ScopesKeep(taskScopes[spawner[k]], k) \/ FramesKeep(frames[spawner[k]], k)
        BY <1>1, <1>18, <4>1 DEF JoinInv, KeptInv
      <4>3. CASE spawner[k] = g
        BY <1>8, <1>13, <1>15, <4>1, <4>2, <4>3 DEF s, T
      <4>4. CASE spawner[k] = h
        <5>1. frames[h] = <<>> /\ taskScopes[h] = <<>>
          BY <1>3 DEF BalanceInv
        <5>2. ~ScopesKeep(<<>>, k) /\ ~FramesKeep(<<>>, k)
          BY EmptySeq DEF ScopesKeep, FramesKeep
        <5> QED BY <4>2, <4>4, <5>1, <5>2
      <4>5. CASE spawner[k] # g /\ spawner[k] # h
        BY <1>15, <4>1, <4>2, <4>5
      <4> QED BY <4>3, <4>4, <4>5
    <3> QED BY <3>1, <3>2
  <2> QED BY <2>1 DEF ScopesKeep, FramesKeep, FrameKeeps, Joining, Has
<1> QED BY <1>17, <1>18 DEF JoinInv, ShapeInv, KeptInv

\* The end of a task leaves all stacks alone.
LEMMA TaskEndsJoin ==
  ASSUME IInv, JoinInv, UNCHANGED <<frames, taskScopes, owned, spawner>>, Settles,
         \A k \in Goroutine : phase[k] = "run" => phase'[k] = "run"
  PROVE  JoinInv'
<1>1. ASSUME NEW k \in Goroutine
      PROVE  (/\ Gathered(frames[k], taskScopes[k])
              /\ Plain(taskScopes[k])
              /\ frames[k] # <<>> => phase[k] = "run")'
  <2>1. /\ Gathered(frames[k], taskScopes[k]) /\ Plain(taskScopes[k])
        /\ frames[k] # <<>> => phase[k] = "run"
    BY DEF JoinInv, ShapeInv
  <2>2. /\ Gathered(frames'[k], taskScopes'[k]) /\ Plain(taskScopes'[k])
        /\ frames'[k] # <<>> => phase'[k] = "run"
    BY <2>1
  <2> QED BY <2>2 DEF Gathered, Plain, Gathers, Ready, Carrying, Tidy, Rooted, TaskDepth
<1>2. ASSUME NEW k \in owned', result'[k] = "open"
      PROVE  (ScopesKeep(taskScopes[spawner[k]], k) \/ FramesKeep(frames[spawner[k]], k))'
  <2>1. k \in owned /\ k \in Handle /\ result[k] = "open"
    BY <1>2 DEF IInv, TasksOK, Settles
  <2>2. ScopesKeep(taskScopes[spawner[k]], k) \/ FramesKeep(frames[spawner[k]], k)
    BY <2>1 DEF JoinInv, KeptInv
  <2>3. ScopesKeep(taskScopes'[spawner'[k]], k) \/ FramesKeep(frames'[spawner'[k]], k)
    BY <2>2
  <2> QED BY <2>3 DEF ScopesKeep, FramesKeep, FrameKeeps, Joining, Has
<1> QED BY <1>1, <1>2 DEF JoinInv, ShapeInv, KeptInv

LEMMA InitJoin == Init => JoinInv
<1> SUFFICES ASSUME Init PROVE JoinInv
  OBVIOUS
<1> DEFINE f == NewFrame("body", "always", 0, 0, 0)
           body == <<f>>
<1>1. /\ frames = [k \in Goroutine |-> IF k = 0 THEN body ELSE <<>>]
      /\ taskScopes = [k \in Goroutine |-> <<>>]
      /\ phase = [k \in Goroutine |-> IF k = 0 THEN "run" ELSE "idle"]
      /\ owned = {}
  BY DEF Init
<1>2. Gathers(f, 0, <<>>)
  BY NewFrameGathers
<1> HIDE DEF f
<1>3. Len(body) = 1 /\ body[1] = f /\ Len(<<>>) = 0
  BY EmptySeq
<1> HIDE DEF body
<1>4. Gathered(body, <<>>) /\ Gathered(<<>>, <<>>) /\ Plain(<<>>)
  <2>1. TaskDepth(body, 0, 1) = 0
    BY <1>3 DEF TaskDepth
  <2> QED BY <1>2, <1>3, <2>1 DEF Gathered, Plain
<1>5. ShapeInv
  BY <1>1, <1>4 DEF ShapeInv
<1>6. KeptInv
  BY <1>1 DEF KeptInv
<1> QED BY <1>5, <1>6 DEF JoinInv

LEMMA NextJoin ==
  Joinable /\ IInv /\ IInv' /\ LinkInv /\ BalanceInv /\ JoinInv /\ [Next]_vars => JoinInv'
<1> SUFFICES ASSUME Joinable, IInv, IInv', LinkInv, BalanceInv, JoinInv, [Next]_vars PROVE JoinInv'
  OBVIOUS
<1>1. ASSUME NEW g \in Goroutine, Instruction(g) PROVE JoinInv'
  BY <1>1, PushScopeJoin, DeferJoin, CallJoin, QuietJoin, UnwindJoin, FrameReturnsJoin
     DEF Instruction
<1>2. ASSUME NEW g \in Goroutine, Progress(g) PROVE JoinInv'
  BY <1>2, PushScopeJoin, StartTaskJoin, UnwindJoin, PopScopeJoin, JoinHandleJoin,
     CancelSiblingJoin, JoinedJoin, RunDeferredJoin, ScopeLeftJoin, RecurScopeLeftJoin,
     UnwindScopeJoin, ScopeUnwoundJoin, FrameReturnsJoin DEF Progress
<1>3. ASSUME NEW h \in Handle, TaskEnds(h) PROVE JoinInv'
  <2>1. UNCHANGED <<frames, taskScopes, owned, spawner>>
    BY <1>3 DEF TaskEnds, TaskCompletes, TaskReleases, stackVars
  <2>2. \A k \in Goroutine : phase[k] = "run" => phase'[k] = "run"
    BY <1>3 DEF TaskEnds, TaskCompletes, TaskReleases, IInv, TasksOK
  <2>3. Settles
    <3>1. CASE TaskCompletes(h)
      <4>1. out[h] # "open" /\ Complete(h, out[h])
        BY <3>1 DEF TaskCompletes, IInv, TasksOK, Proper, Result, Handle, Goroutine
      <4> QED BY <4>1, CompleteOpens
    <3>2. CASE TaskReleases(h)
      BY <3>2 DEF TaskReleases, Settles
    <3> QED BY <1>3, <3>1, <3>2 DEF TaskEnds
  <2> QED BY <2>1, <2>2, <2>3, TaskEndsJoin
<1>4. CASE Exited \/ UNCHANGED vars
  <2>1. UNCHANGED vars
    BY <1>4 DEF Exited
  <2>2. Settles
    BY <2>1 DEF Settles, vars
  <2> QED BY <2>1, <2>2, TaskEndsJoin DEF vars
<1> QED BY <1>1, <1>2, <1>3, <1>4 DEF Next

----------------------------------------------------------------------------
(* What follows *)

\* Where no instruction ends in errorAt and no recur leaves a nursery block,
\* taskScopes, joinTaskScope's list and the handles that migrateTaskScopeChildren
\* carries over a recur hold every task of a nursery that has not completed.
THEOREM NurseriesInductive ==
  ASSUME Joinable PROVE Spec => [](IInv /\ LinkInv /\ BalanceInv /\ JoinInv)
<1>1. Init => JoinInv
  BY InitJoin
<1>2. IInv /\ LinkInv /\ BalanceInv /\ (IInv /\ LinkInv /\ BalanceInv)' /\ JoinInv /\ [Next]_vars
        => JoinInv'
  BY NextJoin
<1>3. Spec => [](IInv /\ LinkInv /\ BalanceInv)
  BY ScopesInductive
<1> QED BY <1>1, <1>2, <1>3, PTL DEF Spec

\* What is kept has a place.
LEMMA KeptHasPlace ==
  ASSUME NEW g \in Goroutine, NEW h,
         ScopesKeep(taskScopes[g], h) \/ FramesKeep(frames[g], h),
         \E S : frames[g] \in Seq(S), \E S : taskScopes[g] \in Seq(S),
         \A i \in 1 .. Len(taskScopes[g]) : \E S : taskScopes[g][i].hs \in Seq(S),
         \A i \in 1 .. Len(frames[g]) :
           /\ \E S : frames[g][i].todo \in Seq(S)
           /\ \E S : frames[g][i].carry \in Seq(S)
  PROVE  Places(h) # {}
<1>1. ASSUME NEW kind, NEW i, NEW hs, \E S : hs \in Seq(S), Has(hs, h)
      PROVE  \E j : <<kind, g, i, j>> \in Listed(kind, g, i, hs, h)
  <2>1. PICK j \in 1 .. Len(hs) : hs[j] = h
    BY <1>1 DEF Has
  <2>2. j \in DOMAIN hs
    BY <1>1, <2>1, LenProperties
  <2> QED BY <2>1, <2>2 DEF Listed
<1>2. CASE ScopesKeep(taskScopes[g], h)
  <2>1. PICK i \in 1 .. Len(taskScopes[g]) : Has(taskScopes[g][i].hs, h)
    BY <1>2 DEF ScopesKeep
  <2>2. i \in DOMAIN taskScopes[g]
    BY <2>1, LenProperties
  <2>3. PICK j : <<"scope", g, i, j>> \in Listed("scope", g, i, taskScopes[g][i].hs, h)
    BY <1>1, <2>1
  <2>4. <<"scope", g, i, j>> \in InScopes(g, h)
    BY <2>2, <2>3 DEF InScopes
  <2> QED BY <2>4 DEF Places
<1>3. CASE FramesKeep(frames[g], h)
  <2>1. PICK i \in 1 .. Len(frames[g]) : FrameKeeps(frames[g][i], h)
    BY <1>3 DEF FramesKeep
  <2> DEFINE f == frames[g][i]
  <2>2. i \in DOMAIN frames[g]
    BY <2>1, LenProperties
  <2>3. CASE Has(Joining(f), h)
    <3>1. \E S : Joining(f) \in Seq(S)
      BY <2>1, EmptySeq DEF Joining
    <3>2. PICK j : <<"todo", g, i, j>> \in Listed("todo", g, i, Joining(f), h)
      BY <1>1, <2>3, <3>1
    <3>3. <<"todo", g, i, j>> \in InFrames(g, h)
      BY <2>2, <3>2 DEF InFrames
    <3> QED BY <3>3 DEF Places
  <2>4. CASE Has(f.carry, h)
    <3>1. PICK j : <<"carry", g, i, j>> \in Listed("carry", g, i, f.carry, h)
      BY <1>1, <2>1, <2>4
    <3>2. <<"carry", g, i, j>> \in InFrames(g, h)
      BY <2>2, <3>1 DEF InFrames
    <3> QED BY <3>2 DEF Places
  <2> QED BY <2>1, <2>3, <2>4 DEF FrameKeeps
<1> QED BY <1>2, <1>3

LEMMA KeptWhileRunning ==
  Joinable /\ IInv /\ LinkInv /\ BalanceInv /\ JoinInv => NurseryJoins
<1> SUFFICES ASSUME Joinable, IInv, LinkInv, BalanceInv, JoinInv,
                    NEW h \in owned, result[h] = "open"
             PROVE  Places(h) # {} /\ phase[spawner[h]] = "run"
  BY DEF NurseryJoins
<1> DEFINE g == spawner[h]
           s == frames[g]
           T == taskScopes[g]
<1>1. h \in Handle /\ g \in Goroutine
  BY DEF IInv, TasksOK
<1>2. ScopesKeep(T, h) \/ FramesKeep(s, h)
  BY DEF JoinInv, KeptInv
<1> HIDE DEF g
<1>3. s \in FrameSeq /\ T \in Seq(ScopeUpTo(spawned))
  BY <1>1, FramesTyped
<1>4. ASSUME NEW i \in 1 .. Len(T) PROVE T[i].hs \in Seq(1 .. spawned)
  <2>1. T[i] \in ScopeUpTo(spawned)
    <3> HIDE DEF T
    <3> QED BY <1>3, ElementOfSeq
  <2> QED BY <2>1 DEF ScopeUpTo, HandleList
<1>5. ASSUME NEW i \in 1 .. Len(s)
      PROVE  s[i].todo \in Seq(1 .. spawned) /\ s[i].carry \in Seq(1 .. spawned)
  <2>1. s[i] \in FrameRec(spawned)
    <3> HIDE DEF s
    <3> QED BY <1>3, ElementOfSeq DEF FrameSeq
  <2> QED BY <2>1 DEF FrameRec, HandleList
<1>6. Places(h) # {}
  BY <1>1, <1>2, <1>3, <1>4, <1>5, KeptHasPlace DEF FrameSeq
<1>7. s # <<>>
  <2> SUFFICES ASSUME s = <<>> PROVE FALSE
    OBVIOUS
  <2>1. T = <<>>
    BY <1>1 DEF BalanceInv, Balanced, Aligned, Even, Joinable
  <2>2. ~ScopesKeep(<<>>, h) /\ ~FramesKeep(<<>>, h)
    BY EmptySeq DEF ScopesKeep, FramesKeep
  <2> QED BY <1>2, <2>1, <2>2
<1>8. phase[g] = "run"
  BY <1>1, <1>7 DEF JoinInv, ShapeInv
<1> QED BY <1>6, <1>8 DEF g

\* OpPopScope, recur, early returns and errors leave no nursery before
\* joinTaskScope has waited for each of its handles: as long as a task of a
\* nursery has no result, the executor that spawned it keeps its handle and
\* has not returned, and so can neither return past it nor orphan it.
THEOREM NurseriesJoin ==
  ASSUME Joinable PROVE Spec => []NurseryJoins
BY NurseriesInductive, KeptWhileRunning, PTL
=============================================================================
