--------------------------- MODULE Scopes_proofs ---------------------------
(***************************************************************************)
(* Proofs about the scopes of Executor, for every program: a frame never   *)
(* pops what it did not push, calls give back the scopes they borrow, and  *)
(* limiters stay at the depth of their nurseries.                          *)
(***************************************************************************)
EXTENDS Executor_proofs

----------------------------------------------------------------------------
(* The inductive invariant *)

\* The depth of the task scopes, n at the moment, that the i-th frame of a
\* goroutine has: what the frame it called borrowed; likewise of the limits.
TaskDepth(s, n, i) == IF i = Len(s) THEN n ELSE s[i + 1].taskBase
LimitDepth(s, m, i) == IF i = Len(s) THEN m ELSE s[i + 1].limBase

\* A frame has the environment, the defer scope and the task scope of each
\* scope it opened, but for those of the scope it is leaving.
FrameOpen(f, n) ==
  /\ f.taskBase <= n /\ f.env >= 0
  /\ f.goal \in {"pop", "recur"} => f.open > 0
  /\ f.st # "unwind" /\ f.goal # "unwind" =>
       /\ f.env >= f.open
       /\ Len(f.defers) + (IF f.st = "defers" THEN 1 ELSE 0) >= f.open
       /\ n + (IF f.goal = "pop" THEN 1 ELSE 0) >= f.taskBase + f.open

Opened(s, n) == \A i \in 1 .. Len(s) : FrameOpen(s[i], TaskDepth(s, n, i))

\* A frame has made a limit for each of its task scopes, and one more while
\* it leaves a scope; it unwinds defer scopes that have neither.
FrameEven(f, n, m) ==
  /\ f.goal \in {"none", "recur"} => m - f.limBase = n - f.taskBase
  /\ f.goal = "pop" => m - f.limBase = n - f.taskBase + 1
  /\ f.goal = "unwind" => \/ m - f.limBase = n - f.taskBase + 1
                          \/ m = f.limBase /\ n = f.taskBase

\* In the frame's part of both stacks, nursery scopes have a limiter.
Paired(f, n, scopes, limits) ==
  \A j \in 1 .. n - f.taskBase :
    limits[f.limBase + j] # 0 <=> scopes[f.taskBase + j].nursery

Even(s, scopes, limits) ==
  \A i \in 1 .. Len(s) :
    /\ FrameEven(s[i], TaskDepth(s, Len(scopes), i), LimitDepth(s, Len(limits), i))
    /\ Paired(s[i], TaskDepth(s, Len(scopes), i), scopes, limits)

\* The parts lie in the order of the frames.
Stacked(s) == \A i, k \in 1 .. Len(s) : i <= k =>
                s[i].taskBase <= s[k].taskBase /\ s[i].limBase <= s[k].limBase

\* Both parts begin at the same depth if no frame below leaves a scope.
Level(s) == \A i \in 1 .. Len(s) :
              (\A k \in 1 .. i - 1 : s[k].goal \in {"none", "recur"}) =>
                s[i].limBase = s[i].taskBase

\* Every task scope belongs to a frame.
Covered(s, n) == \A j \in 1 .. n : \E i \in 1 .. Len(s) :
                   s[i].taskBase < j /\ j <= TaskDepth(s, n, i)

Aligned(s, scopes, limits) ==
  /\ s = <<>> => scopes = <<>> /\ limits = <<>>
  /\ Even(s, scopes, limits) /\ Stacked(s) /\ Level(s) /\ Covered(s, Len(scopes))

\* No instruction of the program ends in errorAt, which leaves the scopes of
\* its frame where they are.
Clean == "fault" \notin Ops

Balanced(g) ==
  /\ Opened(frames[g], Len(taskScopes[g]))
  /\ Clean => Aligned(frames[g], taskScopes[g], taskLimits[g])

BalanceInv ==
  /\ \A g \in Goroutine : Balanced(g)
  /\ \A h \in Handle : h > spawned =>
       frames[h] = <<>> /\ taskScopes[h] = <<>> /\ taskLimits[h] = <<>>

----------------------------------------------------------------------------
(* Stacks of frames, by position *)

\* The bases of frames are depths.
FrameSeq == Seq(FrameRec(spawned))

LEMMA BasesType ==
  ASSUME NEW s \in FrameSeq, NEW i \in 1 .. Len(s)
  PROVE  /\ s[i].taskBase \in Nat /\ s[i].limBase \in Nat
         /\ s[i].open \in Int /\ s[i].env \in Int /\ Len(s[i].defers) \in Nat
         /\ s[i].goal \in Goal
<1>1. s[i] \in FrameRec(spawned)
  BY ElementOfSeq DEF FrameSeq
<1>2. s[i].defers \in Seq(Seq(Mode))
  BY <1>1 DEF FrameRec
<1> QED BY <1>1, <1>2, LenProperties DEF FrameRec

\* With more task scopes a frame still has its own.
LEMMA OpenMore ==
  ASSUME NEW f, f.taskBase \in Nat, f.open \in Int, NEW n \in Nat, NEW m \in Nat, n <= m,
         FrameOpen(f, n)
  PROVE  FrameOpen(f, m)
<1> DEFINE joining == IF f.goal = "pop" THEN 1 ELSE 0
<1>1. joining \in Int
  OBVIOUS
<1>2. n + joining >= f.taskBase + f.open => m + joining >= f.taskBase + f.open
  <2> HIDE DEF joining
  <2> QED BY <1>1
<1>3. f.taskBase <= n => f.taskBase <= m
  OBVIOUS
<1> QED BY ONLY <1>2, <1>3, FrameOpen(f, n) DEF FrameOpen

\* The frame on top is replaced.
LEMMA OpenedTop ==
  ASSUME NEW s \in FrameSeq, NEW t \in FrameSeq, Len(s) >= 1, Len(t) = Len(s),
         \A i \in 1 .. Len(s) - 1 : t[i] = s[i],
         t[Len(s)].taskBase = s[Len(s)].taskBase,
         NEW n \in Nat, NEW m \in Nat, Opened(s, n), FrameOpen(t[Len(s)], m)
  PROVE  Opened(t, m)
<1>1. Len(s) \in Nat
  BY LenProperties DEF FrameSeq
<1> SUFFICES ASSUME NEW i \in 1 .. Len(t) PROVE FrameOpen(t[i], TaskDepth(t, m, i))
  BY DEF Opened
<1>2. CASE i = Len(s)
  BY <1>2 DEF TaskDepth
<1>3. CASE i \in 1 .. Len(s) - 1
  <2>1. TaskDepth(t, m, i) = t[i + 1].taskBase /\ TaskDepth(s, n, i) = s[i + 1].taskBase
    BY <1>1, <1>3 DEF TaskDepth
  <2>2. t[i + 1].taskBase = s[i + 1].taskBase
    BY <1>1, <1>3
  <2>3. FrameOpen(s[i], TaskDepth(s, n, i))
    BY <1>1, <1>3 DEF Opened
  <2> QED BY <1>3, <2>1, <2>2, <2>3
<1> QED BY <1>1, <1>2, <1>3

\* A frame is pushed.
LEMMA OpenedPush ==
  ASSUME NEW s \in FrameSeq, NEW t \in FrameSeq, Len(t) = Len(s) + 1,
         \A i \in 1 .. Len(s) : t[i] = s[i],
         NEW n \in Nat, t[Len(s) + 1].taskBase = n,
         Opened(s, n), FrameOpen(t[Len(s) + 1], n)
  PROVE  Opened(t, n)
<1>1. Len(s) \in Nat
  BY LenProperties DEF FrameSeq
<1> SUFFICES ASSUME NEW i \in 1 .. Len(t) PROVE FrameOpen(t[i], TaskDepth(t, n, i))
  BY DEF Opened
<1>2. CASE i = Len(s) + 1
  BY <1>2 DEF TaskDepth
<1>3. CASE i \in 1 .. Len(s)
  <2>1. TaskDepth(t, n, i) = TaskDepth(s, n, i)
    BY <1>1, <1>3 DEF TaskDepth
  <2>2. FrameOpen(s[i], TaskDepth(s, n, i))
    BY <1>3 DEF Opened
  <2> QED BY <1>3, <2>1, <2>2
<1> QED BY <1>1, <1>2, <1>3

\* The frame on top is gone, with at least the task scopes it borrowed.
LEMMA OpenedPop ==
  ASSUME NEW s \in FrameSeq, NEW t \in FrameSeq, Len(s) >= 1, Len(t) = Len(s) - 1,
         \A i \in 1 .. Len(t) : t[i] = s[i],
         NEW n \in Nat, Opened(s, n)
  PROVE  Opened(t, n)
<1>1. Len(s) \in Nat
  BY LenProperties DEF FrameSeq
<1> SUFFICES ASSUME NEW i \in 1 .. Len(t) PROVE FrameOpen(t[i], TaskDepth(t, n, i))
  BY DEF Opened
<1>2. i \in 1 .. Len(s) /\ i # Len(s) /\ i + 1 \in 1 .. Len(s)
  BY <1>1
<1>3. FrameOpen(s[i], s[i + 1].taskBase)
  BY <1>2 DEF Opened, TaskDepth
<1>4. s[i].taskBase \in Nat /\ s[i].open \in Int /\ s[i + 1].taskBase \in Nat
  BY <1>2, BasesType
<1>5. CASE i = Len(t)
  <2>1. i + 1 = Len(s)
    BY <1>1, <1>5
  <2>2. s[i + 1].taskBase <= n
    BY <1>2, <2>1 DEF Opened, TaskDepth, FrameOpen
  <2>3. FrameOpen(s[i], n)
    BY <1>3, <1>4, <2>2, OpenMore
  <2> QED BY <1>5, <2>3 DEF TaskDepth
<1>6. CASE i # Len(t)
  <2>1. TaskDepth(t, n, i) = t[i + 1].taskBase /\ t[i + 1] = s[i + 1]
    BY <1>1, <1>6 DEF TaskDepth
  <2> QED BY <1>3, <2>1
<1> QED BY <1>5, <1>6

----------------------------------------------------------------------------
(* Task scopes and limits side by side *)

\* A frame's part of the limits is at least as large as that of the scopes.
LEMMA EvenBound ==
  ASSUME NEW s \in FrameSeq, NEW i \in 1 .. Len(s), NEW n \in Nat, NEW m \in Nat,
         s[i].taskBase <= n, FrameEven(s[i], n, m)
  PROVE  m - s[i].limBase >= n - s[i].taskBase /\ s[i].limBase <= m
<1>1. s[i].taskBase \in Nat /\ s[i].limBase \in Nat /\ s[i].goal \in Goal
  BY BasesType
<1>2. \/ m - s[i].limBase = n - s[i].taskBase
      \/ m - s[i].limBase = n - s[i].taskBase + 1
  BY <1>1 DEF FrameEven, Goal
<1> QED BY <1>1, <1>2

\* Where the part of a frame ends, its successor's begins, below the top.
LEMMA PartsInOrder ==
  ASSUME NEW s \in FrameSeq, NEW N, Len(s) = N, N >= 1, NEW n \in Nat, NEW m \in Nat,
         Opened(s, n), Stacked(s), NEW i \in 1 .. N - 1
  PROVE  /\ TaskDepth(s, n, i) \in Nat /\ LimitDepth(s, m, i) \in Nat
         /\ s[i].taskBase <= TaskDepth(s, n, i) /\ TaskDepth(s, n, i) <= s[N].taskBase
         /\ LimitDepth(s, m, i) <= s[N].limBase
<1>1. N \in Nat /\ i \in 1 .. N /\ i + 1 \in 1 .. N /\ N \in 1 .. N /\ i # N /\ i + 1 <= N
  BY LenProperties DEF FrameSeq
<1>2. TaskDepth(s, n, i) = s[i + 1].taskBase /\ LimitDepth(s, m, i) = s[i + 1].limBase
  BY <1>1 DEF TaskDepth, LimitDepth
<1>3. s[i + 1].taskBase \in Nat /\ s[i + 1].limBase \in Nat
  BY <1>1, BasesType
<1>4. s[i].taskBase <= TaskDepth(s, n, i)
  BY <1>1 DEF Opened, FrameOpen
<1>5. s[i + 1].taskBase <= s[N].taskBase /\ s[i + 1].limBase <= s[N].limBase
  BY <1>1 DEF Stacked
<1> QED BY <1>2, <1>3, <1>4, <1>5

\* What a step of one frame does to both stacks: it may change handles, pop,
\* or push a scope with its limit.
Extends(scopes, limits, scopes2, limits2) ==
  /\ \A j \in 1 .. Len(scopes2) : j <= Len(scopes) => scopes2[j].nursery = scopes[j].nursery
  /\ \A j \in 1 .. Len(limits2) : j <= Len(limits) => limits2[j] = limits[j]
  /\ Len(scopes2) > Len(scopes) =>
       /\ Len(scopes2) = Len(scopes) + 1
       /\ limits2[Len(limits2)] # 0 <=> scopes2[Len(scopes2)].nursery

\* The parts of the frames below the top stay as they are.
LEMMA PairedBelow ==
  ASSUME NEW s \in FrameSeq, NEW N, Len(s) = N, N >= 1,
         NEW scopes, NEW limits, NEW scopes2, NEW limits2,
         NEW n \in Nat, NEW m \in Nat, NEW n2 \in Nat, NEW m2 \in Nat,
         n = Len(scopes), m = Len(limits), n2 = Len(scopes2), m2 = Len(limits2),
         Opened(s, n), Stacked(s), Even(s, scopes, limits),
         Extends(scopes, limits, scopes2, limits2),
         s[N].taskBase <= n2, s[N].limBase <= m2,
         NEW i \in 1 .. N - 1
  PROVE  /\ FrameEven(s[i], TaskDepth(s, n, i), LimitDepth(s, m, i))
         /\ Paired(s[i], TaskDepth(s, n, i), scopes2, limits2)
<1>1. N \in Nat /\ i \in 1 .. N /\ N \in 1 .. N
  BY LenProperties DEF FrameSeq
<1> DEFINE d == TaskDepth(s, n, i)
           l == LimitDepth(s, m, i)
           tb == s[i].taskBase
           lb == s[i].limBase
<1>2. d \in Nat /\ l \in Nat /\ tb <= d /\ d <= s[N].taskBase /\ l <= s[N].limBase
  BY PartsInOrder
<1>3. FrameEven(s[i], d, l) /\ Paired(s[i], d, scopes, limits)
  BY <1>1 DEF Even
<1>4. l - lb >= d - tb
  BY <1>1, <1>2, <1>3, EvenBound
<1>5. tb \in Nat /\ lb \in Nat /\ s[N].taskBase \in Nat /\ s[N].limBase \in Nat
  BY <1>1, BasesType
<1>6. s[N].taskBase <= n /\ s[N].limBase <= m
  <2>1. TaskDepth(s, n, N) = n /\ LimitDepth(s, m, N) = m
    BY DEF TaskDepth, LimitDepth
  <2>2. s[N].taskBase <= n /\ FrameEven(s[N], n, m)
    BY <1>1, <2>1 DEF Opened, FrameOpen, Even
  <2> QED BY <1>1, <2>2, EvenBound
<1>7. ASSUME NEW j \in 1 .. d - tb
      PROVE  limits2[lb + j] # 0 <=> scopes2[tb + j].nursery
  <2> HIDE DEF d, l, tb, lb
  <2>1. /\ tb + j \in 1 .. n2 /\ tb + j <= n
        /\ lb + j \in 1 .. m2 /\ lb + j <= m
    BY <1>2, <1>4, <1>5, <1>6
  <2>2. scopes2[tb + j].nursery = scopes[tb + j].nursery /\ limits2[lb + j] = limits[lb + j]
    BY <2>1 DEF Extends
  <2>3. limits[lb + j] # 0 <=> scopes[tb + j].nursery
    BY <1>3 DEF Paired, tb, lb
  <2> QED BY <2>2, <2>3
<1> QED BY <1>3, <1>7 DEF Paired

\* The part of the top frame, which has changed with it.
LEMMA PairedTop ==
  ASSUME NEW s \in FrameSeq, NEW N, Len(s) = N, N >= 1,
         NEW scopes, NEW limits, NEW scopes2, NEW limits2,
         NEW n \in Nat, NEW m \in Nat, NEW n2 \in Nat, NEW m2 \in Nat,
         n = Len(scopes), m = Len(limits), n2 = Len(scopes2), m2 = Len(limits2),
         s[N].taskBase <= n, Even(s, scopes, limits),
         Extends(scopes, limits, scopes2, limits2),
         m2 - s[N].limBase >= n2 - s[N].taskBase,
         n2 > n => m2 - s[N].limBase = n2 - s[N].taskBase
  PROVE  Paired(s[N], n2, scopes2, limits2)
<1>1. N \in Nat /\ N \in 1 .. N
  BY LenProperties DEF FrameSeq
<1> DEFINE tb == s[N].taskBase
           lb == s[N].limBase
<1>2. tb \in Nat /\ lb \in Nat
  BY <1>1, BasesType
<1>3. FrameEven(s[N], n, m) /\ Paired(s[N], n, scopes, limits)
  <2>1. TaskDepth(s, n, N) = n /\ LimitDepth(s, m, N) = m
    BY DEF TaskDepth, LimitDepth
  <2> QED BY <1>1, <2>1 DEF Even
<1>4. m - lb >= n - tb
  BY <1>1, <1>3, EvenBound
<1>5. m2 - lb >= n2 - tb /\ (n2 > n => m2 - lb = n2 - tb)
  OBVIOUS
<1>6. ASSUME NEW j \in 1 .. n2 - tb
      PROVE  limits2[lb + j] # 0 <=> scopes2[tb + j].nursery
  <2> HIDE DEF tb, lb
  <2>1. CASE tb + j <= n
    <3>1. /\ tb + j \in 1 .. n2 /\ lb + j \in 1 .. m2 /\ lb + j <= m /\ j \in 1 .. n - tb
      BY <1>2, <1>4, <1>5, <2>1
    <3>2. scopes2[tb + j].nursery = scopes[tb + j].nursery /\ limits2[lb + j] = limits[lb + j]
      BY <2>1, <3>1 DEF Extends
    <3>3. limits[lb + j] # 0 <=> scopes[tb + j].nursery
      BY <1>3, <3>1 DEF Paired, tb, lb
    <3> QED BY <3>2, <3>3
  <2>2. CASE ~(tb + j <= n)
    <3>1. n2 > n
      BY <1>2, <2>2
    <3>2. n2 = n + 1 /\ (limits2[m2] # 0 <=> scopes2[n2].nursery)
      BY <3>1 DEF Extends
    <3>3. tb + j = n2 /\ lb + j = m2
      BY <1>2, <1>5, <2>2, <3>1, <3>2
    <3> QED BY <3>2, <3>3
  <2> QED BY <2>1, <2>2
<1> QED BY <1>6 DEF Paired

\* The frame on top is replaced by one with the same bases.
LEMMA AlignedTop ==
  ASSUME NEW s \in FrameSeq, NEW t \in FrameSeq, Len(t) = Len(s), Len(s) >= 1,
         \A i \in 1 .. Len(s) - 1 : t[i] = s[i],
         t[Len(s)].taskBase = s[Len(s)].taskBase, t[Len(s)].limBase = s[Len(s)].limBase,
         NEW scopes, NEW limits, NEW scopes2, NEW limits2,
         Len(scopes) \in Nat, Len(limits) \in Nat, Len(scopes2) \in Nat, Len(limits2) \in Nat,
         Opened(s, Len(scopes)), Aligned(s, scopes, limits),
         Extends(scopes, limits, scopes2, limits2),
         t[Len(s)].taskBase <= Len(scopes2), FrameEven(t[Len(s)], Len(scopes2), Len(limits2)),
         Len(scopes2) > Len(scopes) => t[Len(s)].goal = "none"
  PROVE  Aligned(t, scopes2, limits2)
<1> PICK N, n, m, n2, m2 :
      /\ N = Len(s) /\ Len(t) = N /\ N >= 1
      /\ \A i \in 1 .. N - 1 : t[i] = s[i]
      /\ t[N].taskBase = s[N].taskBase /\ t[N].limBase = s[N].limBase
      /\ n = Len(scopes) /\ m = Len(limits) /\ n2 = Len(scopes2) /\ m2 = Len(limits2)
      /\ n \in Nat /\ m \in Nat /\ n2 \in Nat /\ m2 \in Nat
      /\ Opened(s, n) /\ t[N].taskBase <= n2 /\ FrameEven(t[N], n2, m2)
      /\ n2 > n => t[N].goal = "none"
  OBVIOUS
<1>1. N \in Nat /\ N \in 1 .. N /\ t # <<>>
  BY LenProperties, EmptySeq DEF FrameSeq
<1>2. Even(s, scopes, limits) /\ Stacked(s) /\ Level(s) /\ Covered(s, n)
  BY DEF Aligned
<1>3. m2 - t[N].limBase >= n2 - t[N].taskBase /\ t[N].limBase <= m2
  BY <1>1, EvenBound
<1>4. s[N].taskBase <= n
  BY <1>1 DEF Opened, FrameOpen, TaskDepth
<1>5. /\ \A i \in 1 .. N : t[i].taskBase = s[i].taskBase /\ t[i].limBase = s[i].limBase
      /\ \A i \in 1 .. N - 1 : /\ TaskDepth(t, n2, i) = TaskDepth(s, n, i)
                               /\ LimitDepth(t, m2, i) = LimitDepth(s, m, i)
  <2>1. \A i \in 1 .. N : t[i].taskBase = s[i].taskBase /\ t[i].limBase = s[i].limBase
    BY <1>1
  <2> QED BY <1>1, <2>1 DEF TaskDepth, LimitDepth
<1>6. TaskDepth(t, n2, N) = n2 /\ LimitDepth(t, m2, N) = m2 /\ TaskDepth(s, n, N) = n
  BY DEF TaskDepth, LimitDepth
<1>7. Even(t, scopes2, limits2)
  <2> SUFFICES ASSUME NEW i \in 1 .. N
               PROVE  /\ FrameEven(t[i], TaskDepth(t, n2, i), LimitDepth(t, m2, i))
                      /\ Paired(t[i], TaskDepth(t, n2, i), scopes2, limits2)
    BY DEF Even
  <2>1. CASE i = N
    <3>1. n2 > n => m2 - s[N].limBase = n2 - s[N].taskBase
      BY DEF FrameEven
    <3>2. Paired(s[N], n2, scopes2, limits2)
      BY <1>2, <1>3, <1>4, <3>1, PairedTop
    <3> QED BY <1>6, <2>1, <3>2 DEF Paired
  <2>2. CASE i # N
    <3>1. i \in 1 .. N - 1
      BY <1>1, <2>2
    <3>2. /\ FrameEven(s[i], TaskDepth(s, n, i), LimitDepth(s, m, i))
          /\ Paired(s[i], TaskDepth(s, n, i), scopes2, limits2)
      BY <1>2, <1>3, <3>1, PairedBelow
    <3> QED BY <1>5, <3>1, <3>2
  <2> QED BY <2>1, <2>2
<1>8. Stacked(t)
  BY <1>2, <1>5 DEF Stacked
<1>9. Level(t)
  <2> SUFFICES ASSUME NEW i \in 1 .. N, \A k \in 1 .. i - 1 : t[k].goal \in {"none", "recur"}
               PROVE  t[i].limBase = t[i].taskBase
    BY DEF Level
  <2>1. \A k \in 1 .. i - 1 : k \in 1 .. N - 1 /\ s[k].goal \in {"none", "recur"}
    <3> SUFFICES ASSUME NEW k \in 1 .. i - 1
                 PROVE  k \in 1 .. N - 1 /\ s[k].goal \in {"none", "recur"}
      OBVIOUS
    <3>1. k \in 1 .. N - 1 /\ t[k].goal \in {"none", "recur"}
      BY <1>1
    <3>2. t[k] = s[k]
      BY <3>1
    <3> QED BY <3>1, <3>2
  <2>2. s[i].limBase = s[i].taskBase
    BY <1>2, <2>1 DEF Level
  <2> QED BY <1>5, <2>2
<1>10. Covered(t, n2)
  <2> SUFFICES ASSUME NEW j \in 1 .. n2
               PROVE  \E i \in 1 .. N : t[i].taskBase < j /\ j <= TaskDepth(t, n2, i)
    BY DEF Covered
  <2>1. t[N].taskBase \in Nat
    BY <1>1, BasesType
  <2>2. CASE t[N].taskBase < j
    BY <1>1, <1>6, <2>2
  <2>3. CASE ~(t[N].taskBase < j)
    <3>1. j \in 1 .. n
      BY <1>4, <1>5, <2>1, <2>3
    <3>2. PICK i \in 1 .. N : s[i].taskBase < j /\ j <= TaskDepth(s, n, i)
      BY <1>2, <3>1 DEF Covered
    <3>3. i \in 1 .. N - 1
      BY <1>1, <2>3, <3>2
    <3> QED BY <1>1, <1>5, <3>2, <3>3
  <2> QED BY <2>2, <2>3
<1> QED BY <1>1, <1>7, <1>8, <1>9, <1>10 DEF Aligned

\* A frame is pushed that borrows all task scopes and limits, by a frame that
\* leaves no scope or runs the defers of one.
LEMMA AlignedPush ==
  ASSUME NEW s \in FrameSeq, NEW t \in FrameSeq, NEW N \in Nat, Len(s) = N, Len(t) = N + 1, N >= 1,
         \A i \in 1 .. N : t[i] = s[i],
         NEW scopes, NEW limits, NEW n \in Nat, NEW m \in Nat,
         n = Len(scopes), m = Len(limits),
         t[N + 1].taskBase = n, t[N + 1].limBase = m, t[N + 1].goal = "none",
         Opened(s, n), Aligned(s, scopes, limits)
  PROVE  Aligned(t, scopes, limits)
<1>1. N \in 1 .. N /\ N + 1 \in 1 .. N + 1 /\ t # <<>>
  BY LenProperties, EmptySeq DEF FrameSeq
<1>2. Even(s, scopes, limits) /\ Stacked(s) /\ Level(s) /\ Covered(s, n)
  BY DEF Aligned
<1>3. \A i \in 1 .. N : /\ TaskDepth(t, n, i) = TaskDepth(s, n, i)
                        /\ LimitDepth(t, m, i) = LimitDepth(s, m, i)
  BY DEF TaskDepth, LimitDepth
<1>4. TaskDepth(t, n, N + 1) = n /\ LimitDepth(t, m, N + 1) = m
      /\ TaskDepth(s, n, N) = n /\ LimitDepth(s, m, N) = m
  BY DEF TaskDepth, LimitDepth
<1>5. s[N].taskBase <= n /\ s[N].limBase <= m /\ FrameEven(s[N], n, m)
  <2>1. s[N].taskBase <= n /\ FrameEven(s[N], n, m)
    BY <1>1, <1>2, <1>4 DEF Opened, FrameOpen, Even
  <2> QED BY <1>1, <2>1, EvenBound
<1>6. Even(t, scopes, limits)
  <2> SUFFICES ASSUME NEW i \in 1 .. N + 1
               PROVE  /\ FrameEven(t[i], TaskDepth(t, n, i), LimitDepth(t, m, i))
                      /\ Paired(t[i], TaskDepth(t, n, i), scopes, limits)
    BY DEF Even
  <2>1. CASE i = N + 1
    <3>1. 1 .. n - t[i].taskBase = {}
      BY <2>1
    <3> QED BY <1>4, <2>1, <3>1 DEF FrameEven, Paired
  <2>2. CASE i \in 1 .. N
    BY <1>2, <1>3, <2>2 DEF Even
  <2> QED BY <2>1, <2>2
<1>7. Stacked(t)
  <2> SUFFICES ASSUME NEW i \in 1 .. N + 1, NEW k \in 1 .. N + 1, i <= k
               PROVE  t[i].taskBase <= t[k].taskBase /\ t[i].limBase <= t[k].limBase
    BY DEF Stacked
  <2>1. CASE k \in 1 .. N
    BY <1>2, <2>1 DEF Stacked
  <2>2. CASE i = N + 1 /\ k = N + 1
    BY <2>2
  <2>3. CASE i \in 1 .. N /\ k = N + 1
    <3>1. s[i].taskBase <= s[N].taskBase /\ s[i].limBase <= s[N].limBase
      BY <1>1, <1>2, <2>3 DEF Stacked
    <3>2. /\ s[i].taskBase \in Nat /\ s[N].taskBase \in Nat
          /\ s[i].limBase \in Nat /\ s[N].limBase \in Nat
      BY <1>1, <2>3, BasesType
    <3> QED BY <1>5, <2>3, <3>1, <3>2
  <2> QED BY <2>1, <2>2, <2>3
<1>8. Level(t)
  <2> SUFFICES ASSUME NEW i \in 1 .. N + 1, \A k \in 1 .. i - 1 : t[k].goal \in {"none", "recur"}
               PROVE  t[i].limBase = t[i].taskBase
    BY DEF Level
  <2>1. CASE i \in 1 .. N
    BY <1>2, <2>1 DEF Level
  <2>2. CASE i = N + 1
    <3>1. \A k \in 1 .. N : s[k].goal \in {"none", "recur"}
      BY <2>2
    <3>2. s[N].limBase = s[N].taskBase
      BY <1>1, <1>2, <3>1 DEF Level
    <3>3. m - s[N].limBase = n - s[N].taskBase
      BY <1>1, <1>5, <3>1 DEF FrameEven
    <3>4. s[N].taskBase \in Nat /\ s[N].limBase \in Nat
      BY <1>1, BasesType
    <3> QED BY <2>2, <3>2, <3>3, <3>4
  <2> QED BY <2>1, <2>2
<1>9. Covered(t, n)
  <2> SUFFICES ASSUME NEW j \in 1 .. n
               PROVE  \E i \in 1 .. N + 1 : t[i].taskBase < j /\ j <= TaskDepth(t, n, i)
    BY DEF Covered
  <2>1. PICK i \in 1 .. N : s[i].taskBase < j /\ j <= TaskDepth(s, n, i)
    BY <1>2 DEF Covered
  <2> QED BY <1>3, <2>1
<1> QED BY <1>1, <1>6, <1>7, <1>8, <1>9 DEF Aligned

\* The frame on top is gone, and the task scopes and limits are those that it
\* borrowed.
LEMMA AlignedPop ==
  ASSUME NEW s \in FrameSeq, NEW t \in FrameSeq, NEW N \in Nat, Len(s) = N + 1, Len(t) = N,
         \A i \in 1 .. N : t[i] = s[i],
         NEW S1, NEW S2, NEW scopes \in Seq(S1), NEW limits \in Seq(S2), NEW n \in Nat, NEW m \in Nat,
         n = Len(scopes), m = Len(limits),
         s[N + 1].taskBase = n, s[N + 1].limBase = m,
         Aligned(s, scopes, limits)
  PROVE  Aligned(t, scopes, limits)
<1>1. N + 1 \in 1 .. N + 1
  OBVIOUS
<1>2. Even(s, scopes, limits) /\ Stacked(s) /\ Level(s) /\ Covered(s, n)
  BY DEF Aligned
<1>3. \A i \in 1 .. N : /\ TaskDepth(t, n, i) = TaskDepth(s, n, i)
                        /\ LimitDepth(t, m, i) = LimitDepth(s, m, i)
  BY DEF TaskDepth, LimitDepth
<1>4. Even(t, scopes, limits)
  BY <1>2, <1>3 DEF Even
<1>5. Stacked(t)
  BY <1>2 DEF Stacked
<1>6. Level(t)
  <2> SUFFICES ASSUME NEW i \in 1 .. N, \A k \in 1 .. i - 1 : t[k].goal \in {"none", "recur"}
               PROVE  t[i].limBase = t[i].taskBase
    BY DEF Level
  <2>1. \A k \in 1 .. i - 1 : k \in 1 .. N /\ s[k].goal \in {"none", "recur"}
    OBVIOUS
  <2> QED BY <1>2, <2>1 DEF Level
<1>7. ASSUME NEW j \in 1 .. n
      PROVE  \E i \in 1 .. N : t[i].taskBase < j /\ j <= TaskDepth(t, n, i)
  <2>1. PICK i \in 1 .. N + 1 : s[i].taskBase < j /\ j <= TaskDepth(s, n, i)
    BY <1>2 DEF Covered
  <2>2. i \in 1 .. N
    BY <2>1
  <2> QED BY <1>3, <2>1, <2>2
<1>8. Covered(t, n)
  BY <1>7 DEF Covered
<1>9. ASSUME t = <<>> PROVE scopes = <<>> /\ limits = <<>>
  <2>1. N = 0
    BY <1>9, EmptySeq
  <2>2. n = 0
    BY <1>7, <2>1
  <2>3. m = 0
    BY <1>1, <1>2, <2>1, <2>2 DEF Level
  <2> QED BY <2>2, <2>3, EmptySeq
<1> QED BY <1>4, <1>5, <1>6, <1>8, <1>9 DEF Aligned

----------------------------------------------------------------------------
(* The shapes of a step *)

LEMMA FramesTyped ==
  ASSUME IInv, NEW g \in Goroutine
  PROVE  /\ frames[g] \in FrameSeq /\ spawned \in Nat
         /\ taskScopes[g] \in Seq(ScopeUpTo(spawned))
         /\ taskLimits[g] \in Seq(0 .. Len(limiter))
         /\ Len(frames[g]) \in Nat
         /\ Len(taskScopes[g]) \in Nat /\ Len(taskLimits[g]) \in Nat
<1>1. FrameUpTo(spawned) \subseteq FrameRec(spawned)
  BY DEF FrameUpTo
<1>2. frames[g] \in Seq(FrameUpTo(spawned)) /\ spawned \in Nat
  BY ExecutorAssumption DEF IInv, FramesOK, TasksOK
<1>3. frames[g] \in FrameSeq
  BY <1>1, <1>2, SeqMonotonic DEF FrameSeq
<1>4. /\ taskScopes[g] \in Seq(ScopeUpTo(spawned))
      /\ taskLimits[g] \in Seq(0 .. Len(limiter))
  BY DEF IInv, ScopesOK, LimitersOK
<1> QED BY <1>2, <1>3, <1>4, LenProperties

\* What a running goroutine's top frame has, in numbers.
LEMMA TopCounts ==
  ASSUME IInv, LinkInv, BalanceInv, NEW g \in Goroutine, Running(g)
  PROVE  LET f == Top(g)
             n == Len(taskScopes[g])
             m == Len(taskLimits[g])
         IN  /\ f \in FrameRec(spawned) /\ FrameSt(f) /\ f.goal \in Goal
             /\ f.open \in Int /\ f.env \in Int /\ Len(f.defers) \in Nat
             /\ f.taskBase \in Nat /\ f.limBase \in Nat /\ n \in Nat /\ m \in Nat
             /\ FrameOpen(f, n)
             /\ Clean => FrameEven(f, n, m)
<1> DEFINE s == frames[g]
           n == Len(taskScopes[g])
           m == Len(taskLimits[g])
<1>1. Top(g) \in FrameRec(spawned) /\ FrameSt(Top(g)) /\ s # <<>> /\ s \in FrameSeq
  BY TopGood, FramesTyped
<1>2. Len(s) \in Nat /\ Len(s) >= 1 /\ Top(g) = s[Len(s)]
  BY <1>1, StackParts DEF Top, FrameSeq
<1>3. Len(s) \in 1 .. Len(s) /\ TaskDepth(s, n, Len(s)) = n /\ LimitDepth(s, m, Len(s)) = m
  BY <1>2 DEF TaskDepth, LimitDepth
<1>4. FrameOpen(Top(g), n) /\ (Clean => FrameEven(Top(g), n, m))
  BY <1>2, <1>3 DEF BalanceInv, Balanced, Opened, Aligned, Even
<1>5. n \in Nat /\ m \in Nat
  BY FramesTyped
<1> HIDE DEF s
<1> QED BY <1>1, <1>2, <1>3, <1>4, <1>5, BasesType

\* A step of goroutine g that starts no task.
LEMMA BalanceStep ==
  ASSUME IInv, BalanceInv, NEW g \in Goroutine, Running(g),
         NEW stack, NEW scopes, NEW limits,
         frames' = [frames EXCEPT ![g] = stack],
         taskScopes' = [taskScopes EXCEPT ![g] = scopes],
         taskLimits' = [taskLimits EXCEPT ![g] = limits],
         UNCHANGED spawned,
         Opened(stack, Len(scopes)), Clean => Aligned(stack, scopes, limits)
  PROVE  BalanceInv'
<1>1. ASSUME NEW k \in Goroutine
      PROVE  /\ frames'[k] = IF k = g THEN stack ELSE frames[k]
             /\ taskScopes'[k] = IF k = g THEN scopes ELSE taskScopes[k]
             /\ taskLimits'[k] = IF k = g THEN limits ELSE taskLimits[k]
  BY DEF IInv, FramesOK, ScopesOK, LimitersOK
<1>2. ASSUME NEW k \in Goroutine PROVE Balanced(k)'
  <2>1. Opened(frames[k], Len(taskScopes[k])) /\ (Clean => Aligned(frames[k], taskScopes[k], taskLimits[k]))
    BY DEF BalanceInv, Balanced
  <2>2. /\ Opened(frames'[k], Len(taskScopes'[k]))
        /\ Clean => Aligned(frames'[k], taskScopes'[k], taskLimits'[k])
    BY <1>1, <2>1
  <2>3. Opened(frames[k], Len(taskScopes[k]))' /\ (Clean => Aligned(frames[k], taskScopes[k], taskLimits[k]))'
    BY <2>2 DEF Opened, Aligned, Clean, Even, Stacked, Level, Covered, FrameOpen, FrameEven,
       Paired, TaskDepth, LimitDepth
  <2> QED BY <2>3 DEF Balanced
<1>3. ASSUME NEW h \in Handle, h > spawned'
      PROVE  frames'[h] = <<>> /\ taskScopes'[h] = <<>> /\ taskLimits'[h] = <<>>
  <2>1. h \in Goroutine /\ h # g
    BY <1>3 DEF Handle, Goroutine, IInv, TasksOK, Running
  <2> QED BY <1>1, <1>3, <2>1 DEF BalanceInv
<1> QED BY <1>2, <1>3 DEF BalanceInv

\* The same, where g replaces its top frame.
LEMMA BalanceTop ==
  ASSUME IInv, IInv', BalanceInv, NEW g \in Goroutine, Running(g),
         NEW f, NEW scopes, NEW limits, SetTop(g, f),
         taskScopes' = [taskScopes EXCEPT ![g] = scopes],
         taskLimits' = [taskLimits EXCEPT ![g] = limits],
         UNCHANGED spawned,
         f.taskBase = Top(g).taskBase, f.limBase = Top(g).limBase,
         FrameOpen(f, Len(scopes)), Clean => FrameEven(f, Len(scopes), Len(limits)),
         Clean => Extends(taskScopes[g], taskLimits[g], scopes, limits),
         Len(scopes) > Len(taskScopes[g]) => f.goal = "none"
  PROVE  BalanceInv'
<1> DEFINE s == frames[g]
           t == Append(Front(frames[g]), f)
           n == Len(taskScopes[g])
           m == Len(taskLimits[g])
           n2 == Len(scopes)
           m2 == Len(limits)
<1>1. /\ s \in FrameSeq /\ s # <<>> /\ Len(s) \in Nat /\ Len(s) >= 1
      /\ n \in Nat /\ m \in Nat /\ Top(g) = s[Len(s)]
  <2>1. s \in FrameSeq /\ s # <<>> /\ n \in Nat /\ m \in Nat
    BY FramesTyped DEF Running
  <2> QED BY <2>1, StackParts DEF FrameSeq, Top
<1>2. frames' = [frames EXCEPT ![g] = t] /\ frames'[g] = t /\ taskScopes'[g] = scopes
      /\ taskLimits'[g] = limits
  BY DEF SetTop, IInv, FramesOK, ScopesOK, LimitersOK
<1>3. t \in FrameSeq /\ n2 \in Nat /\ m2 \in Nat
  <2>1. t \in Seq(FrameUpTo(spawned)) /\ scopes \in Seq(ScopeUpTo(spawned))
        /\ limits \in Seq(0 .. Len(limiter'))
    BY <1>2 DEF IInv, FramesOK, ScopesOK, LimitersOK
  <2>2. FrameUpTo(spawned) \subseteq FrameRec(spawned)
    BY DEF FrameUpTo
  <2> HIDE DEF t
  <2> QED BY <2>1, <2>2, SeqMonotonic, LenProperties DEF FrameSeq
<1>4. /\ Len(t) = Len(s) /\ t[Len(s)] = f
      /\ \A i \in 1 .. Len(s) - 1 : t[i] = s[i]
  <2>1. /\ Front(s) \in Seq(FrameRec(spawned)) /\ Len(Front(s)) = Len(s) - 1
        /\ \A i \in 1 .. Len(s) - 1 : Front(s)[i] = s[i]
    BY <1>1, StackParts DEF FrameSeq
  <2>2. Len(Append(Front(s), f)) = Len(Front(s)) + 1
    BY <2>1
  <2>3. t # <<>> /\ Last(t) = f
    BY <2>1, LenProperties, EmptySeq DEF Last
  <2>4. f \in FrameRec(spawned)
    <3> HIDE DEF t
    <3> QED BY <1>3, <2>3, StackTop DEF FrameSeq
  <2> QED BY <1>1, <2>1, <2>4, StackPush
<1>5. Opened(s, n) /\ (Clean => Aligned(s, taskScopes[g], taskLimits[g]))
  BY DEF BalanceInv, Balanced
<1> HIDE DEF s, t, n, m
<1>6. Opened(t, n2)
  BY <1>1, <1>3, <1>4, <1>5, OpenedTop
<1>7. ASSUME Clean PROVE Aligned(t, scopes, limits)
  <2>1. t[Len(s)].taskBase <= n2
    BY <1>4 DEF FrameOpen
  <2>2. FrameEven(t[Len(s)], n2, m2) /\ Extends(taskScopes[g], taskLimits[g], scopes, limits)
    BY <1>4, <1>7
  <2>3. /\ Len(t) = Len(s) /\ Len(s) >= 1
        /\ \A i \in 1 .. Len(s) - 1 : t[i] = s[i]
        /\ t[Len(s)].taskBase = s[Len(s)].taskBase /\ t[Len(s)].limBase = s[Len(s)].limBase
        /\ n2 > n => t[Len(s)].goal = "none"
    BY <1>1, <1>4 DEF n
  <2>4. s \in FrameSeq /\ t \in FrameSeq /\ n \in Nat /\ m \in Nat /\ n2 \in Nat /\ m2 \in Nat
    BY <1>1, <1>3
  <2>5. Opened(s, n) /\ Aligned(s, taskScopes[g], taskLimits[g])
    BY <1>5, <1>7
  <2> QED BY ONLY <2>1, <2>2, <2>3, <2>4, <2>5, AlignedTop DEF n, m
<1> QED BY <1>2, <1>6, <1>7, BalanceStep

\* The same, with all scopes and limits as they are.
LEMMA BalanceFrame ==
  ASSUME IInv, IInv', LinkInv, BalanceInv, NEW g \in Goroutine, Running(g),
         NEW f, SetTop(g, f), UNCHANGED <<taskScopes, taskLimits, spawned>>,
         f.taskBase = Top(g).taskBase, f.limBase = Top(g).limBase,
         FrameOpen(f, Len(taskScopes[g])),
         Clean => FrameEven(f, Len(taskScopes[g]), Len(taskLimits[g]))
  PROVE  BalanceInv'
<1>1. /\ taskScopes' = [taskScopes EXCEPT ![g] = taskScopes[g]]
      /\ taskLimits' = [taskLimits EXCEPT ![g] = taskLimits[g]]
  BY DEF IInv, ScopesOK, LimitersOK
<1>2. Len(taskScopes[g]) \in Nat
  BY FramesTyped
<1>3. Extends(taskScopes[g], taskLimits[g], taskScopes[g], taskLimits[g])
  BY <1>2 DEF Extends
<1>4. ~(Len(taskScopes[g]) > Len(taskScopes[g]))
  BY <1>2
<1> QED BY <1>1, <1>3, <1>4, BalanceTop

----------------------------------------------------------------------------
(* Steps that change the top frame only *)

\* The frame has opened and left no scope, or begins to unwind.
SameCounts(f, new) ==
  /\ new.taskBase = f.taskBase /\ new.limBase = f.limBase
  /\ new.open = f.open /\ new.env = f.env /\ new.goal = f.goal
  /\ Len(new.defers) \in Nat /\ Len(new.defers) >= Len(f.defers)
  /\ \/ new.st = "unwind"
     \/ f.st # "unwind" /\ (new.st = "defers" <=> f.st = "defers")

LEMMA CountsKept ==
  ASSUME NEW f, NEW new, NEW n \in Nat, NEW m \in Nat,
         f.open \in Int, Len(f.defers) \in Nat, SameCounts(f, new)
  PROVE  /\ FrameOpen(f, n) => FrameOpen(new, n)
         /\ FrameEven(f, n, m) => FrameEven(new, n, m)
<1>1. FrameEven(f, n, m) => FrameEven(new, n, m)
  BY DEF SameCounts, FrameEven
<1>2. ASSUME FrameOpen(f, n) PROVE FrameOpen(new, n)
  <2>1. CASE new.st = "unwind"
    BY <1>2, <2>1 DEF SameCounts, FrameOpen
  <2>2. CASE f.st # "unwind" /\ (new.st = "defers" <=> f.st = "defers")
    <3> DEFINE extra == IF f.st = "defers" THEN 1 ELSE 0
    <3>1. (IF new.st = "defers" THEN 1 ELSE 0) = extra /\ extra \in Nat
      BY <2>2
    <3>2. Len(f.defers) + extra >= f.open => Len(new.defers) + extra >= f.open
      <4> HIDE DEF extra
      <4> QED BY <3>1 DEF SameCounts
    <3> QED BY <1>2, <2>2, <3>1, <3>2 DEF SameCounts, FrameOpen
  <2> QED BY <2>1, <2>2 DEF SameCounts
<1> QED BY <1>1, <1>2

LEMMA BalanceKept ==
  ASSUME IInv, IInv', LinkInv, BalanceInv, NEW g \in Goroutine, Running(g),
         NEW f, SetTop(g, f), UNCHANGED <<taskScopes, taskLimits, spawned>>,
         SameCounts(Top(g), f)
  PROVE  BalanceInv'
<1>1. /\ FrameOpen(f, Len(taskScopes[g]))
      /\ Clean => FrameEven(f, Len(taskScopes[g]), Len(taskLimits[g]))
  BY TopCounts, CountsKept
<1>2. f.taskBase = Top(g).taskBase /\ f.limBase = Top(g).limBase
  BY DEF SameCounts
<1> QED BY <1>1, <1>2, BalanceFrame

LEMMA DeferBalance ==
  ASSUME IInv, IInv', LinkInv, BalanceInv, NEW g \in Goroutine, NEW mode \in Mode, Defer(g, mode)
  PROVE  BalanceInv'
<1> DEFINE f == Top(g)
           scopes == IF f.defers = <<>> THEN << <<>> >> ELSE f.defers
           defers == Append(Front(scopes), Append(Last(scopes), mode))
           new == [f EXCEPT !.defers = defers]
<1>1. Running(g) /\ f.st = "run" /\ SetTop(g, new) /\ UNCHANGED <<taskScopes, taskLimits, spawned>>
  BY DEF Defer, Instr, Step, stackVars, taskVars
<1>2. f \in FrameRec(spawned) /\ f.defers \in Seq(Seq(Mode))
  BY <1>1, TopCounts DEF FrameRec
<1>3. Len(defers) \in Nat /\ Len(defers) >= Len(f.defers)
  <2>1. scopes \in Seq(Seq(Mode)) /\ scopes # <<>> /\ Len(scopes) >= Len(f.defers)
    <3>1. f.defers = <<>> => Len(f.defers) = 0
      BY <1>2, EmptySeq
    <3> QED BY <1>2, <3>1, EmptySeq, LenProperties
  <2> HIDE DEF scopes
  <2>2. /\ Front(scopes) \in Seq(Seq(Mode)) /\ Last(scopes) \in Seq(Mode)
        /\ Len(Front(scopes)) = Len(scopes) - 1
    BY <2>1, StackParts
  <2>3. Append(Last(scopes), mode) \in Seq(Mode)
    BY <2>2
  <2>4. Len(defers) = Len(scopes)
    BY <2>1, <2>2, <2>3, StackPush, LenProperties
  <2> QED BY <1>2, <2>1, <2>4, LenProperties
<1> HIDE DEF defers
<1>4. SameCounts(f, new)
  BY <1>1, <1>2, <1>3 DEF FrameRec, SameCounts
<1> HIDE DEF new
<1> QED BY <1>1, <1>4, BalanceKept

LEMMA QuietBalance ==
  ASSUME IInv, IInv', LinkInv, BalanceInv, NEW g \in Goroutine,
         Spawn(g) \/ \E h \in Handle : Await(g, h)
  PROVE  BalanceInv'
<1> DEFINE f == Top(g)
<1>1. Running(g) /\ f.st = "run" /\ UNCHANGED <<taskScopes, taskLimits, spawned>>
  BY DEF Spawn, Await, Instr, Step, stackVars, taskVars
<1>2. f \in FrameRec(spawned) /\ Len(f.defers) \in Nat
  BY <1>1, TopCounts
<1>3. CASE Spawn(g)
  <2> DEFINE new == [f EXCEPT !.st = "spawn"]
  <2>1. SetTop(g, new)
    BY <1>3 DEF Spawn
  <2>2. SameCounts(f, new)
    BY <1>1, <1>2 DEF FrameRec, SameCounts
  <2> HIDE DEF new
  <2> QED BY <1>1, <2>1, <2>2, BalanceKept
<1>4. ASSUME NEW h \in Handle, Await(g, h) PROVE BalanceInv'
  <2> PICK ms : SetTop(g, [f EXCEPT !.st = "await", !.todo = <<h>>, !.timeout = ms])
    BY <1>4 DEF Await
  <2> DEFINE todo == <<h>>
             new == [f EXCEPT !.st = "await", !.todo = todo, !.timeout = ms]
  <2>1. SetTop(g, new)
    OBVIOUS
  <2> HIDE DEF todo
  <2>2. SameCounts(f, new)
    BY <1>1, <1>2 DEF FrameRec, SameCounts
  <2> HIDE DEF new
  <2> QED BY <1>1, <2>1, <2>2, BalanceKept
<1> QED BY <1>3, <1>4

\* Throws, failed calls, returns and the end of an await.
LEMMA UnwindBalance ==
  ASSUME IInv, IInv', LinkInv, BalanceInv, NEW g \in Goroutine,
         Throw(g) \/ CallFails(g) \/ Return(g) \/ AwaitReturns(g) \/ AwaitTimesOut(g)
  PROVE  BalanceInv'
<1> DEFINE f == Top(g)
<1>1. Running(g) /\ f.st \in {"run", "await"} /\ UNCHANGED <<taskScopes, taskLimits, spawned>>
  BY DEF Throw, CallFails, Return, AwaitReturns, AwaitTimesOut, StartUnwind, Instr, Step,
     stackVars, taskVars
<1>2. f \in FrameRec(spawned) /\ Len(f.defers) \in Nat
  BY <1>1, TopCounts
<1>3. CASE \E cur : SetTop(g, [f EXCEPT !.st = "unwind", !.cur = cur])
  <2> PICK cur : SetTop(g, [f EXCEPT !.st = "unwind", !.cur = cur])
    BY <1>3
  <2> DEFINE new == [f EXCEPT !.st = "unwind", !.cur = cur]
  <2>1. SameCounts(f, new)
    BY <1>1, <1>2 DEF FrameRec, SameCounts
  <2> HIDE DEF new
  <2> QED BY <1>1, <2>1, BalanceKept DEF new
<1>4. CASE \E st \in {"run", "unwind"} : \E cur :
             SetTop(g, [f EXCEPT !.todo = <<>>, !.timeout = 0, !.st = st, !.cur = cur])
  <2> PICK st \in {"run", "unwind"} :
             \E cur : SetTop(g, [f EXCEPT !.todo = <<>>, !.timeout = 0, !.st = st, !.cur = cur])
    BY <1>4
  <2> PICK cur : SetTop(g, [f EXCEPT !.todo = <<>>, !.timeout = 0, !.st = st, !.cur = cur])
    OBVIOUS
  <2> DEFINE new == [f EXCEPT !.todo = <<>>, !.timeout = 0, !.st = st, !.cur = cur]
  <2>1. SameCounts(f, new)
    BY <1>1, <1>2 DEF FrameRec, SameCounts
  <2> HIDE DEF new
  <2> QED BY <1>1, <2>1, BalanceKept DEF new
<1>5. CASE Throw(g) \/ CallFails(g) \/ Return(g)
  <2>1. \E cur : StartUnwind(g, cur)
    BY <1>5 DEF Throw, CallFails, Return
  <2> QED BY <1>3, <2>1 DEF StartUnwind
<1>6. CASE AwaitReturns(g)
  <2> DEFINE r == result[Head(f.todo)]
             st == IF IsError(r) THEN "unwind" ELSE "run"
             cur == IF IsError(r) THEN r ELSE "val"
  <2>1. SetTop(g, [f EXCEPT !.todo = <<>>, !.timeout = 0, !.st = st, !.cur = cur])
    BY <1>6 DEF AwaitReturns
  <2>2. st \in {"run", "unwind"}
    OBVIOUS
  <2> HIDE DEF st, cur, f
  <2> QED BY <1>4, <2>1, <2>2
<1>7. CASE AwaitTimesOut(g)
  BY <1>4, <1>7 DEF AwaitTimesOut
<1> QED BY <1>5, <1>6, <1>7

\* Handles that are joined or cancelled are of a scope that is already off the
\* stack.
LEMMA JoiningBalance ==
  ASSUME IInv, IInv', LinkInv, BalanceInv, NEW g \in Goroutine, JoinHandle(g) \/ CancelSibling(g)
  PROVE  BalanceInv'
<1> DEFINE f == Top(g)
<1>1. Running(g) /\ f.st \in {"join", "cancel"} /\ UNCHANGED <<taskScopes, taskLimits, spawned>>
  BY DEF JoinHandle, CancelSibling, Step, stackVars, taskVars
<1>2. f \in FrameRec(spawned) /\ Len(f.defers) \in Nat
  BY <1>1, TopCounts
<1>3. ASSUME NEW new, SetTop(g, new), SameCounts(f, new) PROVE BalanceInv'
  BY <1>1, <1>3, BalanceKept
<1>4. CASE JoinHandle(g)
  <2> DEFINE r == result[Head(f.todo)]
             rest == Tail(f.todo)
             new == JoinedOne(f, r)
  <2>1. SetTop(g, new)
    BY <1>4 DEF JoinHandle
  <2> HIDE DEF r
  <2>2. CASE IsError(r) /\ ~IsError(f.cur)
    <3>1. new = [f EXCEPT !.todo = rest, !.doomed = rest, !.st = "cancel", !.cur = r]
      BY <2>2 DEF JoinedOne
    <3> HIDE DEF new, rest
    <3>2. SameCounts(f, new)
      BY <1>1, <1>2, <3>1 DEF FrameRec, SameCounts
    <3> QED BY <1>3, <2>1, <3>2
  <2>3. CASE ~(IsError(r) /\ ~IsError(f.cur))
    <3>1. new = [f EXCEPT !.todo = rest]
      BY <2>3 DEF JoinedOne
    <3> HIDE DEF new, rest
    <3>2. SameCounts(f, new)
      BY <1>1, <1>2, <3>1 DEF FrameRec, SameCounts
    <3> QED BY <1>3, <2>1, <3>2
  <2> QED BY <2>2, <2>3
<1>5. CASE CancelSibling(g)
  <2>1. PICK new : SetTop(g, new) /\ (new = [f EXCEPT !.st = "join"] \/ new = [f EXCEPT !.doomed = Tail(f.doomed)])
    BY <1>5 DEF CancelSibling
  <2> DEFINE rest == Tail(f.doomed)
  <2>2. SameCounts(f, new)
    <3>1. new = [f EXCEPT !.st = "join"] \/ new = [f EXCEPT !.doomed = rest]
      BY <2>1
    <3> HIDE DEF rest
    <3>2. CASE new = [f EXCEPT !.st = "join"]
      BY <1>1, <1>2, <3>2 DEF FrameRec, SameCounts
    <3>3. CASE new = [f EXCEPT !.doomed = rest]
      BY <1>1, <1>2, <3>3 DEF FrameRec, SameCounts
    <3> QED BY <3>1, <3>2, <3>3
  <2> QED BY <1>3, <2>1, <2>2
<1> QED BY <1>4, <1>5

----------------------------------------------------------------------------
(* Leaving scopes *)

LEMMA PoppedParts ==
  ASSUME NEW S, NEW s \in Seq(S)
  PROVE  /\ Len(s) \in Nat /\ Len(Popped(s)) \in Nat
         /\ Len(s) > 0 => Len(Popped(s)) = Len(s) - 1
         /\ Len(s) = 0 => Len(Popped(s)) = 0
         /\ \A j \in 1 .. Len(Popped(s)) : j \in 1 .. Len(s) /\ Popped(s)[j] = s[j]
<1>1. Len(s) \in Nat
  BY LenProperties
<1>2. CASE s = <<>>
  <2>1. Len(s) = 0 /\ Popped(s) = s
    BY <1>2, EmptySeq DEF Popped
  <2> QED BY <2>1
<1>3. CASE s # <<>>
  <2>1. Popped(s) = Front(s) /\ Len(s) >= 1
    BY <1>1, <1>3, EmptySeq DEF Popped
  <2>2. Len(Front(s)) = Len(s) - 1 /\ \A j \in 1 .. Len(s) - 1 : Front(s)[j] = s[j]
    BY <1>3, StackParts
  <2> QED BY <1>1, <2>1, <2>2
<1> QED BY <1>2, <1>3

LEMMA JoinedBalance ==
  ASSUME IInv, IInv', LinkInv, BalanceInv, NEW g \in Goroutine, Joined(g)
  PROVE  BalanceInv'
<1> DEFINE f == Top(g)
           entries == TopOr(f.defers, <<>>)
           defers == Popped(f.defers)
           n == Len(taskScopes[g])
           m == Len(taskLimits[g])
           new == [f EXCEPT !.st = "defers", !.entries = entries, !.defers = defers]
<1>1. Running(g) /\ f.st = "join" /\ SetTop(g, new) /\ UNCHANGED <<taskScopes, taskLimits, spawned>>
  BY DEF Joined, Step, stackVars, taskVars
<1>2. /\ f \in FrameRec(spawned) /\ f.open \in Int /\ Len(f.defers) \in Nat
      /\ FrameOpen(f, n) /\ (Clean => FrameEven(f, n, m))
  BY <1>1, TopCounts
<1>3. Len(defers) \in Nat /\ Len(defers) + 1 >= Len(f.defers)
  <2>1. f.defers \in Seq(Seq(Mode))
    BY <1>2 DEF FrameRec
  <2> HIDE DEF f
  <2>2. /\ Len(f.defers) \in Nat /\ Len(Popped(f.defers)) \in Nat
        /\ Len(f.defers) > 0 => Len(Popped(f.defers)) = Len(f.defers) - 1
        /\ Len(f.defers) = 0 => Len(Popped(f.defers)) = 0
    <3> HIDE DEF f, defers
    <3> QED BY <2>1, PoppedParts
  <2>3. Len(Popped(f.defers)) \in Nat /\ Len(Popped(f.defers)) + 1 >= Len(f.defers)
    <3> HIDE DEF f, defers
    <3> QED BY <2>2
  <2> QED BY <2>3
<1> HIDE DEF defers, entries, n, m
<1>4. /\ new.st = "defers" /\ new.goal = f.goal /\ new.open = f.open /\ new.env = f.env
      /\ new.taskBase = f.taskBase /\ new.limBase = f.limBase /\ new.defers = defers
  BY <1>2 DEF FrameRec
<1> HIDE DEF new, f
<1>5. FrameOpen(new, n)
  <2>1. Len(f.defers) + 0 >= f.open => Len(defers) + 1 >= f.open
    BY <1>2, <1>3
  <2> QED BY <1>1, <1>2, <1>4, <2>1 DEF FrameOpen
<1>6. Clean => FrameEven(new, n, m)
  BY <1>2, <1>4 DEF FrameEven
<1> QED BY <1>1, <1>4, <1>5, <1>6, BalanceFrame DEF f, n, m

\* The limits when the top one is popped.
LEMMA LimitsPopped ==
  ASSUME IInv, NEW g \in Goroutine
  PROVE  /\ LimitPopped(g) = [taskLimits EXCEPT ![g] = Popped(taskLimits[g])]
         /\ Extends(taskScopes[g], taskLimits[g], taskScopes[g], Popped(taskLimits[g]))
         /\ Len(taskLimits[g]) > 0 => Len(Popped(taskLimits[g])) = Len(taskLimits[g]) - 1
         /\ Len(Popped(taskLimits[g])) \in Nat
<1>1. taskLimits[g] \in Seq(0 .. Len(limiter)) /\ Len(taskScopes[g]) \in Nat
  BY FramesTyped
<1>2. LimitPopped(g) = [taskLimits EXCEPT ![g] = Popped(taskLimits[g])]
  BY DEF LimitPopped, IInv, LimitersOK
<1>3. \A j \in 1 .. Len(Popped(taskLimits[g])) : Popped(taskLimits[g])[j] = taskLimits[g][j]
  BY <1>1, PoppedParts
<1>4. Extends(taskScopes[g], taskLimits[g], taskScopes[g], Popped(taskLimits[g]))
  BY <1>1, <1>3 DEF Extends
<1>5. /\ Len(taskLimits[g]) > 0 => Len(Popped(taskLimits[g])) = Len(taskLimits[g]) - 1
      /\ Len(Popped(taskLimits[g])) \in Nat
  BY <1>1, PoppedParts
<1> QED BY <1>2, <1>4, <1>5

LEMMA ScopeLeftBalance ==
  ASSUME IInv, IInv', LinkInv, BalanceInv, NEW g \in Goroutine, ScopeLeft(g)
  PROVE  BalanceInv'
<1> DEFINE f == Top(g)
           open == f.open - 1
           env == f.env - 1
           less == [f EXCEPT !.open = open, !.env = env]
           n == Len(taskScopes[g])
           m == Len(taskLimits[g])
           limits == Popped(taskLimits[g])
<1>1. /\ Running(g) /\ f.st = "defers" /\ f.goal = "pop" /\ UNCHANGED <<taskScopes, spawned>>
      /\ taskLimits' = LimitPopped(g)
  BY DEF ScopeLeft, Step, taskVars
<1>2. /\ f \in FrameRec(spawned) /\ f.open \in Int /\ Len(f.defers) \in Nat /\ f.env \in Int
      /\ f.taskBase \in Nat /\ f.limBase \in Nat /\ n \in Nat /\ m \in Nat
      /\ FrameOpen(f, n) /\ (Clean => FrameEven(f, n, m))
  BY <1>1, TopCounts
<1>3. PICK new \in AfterPop(less, f.cur) : SetTop(g, new)
  BY DEF ScopeLeft
<1>4. PICK st \in {"unwind", "tail", "run"}, cur \in {"val", f.cur} :
        new = [less EXCEPT !.goal = "none", !.cur = cur, !.st = st]
  BY <1>3 DEF AfterPop
<1>5. /\ taskScopes' = [taskScopes EXCEPT ![g] = taskScopes[g]]
      /\ taskLimits' = [taskLimits EXCEPT ![g] = limits]
      /\ Extends(taskScopes[g], taskLimits[g], taskScopes[g], limits)
      /\ (m > 0 => Len(limits) = m - 1) /\ Len(limits) \in Nat
  BY <1>1, LimitsPopped DEF IInv, ScopesOK
<1> HIDE DEF open, env, n, m, limits
<1>6. /\ new.st = st /\ new.goal = "none" /\ new.open = open /\ new.env = env
      /\ new.taskBase = f.taskBase /\ new.limBase = f.limBase /\ new.defers = f.defers
  BY <1>2, <1>4 DEF FrameRec
<1> HIDE DEF f, less
<1>7. f.open > 0 /\ f.env >= f.open /\ Len(f.defers) + 1 >= f.open /\ n + 1 >= f.taskBase + f.open
      /\ f.taskBase <= n
  BY <1>1, <1>2 DEF FrameOpen
<1>8. FrameOpen(new, n)
  <2>1. env >= 0 /\ env >= open /\ Len(f.defers) >= open /\ n >= f.taskBase + open
    BY <1>2, <1>7 DEF open, env
  <2>2. new.st # "defers" /\ Len(f.defers) + 0 >= open
    BY <1>2, <1>4, <1>6, <2>1
  <2>3. new.goal = "none" /\ n + 0 >= f.taskBase + open
    BY <1>2, <1>6, <2>1
  <2> QED BY ONLY <1>6, <1>7, <2>1, <2>2, <2>3 DEF FrameOpen
<1>9. ASSUME Clean PROVE FrameEven(new, n, Len(limits))
  <2>1. m - f.limBase = n - f.taskBase + 1
    BY <1>1, <1>2, <1>9 DEF FrameEven
  <2>2. Len(limits) = m - 1
    BY <1>2, <1>5, <1>7, <2>1
  <2> QED BY <1>2, <1>6, <2>1, <2>2 DEF FrameEven
<1>10. ~(n > n)
  BY <1>2
<1> QED BY <1>1, <1>3, <1>5, <1>6, <1>8, <1>9, <1>10, BalanceTop DEF f, n

LEMMA ScopeUnwoundBalance ==
  ASSUME IInv, IInv', LinkInv, BalanceInv, NEW g \in Goroutine, ScopeUnwound(g)
  PROVE  BalanceInv'
<1> DEFINE f == Top(g)
           n == Len(taskScopes[g])
           m == Len(taskLimits[g])
           limits == IF m > f.limBase THEN Popped(taskLimits[g]) ELSE taskLimits[g]
           new == [f EXCEPT !.st = "unwind", !.goal = "none"]
<1>1. /\ Running(g) /\ f.st = "defers" /\ f.goal = "unwind" /\ UNCHANGED <<taskScopes, spawned>>
      /\ taskLimits' = LimitUnwound(g) /\ SetTop(g, new)
  BY DEF ScopeUnwound, Step, taskVars
<1>2. /\ f \in FrameRec(spawned) /\ f.taskBase \in Nat /\ f.limBase \in Nat /\ n \in Nat /\ m \in Nat
      /\ FrameOpen(f, n) /\ (Clean => FrameEven(f, n, m))
  BY <1>1, TopCounts
<1>3. /\ taskScopes' = [taskScopes EXCEPT ![g] = taskScopes[g]]
      /\ taskLimits' = [taskLimits EXCEPT ![g] = limits]
  BY <1>1 DEF IInv, ScopesOK, LimitersOK, LimitUnwound
<1>4. /\ new.st = "unwind" /\ new.goal = "none" /\ new.env = f.env
      /\ new.taskBase = f.taskBase /\ new.limBase = f.limBase
  BY <1>2 DEF FrameRec
<1>5. /\ Extends(taskScopes[g], taskLimits[g], taskScopes[g], limits)
      /\ m > f.limBase => Len(limits) = m - 1
      /\ m <= f.limBase => Len(limits) = m
  <2>1. CASE m > f.limBase
    <3>1. m > 0 /\ ~(m <= f.limBase)
      BY <1>2, <2>1
    <3> QED BY <2>1, <3>1, LimitsPopped
  <2>2. CASE ~(m > f.limBase)
    <3>1. Extends(taskScopes[g], taskLimits[g], taskScopes[g], taskLimits[g])
      BY <1>2 DEF Extends
    <3> QED BY <2>2, <3>1
  <2> QED BY <2>1, <2>2
<1> HIDE DEF new, f, n, m, limits
<1>6. FrameOpen(new, n)
  BY <1>2, <1>4 DEF FrameOpen
<1>7. ASSUME Clean PROVE FrameEven(new, n, Len(limits))
  <2>1. \/ m - f.limBase = n - f.taskBase + 1
        \/ m = f.limBase /\ n = f.taskBase
    BY <1>1, <1>2, <1>7 DEF FrameEven
  <2>2. f.taskBase <= n
    BY <1>2 DEF FrameOpen
  <2>3. Len(limits) - f.limBase = n - f.taskBase
    BY <1>2, <1>5, <2>1, <2>2
  <2> QED BY <1>4, <2>3 DEF FrameEven
<1>8. ~(n > n)
  BY <1>2
<1> QED BY <1>1, <1>3, <1>4, <1>5, <1>6, <1>7, <1>8, BalanceTop DEF f, n

\* The task scopes when the top one is popped.
LEMMA ScopesPopped ==
  ASSUME IInv, NEW g \in Goroutine
  PROVE  /\ Extends(taskScopes[g], taskLimits[g], Popped(taskScopes[g]), taskLimits[g])
         /\ Extends(taskScopes[g], taskLimits[g], Popped(taskScopes[g]), Popped(taskLimits[g]))
         /\ Len(taskScopes[g]) > 0 => Len(Popped(taskScopes[g])) = Len(taskScopes[g]) - 1
         /\ Len(Popped(taskScopes[g])) \in Nat
<1> DEFINE s == Popped(taskScopes[g])
           l == Popped(taskLimits[g])
           n == Len(taskScopes[g])
<1>1. taskScopes[g] \in Seq(ScopeUpTo(spawned)) /\ taskLimits[g] \in Seq(0 .. Len(limiter))
      /\ n \in Nat
  BY FramesTyped
<1>2. /\ Len(s) \in Nat /\ (n > 0 => Len(s) = n - 1) /\ (n = 0 => Len(s) = 0)
      /\ \A j \in 1 .. Len(s) : s[j] = taskScopes[g][j]
  BY <1>1, PoppedParts
<1>3. \A j \in 1 .. Len(l) : l[j] = taskLimits[g][j]
  BY <1>1, PoppedParts
<1> HIDE DEF s, l
<1>4. ~(Len(s) > n)
  BY <1>1, <1>2
<1> QED BY <1>2, <1>3, <1>4 DEF Extends, s, l

\* The handles of the scope are about to be joined.
LEMMA BeginJoinBalance ==
  ASSUME IInv, IInv', LinkInv, BalanceInv, NEW g \in Goroutine, Running(g),
         NEW goal \in {"pop", "unwind"}, NEW cur, BeginJoin(g, Top(g), goal, cur),
         goal = "pop" => Top(g).st \in {"run", "tail"} /\ Top(g).open > 0,
         goal = "unwind" => Top(g).st = "unwind" /\ Len(taskScopes[g]) > Top(g).taskBase,
         UNCHANGED taskVars
  PROVE  BalanceInv'
<1> DEFINE f == Top(g)
           hs == TopOr(taskScopes[g], NoScope).hs
           scopes == Popped(taskScopes[g])
           n == Len(taskScopes[g])
           m == Len(taskLimits[g])
           new == [f EXCEPT !.st = "join", !.goal = goal, !.cur = cur, !.todo = hs]
<1>1. SetTop(g, new) /\ taskScopes' = [taskScopes EXCEPT ![g] = scopes]
      /\ taskLimits' = [taskLimits EXCEPT ![g] = taskLimits[g]] /\ UNCHANGED spawned
  BY DEF BeginJoin, taskVars, IInv, ScopesOK, LimitersOK
<1>2. /\ f \in FrameRec(spawned) /\ f.open \in Int /\ Len(f.defers) \in Nat /\ f.env \in Int
      /\ f.taskBase \in Nat /\ f.limBase \in Nat /\ n \in Nat /\ m \in Nat /\ FrameSt(f)
      /\ FrameOpen(f, n) /\ (Clean => FrameEven(f, n, m))
  BY TopCounts
<1>3. /\ Extends(taskScopes[g], taskLimits[g], scopes, taskLimits[g])
      /\ n > 0 => Len(scopes) = n - 1
  BY ScopesPopped
<1> HIDE DEF scopes, hs
<1>4. /\ new.st = "join" /\ new.goal = goal /\ new.open = f.open /\ new.env = f.env
      /\ new.taskBase = f.taskBase /\ new.limBase = f.limBase /\ new.defers = f.defers
  BY <1>2 DEF FrameRec
<1>5. /\ goal = "pop" => f.st \in {"run", "tail"} /\ f.open > 0
      /\ goal = "unwind" => f.st = "unwind" /\ n > f.taskBase
  OBVIOUS
<1> HIDE DEF new, f, n, m
<1>6. f.goal = "none"
  BY <1>2, <1>5 DEF FrameSt
<1>7. goal = "pop" => /\ f.env >= f.open /\ Len(f.defers) + 0 >= f.open
                      /\ n + 0 >= f.taskBase + f.open
  BY <1>2, <1>5, <1>6 DEF FrameOpen
<1>8. n > f.taskBase /\ n > 0
  BY <1>2, <1>5, <1>7
<1>9. Len(scopes) = n - 1 /\ f.taskBase <= n - 1
  BY <1>2, <1>3, <1>8
<1>10. FrameOpen(new, Len(scopes))
  <2>1. CASE goal = "pop"
    <3>1. Len(scopes) + 1 >= f.taskBase + f.open
      BY <1>2, <1>7, <1>9, <2>1
    <3>2. f.env >= 0 /\ f.taskBase <= Len(scopes)
      BY <1>2, <1>9 DEF FrameOpen
    <3> QED BY ONLY <1>4, <1>5, <1>7, <2>1, <3>1, <3>2 DEF FrameOpen
  <2>2. CASE goal = "unwind"
    <3>1. f.env >= 0 /\ f.taskBase <= Len(scopes)
      BY <1>2, <1>9 DEF FrameOpen
    <3> QED BY ONLY <1>4, <2>2, <3>1 DEF FrameOpen
  <2> QED BY <2>1, <2>2
<1>11. ASSUME Clean PROVE FrameEven(new, Len(scopes), m)
  <2>1. m - f.limBase = n - f.taskBase
    BY <1>2, <1>6, <1>11 DEF FrameEven
  <2>2. m - f.limBase = Len(scopes) - f.taskBase + 1
    BY <1>2, <1>9, <2>1
  <2> QED BY <1>4, <2>2 DEF FrameEven
<1>12. ~(Len(scopes) > n)
  BY <1>2, <1>9
<1> QED BY <1>1, <1>3, <1>4, <1>10, <1>11, <1>12, BalanceTop DEF f, n, m

\* A frame that unwinds takes the next task scope, or defer scopes that are
\* left when there is none.
LEMMA UnwindScopeBalance ==
  ASSUME IInv, IInv', LinkInv, BalanceInv, NEW g \in Goroutine, UnwindScope(g)
  PROVE  BalanceInv'
<1> DEFINE f == Top(g)
           n == Len(taskScopes[g])
           m == Len(taskLimits[g])
<1>1. Running(g) /\ f.st = "unwind" /\ UNCHANGED <<taskVars, spawned>>
  BY DEF UnwindScope, Step, taskVars
<1>2. CASE n > f.taskBase
  BY <1>1, <1>2, BeginJoinBalance DEF UnwindScope
<1>3. CASE ~(n > f.taskBase)
  <2> DEFINE new == [f EXCEPT !.st = "join", !.goal = "unwind"]
  <2>1. SetTop(g, new) /\ UNCHANGED <<taskScopes, taskLimits>>
    BY <1>3 DEF UnwindScope, stackVars
  <2>2. /\ f \in FrameRec(spawned) /\ f.taskBase \in Nat /\ f.limBase \in Nat /\ n \in Nat /\ m \in Nat
        /\ FrameSt(f) /\ FrameOpen(f, n) /\ (Clean => FrameEven(f, n, m))
    BY <1>1, TopCounts
  <2>3. /\ new.goal = "unwind" /\ new.env = f.env
        /\ new.taskBase = f.taskBase /\ new.limBase = f.limBase
    BY <2>2 DEF FrameRec
  <2> HIDE DEF new, f, n, m
  <2>4. f.goal = "none" /\ f.taskBase <= n
    BY <1>1, <2>2 DEF FrameSt, FrameOpen
  <2>5. FrameOpen(new, n)
    BY <2>2, <2>3 DEF FrameOpen
  <2>6. ASSUME Clean PROVE FrameEven(new, n, m)
    <3>1. m - f.limBase = n - f.taskBase
      BY <2>2, <2>4, <2>6 DEF FrameEven
    <3>2. n = f.taskBase /\ m = f.limBase
      BY <1>3, <2>2, <2>4, <3>1
    <3> QED BY <2>3, <3>2 DEF FrameEven
  <2> QED BY <1>1, <2>1, <2>3, <2>5, <2>6, BalanceFrame DEF f, n, m
<1> QED BY <1>2, <1>3

\* Handles move between lists, nurseries stay where they are.
LEMMA AdoptAllParts ==
  ASSUME NEW S, NEW scopes \in Seq([nursery : BOOLEAN, hs : S]), NEW hs
  PROVE  /\ Len(AdoptAll(scopes, hs)) = Len(scopes)
         /\ \A j \in 1 .. Len(scopes) : AdoptAll(scopes, hs)[j].nursery = scopes[j].nursery
<1> DEFINE i == ownerIdx(scopes)
           new == [scopes[i] EXCEPT !.hs = @ \o hs]
<1>1. i \in 0 .. Len(scopes) /\ Len(scopes) \in Nat
  BY OwnerIdx, LenProperties
<1>2. CASE i = 0
  BY <1>2 DEF AdoptAll
<1>3. CASE i # 0
  <2>1. i \in 1 .. Len(scopes)
    BY <1>1, <1>3
  <2>2. AdoptAll(scopes, hs) = [scopes EXCEPT ![i] = new]
    BY <1>3 DEF AdoptAll
  <2>3. scopes[i] \in [nursery : BOOLEAN, hs : S]
    <3> HIDE DEF i
    <3> QED BY <2>1, ElementOfSeq
  <2>4. new.nursery = scopes[i].nursery
    <3> DEFINE a == scopes[i].hs \o hs
    <3>1. new = [scopes[i] EXCEPT !.hs = a]
      OBVIOUS
    <3> HIDE DEF a, i
    <3> QED BY <2>3, <3>1
  <2> HIDE DEF i, new
  <2>5. /\ Len([scopes EXCEPT ![i] = new]) = Len(scopes)
        /\ \A j \in 1 .. Len(scopes) : [scopes EXCEPT ![i] = new][j] = IF j = i THEN new ELSE scopes[j]
    <3>1. DOMAIN scopes = 1 .. Len(scopes)
      BY LenProperties
    <3> QED BY <1>1, <2>1, <3>1, LenProperties
  <2> QED BY <2>2, <2>4, <2>5
<1> QED BY <1>2, <1>3

\* A recur takes the top scope off with its limit, and moves its handles.
LEMMA MigrateBalance ==
  ASSUME IInv, IInv', LinkInv, BalanceInv, NEW g \in Goroutine, Running(g),
         NEW f \in FrameRec(spawned), Migrate(g, f), UNCHANGED taskVars,
         f.taskBase = Top(g).taskBase, f.limBase = Top(g).limBase,
         f.open > 0, f.env >= f.open, Len(f.defers) + 1 >= f.open,
         Len(taskScopes[g]) >= f.taskBase + f.open,
         Clean => Len(taskLimits[g]) - f.limBase = Len(taskScopes[g]) - f.taskBase
  PROVE  BalanceInv'
<1> DEFINE rest == Popped(taskScopes[g])
           hs == TopOr(taskScopes[g], NoScope).hs
           scopes == AdoptAll(rest, hs)
           limits == Popped(taskLimits[g])
           st == IF f.open = 1 THEN "unwind" ELSE "tail"
           carry == Carried(f, rest, hs)
           open == f.open - 1
           env == f.env - 1
           n == Len(taskScopes[g])
           m == Len(taskLimits[g])
           new == [f EXCEPT !.st = st, !.goal = "none", !.open = open, !.env = env,
                            !.carry = carry]
<1>1. /\ SetTop(g, new) /\ taskScopes' = [taskScopes EXCEPT ![g] = scopes]
      /\ taskLimits' = [taskLimits EXCEPT ![g] = limits] /\ UNCHANGED spawned
  <2>1. taskLimits' = LimitPopped(g)
    BY DEF Migrate
  <2> QED BY <2>1, LimitsPopped DEF Migrate, taskVars
<1>2. /\ f.open \in Int /\ f.env \in Int /\ f.taskBase \in Nat /\ f.limBase \in Nat
      /\ f.defers \in Seq(Seq(Mode)) /\ n \in Nat /\ m \in Nat
      /\ taskScopes[g] \in Seq(ScopeUpTo(spawned))
  BY FramesTyped DEF FrameRec
<1>3. Len(f.defers) \in Nat
  BY <1>2, LenProperties
<1>4. rest \in Seq(ScopeUpTo(spawned))
  BY ScopeTopType
<1>5. /\ Len(rest) \in Nat /\ (n > 0 => Len(rest) = n - 1)
      /\ \A j \in 1 .. Len(rest) : rest[j] = taskScopes[g][j]
  BY <1>2, PoppedParts
<1>6. /\ Len(scopes) = Len(rest)
      /\ \A j \in 1 .. Len(rest) : scopes[j].nursery = rest[j].nursery
  <2> HIDE DEF rest, hs
  <2> QED BY <1>4, AdoptAllParts DEF ScopeUpTo
<1>7. (m > 0 => Len(limits) = m - 1) /\ Len(limits) \in Nat
  BY LimitsPopped
<1>8. \A j \in 1 .. Len(limits) : limits[j] = taskLimits[g][j]
  BY FramesTyped, PoppedParts
<1>9. st \in {"unwind", "tail"}
  OBVIOUS
<1>0. /\ n >= f.taskBase + f.open /\ (Clean => m - f.limBase = n - f.taskBase)
      /\ f.open > 0 /\ f.env >= f.open /\ Len(f.defers) + 1 >= f.open
  OBVIOUS
<1> HIDE DEF rest, hs, scopes, limits, st, carry, n, m
<1>10. /\ new.st = st /\ new.goal = "none" /\ new.open = open /\ new.env = env
       /\ new.taskBase = f.taskBase /\ new.limBase = f.limBase /\ new.defers = f.defers
  BY DEF FrameRec
<1> HIDE DEF new
<1>11. n > 0 /\ Len(scopes) = n - 1 /\ ~(Len(scopes) > n) /\ Len(scopes) \in Nat
  BY <1>0, <1>2, <1>5, <1>6
<1>12. Extends(taskScopes[g], taskLimits[g], scopes, limits)
  BY <1>5, <1>6, <1>8, <1>11 DEF Extends, n
<1>13. FrameOpen(new, Len(scopes))
  <2>1. /\ env >= open /\ env >= 0 /\ Len(f.defers) + 0 >= open
        /\ Len(scopes) + 0 >= f.taskBase + open /\ f.taskBase <= Len(scopes)
    BY ONLY <1>0, <1>2, <1>3, <1>11
  <2>2. new.st # "defers"
    BY <1>9, <1>10
  <2> HIDE DEF open, env
  <2> QED BY ONLY <1>10, <2>1, <2>2 DEF FrameOpen
<1>14. ASSUME Clean PROVE FrameEven(new, Len(scopes), Len(limits))
  <2>1. m - f.limBase = n - f.taskBase
    BY <1>0, <1>14
  <2>2. m > 0
    BY ONLY <1>0, <1>2, <2>1
  <2>3. Len(limits) = m - 1 /\ Len(scopes) = n - 1
    BY <1>7, <1>11, <2>2
  <2>4. f.limBase \in Nat /\ f.taskBase \in Nat /\ m \in Nat /\ n \in Nat
    BY <1>2
  <2>5. (m - 1) - f.limBase = (n - 1) - f.taskBase
    BY ONLY <2>1, <2>4
  <2> QED BY <1>10, <2>3, <2>5 DEF FrameEven
<1> QED BY <1>1, <1>10, <1>11, <1>12, <1>13, <1>14, BalanceTop DEF n

\* A recur in an inner block runs the block's defers before it takes the scope
\* off.
LEMMA RecurPopBalance ==
  ASSUME IInv, IInv', LinkInv, BalanceInv, NEW g \in Goroutine, Running(g),
         Top(g).st \in {"run", "tail"}, Top(g).open > 0, RecurPop(g, Top(g)), UNCHANGED taskVars
  PROVE  BalanceInv'
<1> DEFINE f == Top(g)
           defers == Popped(f.defers)
           entries == TopOr(f.defers, <<>>)
           n == Len(taskScopes[g])
           m == Len(taskLimits[g])
<1>1. /\ f \in FrameRec(spawned) /\ FrameSt(f) /\ f.open \in Int /\ Len(f.defers) \in Nat
      /\ f.env \in Int /\ f.taskBase \in Nat /\ f.limBase \in Nat /\ n \in Nat /\ m \in Nat
      /\ FrameOpen(f, n) /\ (Clean => FrameEven(f, n, m))
  BY TopCounts
<1>2. f.st \in {"run", "tail"} /\ f.goal = "none" /\ f.open > 0
  BY <1>1 DEF FrameSt
<1>3. /\ f.env >= f.open /\ Len(f.defers) + 0 >= f.open /\ n + 0 >= f.taskBase + f.open
      /\ f.env >= 0 /\ f.taskBase <= n /\ (Clean => m - f.limBase = n - f.taskBase)
  BY <1>1, <1>2 DEF FrameOpen, FrameEven
<1>4. /\ defers \in Seq(Seq(Mode)) /\ entries \in Seq(Mode)
      /\ Len(defers) \in Nat /\ Len(defers) + 1 >= Len(f.defers)
  <2>1. f.defers \in Seq(Seq(Mode))
    BY <1>1 DEF FrameRec
  <2>2. defers \in Seq(Seq(Mode)) /\ entries \in Seq(Mode)
    BY <1>1, FramesTyped, DefersType
  <2> HIDE DEF f
  <2> QED BY <1>1, <2>1, <2>2, PoppedParts
<1>5. Len(defers) + 1 >= f.open /\ n >= f.taskBase + f.open
  BY <1>1, <1>3, <1>4
<1>6. CASE f.open = 1
  <2> DEFINE new == [f EXCEPT !.cur = "recur", !.defers = defers]
  <2>1. Migrate(g, new)
    BY <1>6 DEF RecurPop
  <2> HIDE DEF defers
  <2>2. /\ new \in FrameRec(spawned) /\ new.open = f.open /\ new.env = f.env
        /\ new.taskBase = f.taskBase /\ new.limBase = f.limBase /\ new.defers = defers
    BY <1>1, <1>4 DEF FrameRec, Result
  <2> HIDE DEF new, f
  <2> QED BY <1>2, <1>3, <1>5, <2>1, <2>2, MigrateBalance DEF n, m, f
<1>7. CASE f.open # 1
  <2> DEFINE new == [f EXCEPT !.st = "defers", !.goal = "recur", !.cur = "recur",
                              !.entries = entries, !.defers = defers]
  <2>1. SetTop(g, new) /\ UNCHANGED <<taskScopes, taskLimits, spawned>>
    BY <1>7 DEF RecurPop, stackVars, taskVars
  <2> HIDE DEF defers, entries
  <2>2. /\ new.st = "defers" /\ new.goal = "recur" /\ new.open = f.open /\ new.env = f.env
        /\ new.taskBase = f.taskBase /\ new.limBase = f.limBase /\ new.defers = defers
    BY <1>1 DEF FrameRec
  <2> HIDE DEF new, f
  <2>3. FrameOpen(new, n)
    BY <1>2, <1>3, <1>5, <2>2 DEF FrameOpen
  <2>4. Clean => FrameEven(new, n, m)
    BY <1>3, <2>2 DEF FrameEven
  <2> QED BY <2>1, <2>2, <2>3, <2>4, BalanceFrame DEF f, n, m
<1> QED BY <1>6, <1>7

LEMMA PopScopeBalance ==
  ASSUME IInv, IInv', LinkInv, BalanceInv, NEW g \in Goroutine, PopScope(g)
  PROVE  BalanceInv'
<1>1. Running(g) /\ Top(g).open > 0 /\ UNCHANGED taskVars
  BY DEF PopScope
<1>2. CASE Top(g).st \in {"run", "tail"} /\ BeginJoin(g, Top(g), "pop", "val")
  BY <1>1, <1>2, BeginJoinBalance
<1>3. CASE Top(g).st \in {"run", "tail"} /\ BeginJoin(g, Top(g), "pop", Top(g).cur)
  BY <1>1, <1>3, BeginJoinBalance
<1>4. CASE Top(g).st \in {"run", "tail"} /\ RecurPop(g, Top(g))
  BY <1>1, <1>4, RecurPopBalance
<1> QED BY <1>2, <1>3, <1>4 DEF PopScope, Step, Instr

LEMMA RecurScopeLeftBalance ==
  ASSUME IInv, IInv', LinkInv, BalanceInv, NEW g \in Goroutine, RecurScopeLeft(g)
  PROVE  BalanceInv'
<1> DEFINE f == Top(g)
           n == Len(taskScopes[g])
           m == Len(taskLimits[g])
<1>1. Running(g) /\ f.st = "defers" /\ f.goal = "recur" /\ UNCHANGED taskVars
  BY DEF RecurScopeLeft, Step
<1>2. /\ f \in FrameRec(spawned) /\ f.open \in Int /\ Len(f.defers) \in Nat
      /\ f.env \in Int /\ f.taskBase \in Nat /\ f.limBase \in Nat /\ n \in Nat /\ m \in Nat
      /\ FrameOpen(f, n) /\ (Clean => FrameEven(f, n, m))
  BY <1>1, TopCounts
<1>3. /\ f.open > 0 /\ f.env >= f.open /\ Len(f.defers) + 1 >= f.open
      /\ n + 0 >= f.taskBase + f.open
      /\ f.env >= 0 /\ f.taskBase <= n /\ (Clean => m - f.limBase = n - f.taskBase)
  BY <1>1, <1>2 DEF FrameOpen, FrameEven
<1>4. CASE f.cur = "recur"
  <2>1. Migrate(g, f)
    BY <1>4 DEF RecurScopeLeft
  <2>2. n >= f.taskBase + f.open
    BY <1>2, <1>3
  <2> QED BY <1>1, <1>2, <1>3, <2>1, <2>2, MigrateBalance
<1>5. CASE f.cur # "recur"
  <2> DEFINE open == f.open - 1
             new == [f EXCEPT !.st = "tail", !.goal = "none", !.open = open]
  <2>1. SetTop(g, new) /\ UNCHANGED <<taskScopes, taskLimits, spawned>>
    BY <1>1, <1>5 DEF RecurScopeLeft, stackVars, taskVars
  <2>2. /\ f.env >= open /\ Len(f.defers) + 0 >= open /\ n + 0 >= f.taskBase + open
    BY <1>2, <1>3
  <2> HIDE DEF open
  <2>3. /\ new.st = "tail" /\ new.goal = "none" /\ new.open = open /\ new.env = f.env
        /\ new.taskBase = f.taskBase /\ new.limBase = f.limBase /\ new.defers = f.defers
    BY <1>2 DEF FrameRec
  <2> HIDE DEF new, f
  <2>4. FrameOpen(new, n)
    BY <1>3, <2>2, <2>3 DEF FrameOpen
  <2>5. Clean => FrameEven(new, n, m)
    BY <1>3, <2>3 DEF FrameEven
  <2> QED BY <1>1, <2>1, <2>3, <2>4, <2>5, BalanceFrame DEF f, n, m
<1> QED BY <1>4, <1>5

----------------------------------------------------------------------------
(* Entering scopes and calling *)

\* A stack of which one element more is pushed.
LEMMA PushedParts ==
  ASSUME NEW S, NEW s \in Seq(S), NEW e \in S
  PROVE  /\ Len(s) \in Nat /\ Len(Append(s, e)) = Len(s) + 1
         /\ Append(s, e)[Len(s) + 1] = e
         /\ \A j \in 1 .. Len(s) : Append(s, e)[j] = s[j]
BY StackPush

LEMMA EnterScopeBalance ==
  ASSUME IInv, IInv', LinkInv, BalanceInv, NEW g \in Goroutine, Running(g),
         Top(g).st \in {"enter", "run"}, NEW arg \in ScopeArg, EnterScope(g, Top(g), arg)
  PROVE  BalanceInv'
<1> DEFINE f == Top(g)
           open == f.open + 1
           env == f.env + 1
           defers == Append(f.defers, <<>>)
           carry == IF arg = 0 THEN f.carry ELSE <<>>
           hs == IF arg = 0 THEN <<>> ELSE f.carry
           scope == [nursery |-> arg # 0, hs |-> hs]
           limit == IF arg = 0 THEN 0 ELSE Len(limiter) + 1
           scopes == Append(taskScopes[g], scope)
           limits == Append(taskLimits[g], limit)
           n == Len(taskScopes[g])
           m == Len(taskLimits[g])
           new == [f EXCEPT !.st = "run", !.open = open, !.env = env, !.defers = defers,
                            !.carry = carry]
<1>1. /\ SetTop(g, new) /\ taskScopes' = [taskScopes EXCEPT ![g] = scopes]
      /\ taskLimits' = [taskLimits EXCEPT ![g] = limits] /\ UNCHANGED spawned
  <2>1. SetTop(g, new) /\ taskScopes' = [taskScopes EXCEPT ![g] = scopes] /\ UNCHANGED spawned
    BY DEF EnterScope, Entered, taskVars
  <2>2. taskLimits' = [taskLimits EXCEPT ![g] = limits]
    BY DEF EnterScope, IInv, LimitersOK
  <2> QED BY <2>1, <2>2
<1>2. /\ f \in FrameRec(spawned) /\ FrameSt(f) /\ f.open \in Int /\ Len(f.defers) \in Nat
      /\ f.env \in Int /\ f.taskBase \in Nat /\ f.limBase \in Nat /\ n \in Nat /\ m \in Nat
      /\ FrameOpen(f, n) /\ (Clean => FrameEven(f, n, m))
  BY TopCounts
<1>3. /\ taskScopes[g] \in Seq(ScopeUpTo(spawned)) /\ taskLimits[g] \in Seq(0 .. Len(limiter))
      /\ f.defers \in Seq(Seq(Mode)) /\ f.carry \in HandleList(spawned)
  BY <1>2, FramesTyped DEF FrameRec
<1>4. f.st \in {"enter", "run"} /\ f.goal = "none"
  BY <1>2 DEF FrameSt
<1>5. /\ scope \in ScopeUpTo(spawned) /\ scope.nursery = (arg # 0)
      /\ (limit # 0) = (arg # 0) /\ limit \in Nat
  <2>1. hs \in HandleList(spawned)
    BY <1>3, EmptySeq DEF HandleList
  <2>2. Len(limiter) \in Nat
    BY LenProperties DEF IInv, LimitersOK
  <2>3. scope \in ScopeUpTo(spawned) /\ scope.nursery = (arg # 0)
    <3> HIDE DEF hs
    <3> QED BY <2>1 DEF ScopeUpTo
  <2>4. (limit # 0) = (arg # 0) /\ limit \in Nat
    BY <2>2
  <2> QED BY <2>3, <2>4
<1>6. /\ Len(scopes) = n + 1 /\ scopes[n + 1] = scope
      /\ \A j \in 1 .. n : scopes[j] = taskScopes[g][j]
  <2> HIDE DEF scope
  <2> QED BY <1>3, <1>5, PushedParts
<1>7. /\ Len(limits) = m + 1 /\ limits[m + 1] = limit
      /\ \A j \in 1 .. m : limits[j] = taskLimits[g][j]
  <2>1. 0 .. Len(limiter) \subseteq Nat
    BY LenProperties DEF IInv, LimitersOK
  <2>2. taskLimits[g] \in Seq(Nat)
    BY <1>3, <2>1, SeqMonotonic
  <2> HIDE DEF limit
  <2> QED BY <1>5, <2>2, PushedParts
<1>8. Len(defers) = Len(f.defers) + 1
  <2>1. <<>> \in Seq(Mode)
    BY EmptySeq
  <2> QED BY <1>3, <2>1, PushedParts
<1> HIDE DEF f, open, env, defers, carry, scope, limit, scopes, limits, n, m
<1>9. /\ new.st = "run" /\ new.goal = "none" /\ new.open = open /\ new.env = env
      /\ new.taskBase = f.taskBase /\ new.limBase = f.limBase /\ new.defers = defers
  <2>1. f \in FrameRec(spawned)
    BY <1>2
  <2>2. new.st = "run" /\ new.goal = f.goal /\ new.open = open /\ new.env = env
    BY ONLY <2>1 DEF FrameRec, new
  <2>3. new.taskBase = f.taskBase /\ new.limBase = f.limBase /\ new.defers = defers
    BY ONLY <2>1 DEF FrameRec, new
  <2> QED BY <1>4, <2>2, <2>3
<1> HIDE DEF new, f
<1>10. Extends(taskScopes[g], taskLimits[g], scopes, limits)
  <2>1. \A j \in 1 .. n + 1 : j <= n => scopes[j] = taskScopes[g][j]
    BY <1>2, <1>6
  <2>2. \A j \in 1 .. m + 1 : j <= m => limits[j] = taskLimits[g][j]
    BY <1>2, <1>7
  <2>3. (limits[m + 1] # 0) = scopes[n + 1].nursery
    BY <1>5, <1>6, <1>7
  <2> QED BY <1>6, <1>7, <2>1, <2>2, <2>3 DEF Extends, n, m
<1>11. f.env >= f.open /\ Len(f.defers) + 0 >= f.open /\ n + 0 >= f.taskBase + f.open
       /\ f.env >= 0 /\ f.taskBase <= n /\ (Clean => m - f.limBase = n - f.taskBase)
  BY <1>2, <1>4 DEF FrameOpen, FrameEven
<1>12. FrameOpen(new, Len(scopes))
  <2>1. env >= 0 /\ env >= open
    BY <1>2, <1>11 DEF open, env
  <2>2. Len(defers) + 0 >= open
    BY <1>2, <1>8, <1>11 DEF open
  <2>3. Len(scopes) + 0 >= f.taskBase + open /\ f.taskBase <= Len(scopes)
    BY <1>2, <1>6, <1>11 DEF open
  <2> QED BY ONLY <1>9, <2>1, <2>2, <2>3 DEF FrameOpen
<1>13. ASSUME Clean PROVE FrameEven(new, Len(scopes), Len(limits))
  <2>1. /\ m - f.limBase = n - f.taskBase
        /\ m \in Nat /\ n \in Nat /\ f.limBase \in Nat /\ f.taskBase \in Nat
    BY <1>2, <1>11, <1>13
  <2>2. (m + 1) - f.limBase = (n + 1) - f.taskBase
    BY ONLY <2>1
  <2> QED BY <1>6, <1>7, <1>9, <2>2 DEF FrameEven
<1> QED BY <1>1, <1>9, <1>10, <1>12, <1>13, BalanceTop DEF f

LEMMA PushScopeBalance ==
  ASSUME IInv, IInv', LinkInv, BalanceInv, NEW g \in Goroutine, PushScope(g) \/ EnterFunction(g)
  PROVE  BalanceInv'
<1>1. CASE EnterFunction(g)
  <2>1. Running(g) /\ Top(g).st = "enter" /\ EnterScope(g, Top(g), Top(g).arg)
    BY <1>1 DEF EnterFunction, Step
  <2>2. Top(g).arg \in ScopeArg
    BY <2>1, TopCounts DEF FrameRec
  <2> QED BY <2>1, <2>2, EnterScopeBalance
<1>2. CASE PushScope(g)
  <2>1. Running(g) /\ Top(g).st = "run"
    BY <1>2 DEF PushScope, Instr, Step
  <2>2. PICK arg \in ScopeArg : EnterScope(g, Top(g), arg)
    BY <1>2 DEF PushScope, NurseryArg, ScopeArg
  <2> QED BY <2>1, <2>2, EnterScopeBalance
<1> QED BY <1>1, <1>2

\* A new frame has opened nothing.
LEMMA NewFrameCounts ==
  ASSUME NEW kind \in {"body", "fn", "defer"}, NEW mode, NEW arg, NEW n \in Nat, NEW m \in Nat
  PROVE  LET f == NewFrame(kind, mode, arg, n, m)
         IN  /\ f.taskBase = n /\ f.limBase = m /\ f.goal = "none"
             /\ FrameOpen(f, n) /\ FrameEven(f, n, m)
<1> DEFINE f == NewFrame(kind, mode, arg, n, m)
<1>1. /\ f.taskBase = n /\ f.limBase = m /\ f.goal = "none" /\ f.env = 0 /\ f.open = 0
      /\ f.st \in {"enter", "run"} /\ f.defers = <<>>
  BY DEF NewFrame
<1>2. m - m = n - n /\ n <= n /\ n + 0 >= n + 0 /\ Len(<<>>) + 0 >= 0
  BY EmptySeq
<1> HIDE DEF f
<1>3. FrameEven(f, n, m)
  BY <1>1, <1>2 DEF FrameEven
<1>4. FrameOpen(f, n)
  BY <1>1, <1>2 DEF FrameOpen
<1> QED BY <1>1, <1>3, <1>4 DEF f

LEMMA CallBalance ==
  ASSUME IInv, IInv', LinkInv, BalanceInv, NEW g \in Goroutine, Call(g)
  PROVE  BalanceInv'
<1> DEFINE s == frames[g]
           n == Len(taskScopes[g])
           m == Len(taskLimits[g])
<1>1. Running(g) /\ UNCHANGED <<taskScopes, taskLimits, spawned>>
  BY DEF Call, Instr, Step, stackVars, taskVars
<1>2. PICK arg \in ScopeArg : PushFrame(g, Callee(g, "fn", "always", arg))
  BY DEF Call, NurseryArg, ScopeArg
<1> DEFINE callee == Callee(g, "fn", "always", arg)
           t == Append(s, callee)
<1>3. frames' = [frames EXCEPT ![g] = t] /\ frames'[g] = t
  BY <1>2 DEF PushFrame, IInv, FramesOK
<1>4. /\ taskScopes' = [taskScopes EXCEPT ![g] = taskScopes[g]]
      /\ taskLimits' = [taskLimits EXCEPT ![g] = taskLimits[g]]
  BY <1>1 DEF IInv, ScopesOK, LimitersOK
<1>5. /\ s \in FrameSeq /\ Len(s) \in Nat /\ Len(s) >= 1 /\ n \in Nat /\ m \in Nat
      /\ taskScopes[g] \in Seq(ScopeUpTo(spawned))
  <2>1. s \in FrameSeq /\ s # <<>> /\ n \in Nat /\ m \in Nat
        /\ taskScopes[g] \in Seq(ScopeUpTo(spawned))
    BY <1>1, FramesTyped DEF Running
  <2> QED BY <2>1, StackParts DEF FrameSeq
<1>6. /\ callee.taskBase = n /\ callee.limBase = m /\ callee.goal = "none"
      /\ FrameOpen(callee, n) /\ callee \in FrameRec(spawned)
  <2>1. /\ callee.taskBase = n /\ callee.limBase = m /\ callee.goal = "none"
        /\ FrameOpen(callee, n)
    BY <1>5, NewFrameCounts DEF Callee
  <2>2. callee \in FrameRec(spawned)
    BY <1>5, NewFrameType, FramesTyped DEF Callee, Mode, FrameUpTo
  <2> QED BY <2>1, <2>2
<1>7. Opened(s, n) /\ (Clean => Aligned(s, taskScopes[g], taskLimits[g]))
  BY DEF BalanceInv, Balanced
<1> HIDE DEF callee
<1>8. t \in FrameSeq /\ Len(t) = Len(s) + 1 /\ t[Len(s) + 1] = callee
      /\ \A i \in 1 .. Len(s) : t[i] = s[i]
  BY <1>5, <1>6, StackPush DEF FrameSeq
<1> HIDE DEF s, t
<1>9. Opened(t, n)
  BY <1>5, <1>6, <1>7, <1>8, OpenedPush
<1>10. Clean => Aligned(t, taskScopes[g], taskLimits[g])
  BY <1>5, <1>6, <1>7, <1>8, AlignedPush
<1> QED BY <1>1, <1>3, <1>4, <1>9, <1>10, BalanceStep

\* The frame on top is replaced and handles may move, nothing is popped.
LEMMA StackTopReplaced ==
  ASSUME NEW s \in FrameSeq, s # <<>>, NEW f \in FrameRec(spawned), SameCounts(Last(s), f),
         NEW S1, NEW S2, NEW scopes \in Seq(S1), NEW scopes2 \in Seq(S1), NEW limits \in Seq(S2),
         Len(scopes2) = Len(scopes),
         \A j \in 1 .. Len(scopes) : scopes2[j].nursery = scopes[j].nursery,
         Opened(s, Len(scopes)), Clean => Aligned(s, scopes, limits)
  PROVE  LET t == Append(Front(s), f)
         IN  /\ t \in FrameSeq /\ t # <<>> /\ Len(t) >= 1 /\ Len(t) \in Nat
             /\ Opened(t, Len(scopes)) /\ (Clean => Aligned(t, scopes2, limits))
<1> DEFINE t == Append(Front(s), f)
           c == Last(s)
           n == Len(scopes)
           m == Len(limits)
<1>1. /\ Len(s) \in Nat /\ Len(s) >= 1 /\ c = s[Len(s)] /\ c \in FrameRec(spawned)
      /\ Front(s) \in Seq(FrameRec(spawned)) /\ Len(Front(s)) = Len(s) - 1
      /\ \A i \in 1 .. Len(s) - 1 : Front(s)[i] = s[i]
  BY StackParts DEF FrameSeq
<1>2. /\ t \in FrameSeq /\ t # <<>> /\ Len(t) = Len(s) /\ t[Len(s)] = f
      /\ \A i \in 1 .. Len(s) - 1 : t[i] = s[i]
  <2>1. /\ t \in FrameSeq /\ t # <<>> /\ Len(t) = Len(Front(s)) + 1 /\ t[Len(Front(s)) + 1] = f
        /\ \A i \in 1 .. Len(Front(s)) : t[i] = Front(s)[i]
    BY <1>1, StackPush DEF FrameSeq
  <2> HIDE DEF t
  <2> QED BY <1>1, <2>1
<1>3. n \in Nat /\ m \in Nat
  BY LenProperties
<1>4. Len(s) \in 1 .. Len(s) /\ TaskDepth(s, n, Len(s)) = n /\ LimitDepth(s, m, Len(s)) = m
  BY <1>1 DEF TaskDepth, LimitDepth
<1>5. FrameOpen(c, n) /\ (Clean => FrameEven(c, n, m))
  BY <1>1, <1>4 DEF Opened, Aligned, Even
<1>6. c.open \in Int /\ Len(c.defers) \in Nat
  <2>1. c.defers \in Seq(Seq(Mode)) /\ c.open \in Int
    BY <1>1 DEF FrameRec
  <2> QED BY <2>1, LenProperties
<1>7. SameCounts(c, f) /\ f.taskBase = c.taskBase /\ f.limBase = c.limBase
  BY DEF SameCounts
<1>8. Opened(s, n) /\ (Clean => Aligned(s, scopes, limits)) /\ Len(scopes2) = n
      /\ \A j \in 1 .. n : scopes2[j].nursery = scopes[j].nursery
  OBVIOUS
<1> HIDE DEF t, c, n, m
<1>9. FrameOpen(f, n) /\ (Clean => FrameEven(f, n, m))
  BY <1>3, <1>5, <1>6, <1>7, CountsKept
<1>10. Opened(t, n)
  BY <1>1, <1>2, <1>3, <1>7, <1>8, <1>9, OpenedTop
<1>11. ASSUME Clean PROVE Aligned(t, scopes2, limits)
  <2>1. ~(n > n) /\ f.taskBase <= n
    BY <1>3, <1>9 DEF FrameOpen
  <2>2. Extends(scopes, limits, scopes2, limits)
    BY <1>8, <2>1 DEF Extends, n
  <2>3. /\ t[Len(s)].taskBase = s[Len(s)].taskBase /\ t[Len(s)].limBase = s[Len(s)].limBase
        /\ t[Len(s)].taskBase <= Len(scopes2)
        /\ FrameEven(t[Len(s)], Len(scopes2), Len(limits))
        /\ ~(Len(scopes2) > Len(scopes))
    BY <1>1, <1>2, <1>7, <1>8, <1>9, <1>11, <2>1 DEF n, m
  <2>4. Opened(s, Len(scopes)) /\ Aligned(s, scopes, limits)
        /\ Len(scopes) \in Nat /\ Len(limits) \in Nat /\ Len(scopes2) \in Nat
    BY <1>3, <1>8, <1>11 DEF n, m
  <2> QED BY <1>1, <1>2, <2>2, <2>3, <2>4, AlignedTop
<1> QED BY <1>1, <1>2, <1>10, <1>11 DEF t, n

LEMMA RunDeferredBalance ==
  ASSUME IInv, IInv', LinkInv, BalanceInv, NEW g \in Goroutine, RunDeferred(g)
  PROVE  BalanceInv'
<1> DEFINE s == frames[g]
           f == Top(g)
           mode == Last(f.entries)
           front == Front(f.entries)
           rest == [f EXCEPT !.entries = front]
           callee == Callee(g, "defer", mode, 0)
           below == Append(Front(s), rest)
           t == Append(below, callee)
           n == Len(taskScopes[g])
           m == Len(taskLimits[g])
<1>1. Running(g) /\ f.st = "defers" /\ f.entries # <<>> /\ UNCHANGED <<taskScopes, taskLimits, spawned>>
  BY DEF RunDeferred, Step, stackVars, taskVars
<1>2. f \in FrameRec(spawned) /\ Len(f.defers) \in Nat
  BY <1>1, TopCounts
<1>3. mode \in Mode /\ front \in Seq(Mode)
  BY <1>1, <1>2, StackTop DEF FrameRec
<1>4. rest \in FrameRec(spawned) /\ SameCounts(f, rest)
  <2> HIDE DEF front, f
  <2>1. rest \in FrameRec(spawned)
    BY <1>2, <1>3 DEF FrameRec
  <2>2. /\ rest.st = f.st /\ rest.goal = f.goal /\ rest.open = f.open /\ rest.env = f.env
        /\ rest.taskBase = f.taskBase /\ rest.limBase = f.limBase /\ rest.defers = f.defers
    BY <1>2 DEF FrameRec
  <2>3. Len(f.defers) >= Len(f.defers)
    BY <1>2
  <2> HIDE DEF rest
  <2> QED BY <1>1, <1>2, <2>1, <2>2, <2>3 DEF SameCounts
<1>5. CASE SetTop(g, rest)
  <2> HIDE DEF rest
  <2> QED BY <1>1, <1>4, <1>5, BalanceKept
<1>6. CASE frames' = [frames EXCEPT ![g] = t]
  <2>1. /\ s \in FrameSeq /\ s # <<>> /\ n \in Nat /\ m \in Nat /\ Last(s) = f
        /\ taskScopes[g] \in Seq(ScopeUpTo(spawned)) /\ taskLimits[g] \in Seq(0 .. Len(limiter))
    BY <1>1, FramesTyped DEF Running, Top
  <2>2. /\ taskScopes' = [taskScopes EXCEPT ![g] = taskScopes[g]]
        /\ taskLimits' = [taskLimits EXCEPT ![g] = taskLimits[g]]
    BY <1>1 DEF IInv, ScopesOK, LimitersOK
  <2>3. Opened(s, n) /\ (Clean => Aligned(s, taskScopes[g], taskLimits[g]))
    BY DEF BalanceInv, Balanced
  <2>4. /\ callee.taskBase = n /\ callee.limBase = m /\ callee.goal = "none"
        /\ FrameOpen(callee, n) /\ callee \in FrameRec(spawned)
    <3>1. /\ callee.taskBase = n /\ callee.limBase = m /\ callee.goal = "none"
          /\ FrameOpen(callee, n)
      BY <2>1, NewFrameCounts DEF Callee
    <3>2. 0 \in ScopeArg
      BY DEF ScopeArg
    <3>3. callee \in FrameRec(spawned)
      <4> HIDE DEF mode
      <4> QED BY <1>3, <2>1, <3>2, NewFrameType, FramesTyped DEF Callee, FrameUpTo
    <3> QED BY <3>1, <3>3
  <2> HIDE DEF rest, f, callee, n, m
  <2>5. /\ below \in FrameSeq /\ Len(below) >= 1 /\ Len(below) \in Nat
        /\ Opened(below, n) /\ (Clean => Aligned(below, taskScopes[g], taskLimits[g]))
    BY <1>4, <2>1, <2>3, StackTopReplaced DEF n
  <2> HIDE DEF below
  <2>6. t \in FrameSeq /\ Len(t) = Len(below) + 1 /\ t[Len(below) + 1] = callee
        /\ \A i \in 1 .. Len(below) : t[i] = below[i]
    BY <2>4, <2>5, StackPush DEF FrameSeq
  <2> HIDE DEF t, s
  <2>7. Opened(t, n)
    BY <2>1, <2>4, <2>5, <2>6, OpenedPush
  <2>8. Clean => Aligned(t, taskScopes[g], taskLimits[g])
    BY <2>1, <2>4, <2>5, <2>6, AlignedPush DEF n, m
  <2> QED BY <1>1, <1>6, <2>2, <2>7, <2>8, BalanceStep DEF n
<1> QED BY <1>5, <1>6 DEF RunDeferred

----------------------------------------------------------------------------
(* Frames that leave *)

\* A caller takes a result up and opens nothing.
LEMMA ReturnedCounts ==
  ASSUME NEW k, NEW c \in FrameRec(k), NEW f, c.st = CallerSt(f), NEW r, Len(c.defers) \in Nat
  PROVE  SameCounts(c, Returned(c, f, r))
<1> DEFINE new == Returned(c, f, r)
           cur == DeferOutcome(c.cur, f.mode, r)
<1>1. c.st \in {"defers", "run"}
  BY DEF CallerSt
<1>2. CASE new = [c EXCEPT !.cur = cur]
  <2> HIDE DEF cur, new
  <2>1. /\ new.st = c.st /\ new.goal = c.goal /\ new.open = c.open /\ new.env = c.env
        /\ new.taskBase = c.taskBase /\ new.limBase = c.limBase /\ new.defers = c.defers
    BY <1>2 DEF FrameRec
  <2>2. Len(c.defers) >= Len(c.defers)
    OBVIOUS
  <2> QED BY <1>1, <2>1, <2>2 DEF SameCounts, new
<1>3. CASE new = [c EXCEPT !.st = "unwind", !.cur = r]
  <2> HIDE DEF new
  <2> QED BY <1>1, <1>3 DEF FrameRec, SameCounts, new
<1>4. CASE new = c
  <2>1. Len(c.defers) >= Len(c.defers)
    OBVIOUS
  <2> QED BY <1>1, <1>4, <2>1 DEF SameCounts
<1> QED BY <1>2, <1>3, <1>4 DEF Returned

LEMMA LeaveBalance ==
  ASSUME IInv, IInv', LinkInv, BalanceInv, NEW g \in Goroutine, Running(g), NEW r,
         Leave(g, r), UNCHANGED <<taskScopes, taskLimits, spawned>>,
         Clean => /\ Top(g).taskBase = Len(taskScopes[g])
                  /\ Top(g).limBase = Len(taskLimits[g])
  PROVE  BalanceInv'
<1> DEFINE s == frames[g]
           rest == Front(s)
           f == Top(g)
           n == Len(taskScopes[g])
           m == Len(taskLimits[g])
<1>1. /\ s \in FrameSeq /\ s # <<>> /\ n \in Nat /\ m \in Nat
      /\ taskScopes[g] \in Seq(ScopeUpTo(spawned)) /\ taskLimits[g] \in Seq(0 .. Len(limiter))
  BY FramesTyped DEF Running
<1>2. /\ rest \in FrameSeq /\ Len(s) \in Nat /\ Len(s) >= 1 /\ Len(rest) = Len(s) - 1
      /\ \A i \in 1 .. Len(s) - 1 : rest[i] = s[i]
      /\ f = s[Len(s)]
  BY <1>1, StackParts DEF FrameSeq, Top
<1>3. /\ taskScopes' = [taskScopes EXCEPT ![g] = taskScopes[g]]
      /\ taskLimits' = [taskLimits EXCEPT ![g] = taskLimits[g]]
  BY DEF IInv, ScopesOK, LimitersOK
<1>4. Opened(s, n) /\ (Clean => Aligned(s, taskScopes[g], taskLimits[g]))
  BY DEF BalanceInv, Balanced
<1>5. rest # <<>> => Last(rest).st = CallerSt(f)
  <2>1. s \in Seq(GoodFrame(g)) /\ Linked(s)
    BY TopGood
  <2> QED BY <1>1, <2>1, LinkedPop DEF Top
<1>6. Clean => f.taskBase = n /\ f.limBase = m
  OBVIOUS
<1> HIDE DEF f, n, m
<1>7. Opened(rest, n)
  <2> HIDE DEF s, rest
  <2> QED BY <1>1, <1>2, <1>4, OpenedPop
<1>8. ASSUME Clean PROVE Aligned(rest, taskScopes[g], taskLimits[g])
  <2> HIDE DEF s, rest
  <2>1. /\ Len(rest) \in Nat /\ Len(s) = Len(rest) + 1
        /\ \A i \in 1 .. Len(rest) : rest[i] = s[i]
        /\ s[Len(rest) + 1].taskBase = n /\ s[Len(rest) + 1].limBase = m
    BY <1>2, <1>6, <1>8
  <2> QED BY <1>1, <1>2, <1>4, <1>8, <2>1, AlignedPop DEF n, m
<1>9. CASE rest = <<>>
  <2>1. frames' = [frames EXCEPT ![g] = rest]
    BY <1>9 DEF Leave
  <2> HIDE DEF rest
  <2> QED BY <1>3, <1>7, <1>8, <2>1, BalanceStep DEF n
<1>10. CASE rest # <<>>
  <2> DEFINE c == Last(rest)
             new == Returned(c, f, r)
             t == Append(Front(rest), new)
  <2>1. frames' = [frames EXCEPT ![g] = t]
    BY <1>10 DEF Leave, f
  <2>2. c \in FrameRec(spawned) /\ c.st = CallerSt(f)
    <3> HIDE DEF rest
    <3> QED BY <1>2, <1>5, <1>10, StackTop DEF FrameSeq
  <2>3. SameCounts(c, new)
    <3>1. c.defers \in Seq(Seq(Mode))
      BY <2>2 DEF FrameRec
    <3> HIDE DEF c
    <3> QED BY <2>2, <3>1, LenProperties, ReturnedCounts
  <2> HIDE DEF new, rest
  <2>4. new \in FrameRec(spawned)
    <3>1. frames'[g] = t
      BY <2>1 DEF IInv, FramesOK
    <3>2. t \in Seq(FrameUpTo(spawned))
      BY <3>1 DEF IInv, FramesOK
    <3>3. t # <<>> /\ Last(t) = new
      <4>1. Front(rest) \in Seq(FrameRec(spawned))
        BY <1>2, <1>10, StackTop DEF FrameSeq
      <4> QED BY <4>1, LenProperties, EmptySeq DEF Last
    <3> HIDE DEF t
    <3> QED BY <3>2, <3>3, StackTop DEF FrameUpTo
  <2>5. Opened(t, n) /\ (Clean => Aligned(t, taskScopes[g], taskLimits[g]))
    BY <1>1, <1>2, <1>7, <1>8, <1>10, <2>3, <2>4, StackTopReplaced DEF n
  <2> HIDE DEF t
  <2> QED BY <1>3, <2>1, <2>5, BalanceStep DEF n
<1> QED BY <1>9, <1>10

LEMMA FrameReturnsBalance ==
  ASSUME IInv, IInv', LinkInv, BalanceInv, NEW g \in Goroutine, FrameReturns(g) \/ Fault(g)
  PROVE  BalanceInv'
<1> DEFINE f == Top(g)
           n == Len(taskScopes[g])
           m == Len(taskLimits[g])
<1>1. Running(g) /\ UNCHANGED <<taskScopes, taskLimits, spawned>>
  BY DEF FrameReturns, Fault, Instr, Step, stackVars
<1>2. /\ f \in FrameRec(spawned) /\ FrameSt(f) /\ f.taskBase \in Nat /\ f.limBase \in Nat
      /\ n \in Nat /\ m \in Nat /\ FrameOpen(f, n) /\ (Clean => FrameEven(f, n, m))
  BY <1>1, TopCounts
<1>3. f.taskBase <= n /\ f.env >= 0
  BY <1>2 DEF FrameOpen
<1>4. CASE FrameReturns(g)
  <2>1. f.st = "unwind" /\ f.defers = <<>> /\ n <= f.taskBase
    BY <1>4 DEF FrameReturns, Step, Unwound
  <2>2. f.goal = "none" /\ n = f.taskBase
    BY <1>2, <1>3, <2>1 DEF FrameSt
  <2>3. Clean => m - f.limBase = n - f.taskBase
    BY <1>2, <2>2 DEF FrameEven
  <2>4. CASE f.kind = "fn" /\ f.cur = "recur"
    <3> DEFINE iter == f.iter + 1
               open == 0
               new == [f EXCEPT !.st = "enter", !.cur = "val", !.open = open, !.iter = iter]
    <3>1. SetTop(g, new)
      BY <1>4, <2>4 DEF FrameReturns
    <3>2. Len(<<>>) + 0 >= open /\ n + 0 >= f.taskBase + open
      BY <1>2, <2>2, EmptySeq
    <3> HIDE DEF iter, open
    <3>3. /\ new.st = "enter" /\ new.goal = f.goal /\ new.open = open /\ new.env = f.env
          /\ new.taskBase = f.taskBase /\ new.limBase = f.limBase /\ new.defers = f.defers
      BY <1>2 DEF FrameRec
    <3> HIDE DEF new, f, n, m
    <3>4. FrameOpen(new, n)
      <4>1. new.env >= open
        BY <1>3, <3>3 DEF open
      <4> QED BY ONLY <1>3, <2>1, <2>2, <3>2, <3>3, <4>1 DEF FrameOpen
    <3>5. Clean => FrameEven(new, n, m)
      BY <2>2, <2>3, <3>3 DEF FrameEven
    <3> QED BY <1>1, <3>1, <3>3, <3>4, <3>5, BalanceFrame DEF f, n, m
  <2>5. CASE ~(f.kind = "fn" /\ f.cur = "recur")
    <3>1. PICK r \in Results(f) : Leave(g, r)
      BY <1>4, <2>5 DEF FrameReturns
    <3>2. Clean => f.taskBase = n /\ f.limBase = m
      BY <1>2, <2>2, <2>3
    <3> QED BY <1>1, <3>1, <3>2, LeaveBalance
  <2> QED BY <2>4, <2>5
<1>5. CASE Fault(g)
  <2>1. Leave(g, "fault") /\ ~Clean
    BY <1>5 DEF Fault, Instr, Clean
  <2> QED BY <1>1, <2>1, LeaveBalance
<1> QED BY <1>4, <1>5

----------------------------------------------------------------------------
(* Tasks *)

\* A goroutine begins with one frame and no scopes.
LEMMA FirstFrame ==
  ASSUME NEW kind \in {"body", "fn", "defer"}, NEW mode, NEW arg
  PROVE  LET s == << NewFrame(kind, mode, arg, 0, 0) >>
         IN  Opened(s, Len(<<>>)) /\ Aligned(s, <<>>, <<>>)
<1> DEFINE f == NewFrame(kind, mode, arg, 0, 0)
           s == <<f>>
<1>1. /\ f.taskBase = 0 /\ f.limBase = 0 /\ f.goal = "none"
      /\ FrameOpen(f, 0) /\ FrameEven(f, 0, 0)
  BY NewFrameCounts
<1> HIDE DEF f
<1>2. Len(s) = 1 /\ s[1] = f /\ s # <<>> /\ Len(<<>>) = 0
  BY EmptySeq
<1>3. TaskDepth(s, 0, 1) = 0 /\ LimitDepth(s, 0, 1) = 0
  BY <1>2 DEF TaskDepth, LimitDepth
<1> HIDE DEF s
<1>4. Opened(s, 0)
  BY <1>1, <1>2, <1>3 DEF Opened
<1>5. Even(s, <<>>, <<>>)
  <2>1. Paired(f, 0, <<>>, <<>>)
    BY <1>1 DEF Paired
  <2> QED BY <1>1, <1>2, <1>3, <2>1 DEF Even
<1>6. Stacked(s) /\ Level(s) /\ Covered(s, 0)
  BY <1>1, <1>2 DEF Stacked, Level, Covered
<1> QED BY <1>2, <1>4, <1>5, <1>6 DEF Aligned, s, f

LEMMA StartTaskBalance ==
  ASSUME IInv, IInv', LinkInv, BalanceInv, NEW g \in Goroutine, StartTask(g)
  PROVE  BalanceInv'
<1> DEFINE h == spawned + 1
           old == Last(frames[g])
           top == [old EXCEPT !.st = "run"]
           caller == Append(Front(frames[g]), top)
           scopes == AdoptAll(taskScopes[g], <<h>>)
           n == Len(taskScopes[g])
<1>1. /\ Running(g) /\ Top(g).st = "spawn" /\ spawned < MaxTask
      /\ taskScopes' = [taskScopes EXCEPT ![g] = scopes]
      /\ spawned' = h /\ UNCHANGED taskLimits
  BY DEF StartTask, Step
<1>2. PICK kind \in {"body", "fn"} :
        frames' = [frames EXCEPT ![g] = caller, ![h] = << NewFrame(kind, "always", 0, 0, 0) >>]
  <2>1. PICK kind \in {"body"} \cup (IF "spawnBlock" \in Ops THEN {"fn"} ELSE {}) :
          frames' = [frames EXCEPT
             ![g] = Append(Front(@), [Last(@) EXCEPT !.st = "run"]),
             ![h] = << NewFrame(kind, "always", 0, 0, 0) >>]
    BY DEF StartTask
  <2> QED BY <2>1
<1> DEFINE body == << NewFrame(kind, "always", 0, 0, 0) >>
<1>3. spawned \in Nat /\ h \in Handle /\ h \in Goroutine /\ h # g /\ h > spawned
  <2>1. spawned \in Nat /\ h \in Handle /\ h \in Goroutine /\ h > spawned
    BY <1>1, TopType, ExecutorAssumption DEF Handle, Goroutine
  <2>2. h # g
    BY <1>1, <2>1 DEF IInv, TasksOK, Running
  <2> QED BY <2>1, <2>2
<1>4. /\ frames[g] \in FrameSeq /\ frames[g] # <<>> /\ n \in Nat
      /\ taskScopes[g] \in Seq(ScopeUpTo(spawned)) /\ taskLimits[g] \in Seq(0 .. Len(limiter))
      /\ old \in FrameRec(spawned) /\ old.st = "spawn" /\ Len(old.defers) \in Nat
  BY <1>1, FramesTyped, TopCounts DEF Running, Top
<1>5. /\ Opened(frames[g], n)
      /\ Clean => Aligned(frames[g], taskScopes[g], taskLimits[g])
  BY DEF BalanceInv, Balanced
<1>6. top \in FrameRec(spawned) /\ SameCounts(old, top)
  <2> HIDE DEF old
  <2>1. top \in FrameRec(spawned)
    BY <1>4 DEF FrameRec, State
  <2>2. /\ top.st = "run" /\ top.goal = old.goal /\ top.open = old.open /\ top.env = old.env
        /\ top.taskBase = old.taskBase /\ top.limBase = old.limBase /\ top.defers = old.defers
    BY <1>4 DEF FrameRec
  <2>3. Len(old.defers) >= Len(old.defers)
    BY <1>4
  <2> HIDE DEF top
  <2> QED BY <1>4, <2>1, <2>2, <2>3 DEF SameCounts
<1> HIDE DEF h, top
<1>7. Len(scopes) = n /\ \A j \in 1 .. n : scopes[j].nursery = taskScopes[g][j].nursery
  BY <1>4, AdoptAllParts DEF ScopeUpTo
<1>8. Opened(caller, n) /\ (Clean => Aligned(caller, scopes, taskLimits[g]))
  <2>1. \E S : taskScopes[g] \in Seq(S) /\ scopes \in Seq(S)
    <3>1. taskScopes[g] \in Seq(ScopeUpTo(spawned')) /\ scopes \in Seq(ScopeUpTo(spawned'))
      <4>1. 1 .. spawned \subseteq 1 .. spawned'
        BY <1>1, <1>3 DEF h
      <4>2. ScopeUpTo(spawned) \subseteq ScopeUpTo(spawned')
        <5>1. Seq(1 .. spawned) \subseteq Seq(1 .. spawned')
          BY <4>1, SeqMonotonic
        <5> QED BY <5>1 DEF ScopeUpTo, HandleList
      <4>3. taskScopes[g] \in Seq(ScopeUpTo(spawned'))
        BY <1>4, <4>2, SeqMonotonic
      <4>4. taskScopes'[g] = scopes
        BY <1>1 DEF IInv, ScopesOK
      <4>5. scopes \in Seq(ScopeUpTo(spawned'))
        BY <4>4 DEF IInv, ScopesOK
      <4> QED BY <4>3, <4>5
    <3> QED BY <3>1
  <2>2. PICK S : taskScopes[g] \in Seq(S) /\ scopes \in Seq(S)
    BY <2>1
  <2> HIDE DEF scopes
  <2> QED BY <1>4, <1>5, <1>6, <1>7, <2>2, StackTopReplaced
<1> HIDE DEF caller, scopes, body
<1>9. ASSUME NEW k \in Goroutine
      PROVE  /\ frames'[k] = IF k = g THEN caller ELSE IF k = h THEN body ELSE frames[k]
             /\ taskScopes'[k] = IF k = g THEN scopes ELSE taskScopes[k]
             /\ taskLimits'[k] = taskLimits[k]
  BY <1>1, <1>2, <1>3 DEF IInv, FramesOK, ScopesOK, body
<1>10. ASSUME NEW k \in Goroutine PROVE Balanced(k)'
  <2>1. /\ Opened(frames'[k], Len(taskScopes'[k]))
        /\ Clean => Aligned(frames'[k], taskScopes'[k], taskLimits'[k])
    <3>1. CASE k = g
      BY <1>7, <1>8, <1>9, <3>1
    <3>2. CASE k = h
      <4>1. taskScopes[h] = <<>> /\ taskLimits[h] = <<>>
        BY <1>3 DEF BalanceInv
      <4>2. Opened(body, Len(<<>>)) /\ Aligned(body, <<>>, <<>>)
        BY FirstFrame DEF body
      <4> QED BY <1>3, <1>9, <3>2, <4>1, <4>2
    <3>3. CASE k # g /\ k # h
      <4>1. Opened(frames[k], Len(taskScopes[k])) /\ (Clean => Aligned(frames[k], taskScopes[k], taskLimits[k]))
        BY DEF BalanceInv, Balanced
      <4> QED BY <1>9, <3>3, <4>1
    <3> QED BY <3>1, <3>2, <3>3
  <2>2. Opened(frames[k], Len(taskScopes[k]))' /\ (Clean => Aligned(frames[k], taskScopes[k], taskLimits[k]))'
    BY <2>1 DEF Opened, Aligned, Clean, Even, Stacked, Level, Covered, FrameOpen, FrameEven,
       Paired, TaskDepth, LimitDepth
  <2> QED BY <2>2 DEF Balanced
<1>11. ASSUME NEW k \in Handle, k > spawned'
       PROVE  frames'[k] = <<>> /\ taskScopes'[k] = <<>> /\ taskLimits'[k] = <<>>
  <2>1. k \in Goroutine /\ k > spawned /\ k # h
    BY <1>1, <1>3, <1>11 DEF Handle, Goroutine, h
  <2>2. k # g
    BY <2>1, <1>11, <1>1 DEF IInv, TasksOK, Running
  <2> QED BY <1>9, <2>1, <2>2 DEF BalanceInv
<1> QED BY <1>10, <1>11 DEF BalanceInv

\* Everything else leaves the stacks alone.
LEMMA StacksKept ==
  ASSUME BalanceInv, UNCHANGED <<frames, taskScopes, taskLimits, spawned>>
  PROVE  BalanceInv'
<1>1. ASSUME NEW k \in Goroutine PROVE Balanced(k)'
  <2>1. /\ Opened(frames[k], Len(taskScopes[k]))
        /\ Clean => Aligned(frames[k], taskScopes[k], taskLimits[k])
    BY DEF BalanceInv, Balanced
  <2>2. /\ Opened(frames'[k], Len(taskScopes'[k]))
        /\ Clean => Aligned(frames'[k], taskScopes'[k], taskLimits'[k])
    BY <2>1
  <2>3. /\ Opened(frames[k], Len(taskScopes[k]))'
        /\ (Clean => Aligned(frames[k], taskScopes[k], taskLimits[k]))'
    BY <2>2 DEF Opened, Aligned, Clean, Even, Stacked, Level, Covered, FrameOpen, FrameEven,
       Paired, TaskDepth, LimitDepth
  <2> QED BY <2>3 DEF Balanced
<1> QED BY <1>1 DEF BalanceInv

LEMMA InitBalance == Init => BalanceInv
<1> SUFFICES ASSUME Init PROVE BalanceInv
  OBVIOUS
<1> DEFINE body == << NewFrame("body", "always", 0, 0, 0) >>
<1>1. /\ frames = [k \in Goroutine |-> IF k = 0 THEN body ELSE <<>>]
      /\ taskScopes = [k \in Goroutine |-> <<>>] /\ taskLimits = [k \in Goroutine |-> <<>>]
  BY DEF Init
<1>2. Opened(body, Len(<<>>)) /\ Aligned(body, <<>>, <<>>)
  BY FirstFrame
<1> HIDE DEF body
<1>3. Opened(<<>>, Len(<<>>)) /\ Aligned(<<>>, <<>>, <<>>)
  <2>1. Len(<<>>) = 0
    BY EmptySeq
  <2> QED BY <2>1 DEF Opened, Aligned, Even, Stacked, Level, Covered
<1>4. ASSUME NEW k \in Goroutine PROVE Balanced(k)
  BY <1>1, <1>2, <1>3 DEF Balanced
<1>5. \A k \in Handle : k \in Goroutine /\ k # 0
  BY DEF Handle, Goroutine
<1> QED BY <1>1, <1>4, <1>5 DEF BalanceInv

LEMMA NextBalance == IInv /\ IInv' /\ LinkInv /\ BalanceInv /\ [Next]_vars => BalanceInv'
<1> SUFFICES ASSUME IInv, IInv', LinkInv, BalanceInv, [Next]_vars PROVE BalanceInv'
  OBVIOUS
<1>1. ASSUME NEW g \in Goroutine, Instruction(g) PROVE BalanceInv'
  BY <1>1, PushScopeBalance, DeferBalance, CallBalance, QuietBalance, UnwindBalance,
     FrameReturnsBalance DEF Instruction
<1>2. ASSUME NEW g \in Goroutine, Progress(g) PROVE BalanceInv'
  BY <1>2, PushScopeBalance, StartTaskBalance, UnwindBalance, PopScopeBalance, JoiningBalance,
     JoinedBalance, RunDeferredBalance, ScopeLeftBalance, RecurScopeLeftBalance,
     UnwindScopeBalance, ScopeUnwoundBalance, FrameReturnsBalance DEF Progress
<1>3. ASSUME NEW h \in Handle, TaskEnds(h) PROVE BalanceInv'
  BY <1>3, StacksKept DEF TaskEnds, TaskCompletes, TaskReleases, stackVars
<1>4. CASE Exited \/ UNCHANGED vars
  BY <1>4, StacksKept DEF Exited, vars
<1> QED BY <1>1, <1>2, <1>3, <1>4 DEF Next

----------------------------------------------------------------------------
(* What follows *)

\* Whatever instructions a program executes, OpPushScope and OpPopScope keep
\* every frame's defer scopes, environments and task scopes in step, and, when
\* none of them ends in errorAt, the limiters too.
THEOREM ScopesInductive == Spec => [](IInv /\ LinkInv /\ BalanceInv)
<1>1. Init => BalanceInv
  BY InitBalance
<1>2. IInv /\ LinkInv /\ (IInv /\ LinkInv)' /\ BalanceInv /\ [Next]_vars => BalanceInv'
  BY NextBalance
<1>3. Spec => [](IInv /\ LinkInv)
  BY ListsAreLocal
<1> QED BY <1>1, <1>2, <1>3, PTL DEF Spec

\* What OpPopScope takes off, OpPushScope of the same frame has put on.
LEMMA PushedBefore == IInv /\ LinkInv /\ BalanceInv => NoUnderflow
<1> SUFFICES ASSUME IInv, LinkInv, BalanceInv, NEW g \in Goroutine, NEW i \in DOMAIN frames[g],
                    frames[g][i].st # "unwind", frames[g][i].goal # "unwind"
             PROVE  LET f == frames[g][i]
                        inHand == IF f.goal = "none" THEN 0 ELSE 1
                        joining == IF f.goal = "pop" THEN 1 ELSE 0
                        scopes == IF i = Len(frames[g]) THEN Len(taskScopes[g])
                                  ELSE frames[g][i + 1].taskBase
                    IN  /\ f.env >= f.open
                        /\ Len(f.defers) + inHand >= f.open
                        /\ scopes + joining >= f.taskBase + f.open
  BY DEF NoUnderflow
<1> DEFINE s == frames[g]
           f == s[i]
           n == Len(taskScopes[g])
           inHand == IF f.goal = "none" THEN 0 ELSE 1
           running == IF f.st = "defers" THEN 1 ELSE 0
<1>1. s \in FrameSeq /\ s \in Seq(GoodFrame(g)) /\ i \in 1 .. Len(s)
  <2>1. s \in FrameSeq /\ s \in Seq(GoodFrame(g))
    BY FramesTyped DEF LinkInv, StackGood
  <2> QED BY <2>1, LenProperties DEF FrameSeq
<1>2. FrameOpen(f, TaskDepth(s, n, i))
  BY <1>1 DEF BalanceInv, Balanced, Opened
<1>3. FrameSt(f)
  <2>1. f \in GoodFrame(g)
    <3> HIDE DEF s
    <3> QED BY <1>1, ElementOfSeq
  <2> QED BY <2>1 DEF GoodFrame
<1>4. Len(f.defers) \in Nat /\ f.open \in Int
  <2> HIDE DEF s
  <2> QED BY <1>1, BasesType
<1>5. f.st # "unwind" /\ f.goal # "unwind"
  OBVIOUS
<1> HIDE DEF f
<1>6. /\ f.env >= f.open
      /\ Len(f.defers) + running >= f.open
      /\ TaskDepth(s, n, i) + (IF f.goal = "pop" THEN 1 ELSE 0) >= f.taskBase + f.open
  BY <1>2, <1>5 DEF FrameOpen
<1>7. running <= inHand /\ running \in Nat /\ inHand \in Nat
  BY <1>3 DEF FrameSt
<1>8. Len(f.defers) + inHand >= f.open
  <2>1. Len(f.defers) + running >= f.open
    BY <1>6
  <2> HIDE DEF running, inHand
  <2> QED BY <1>4, <1>7, <2>1
<1> QED BY <1>6, <1>8 DEF TaskDepth, f

\* OpPopScope pops a defer scope, a task scope and an environment without
\* asking whether there is one.  Whatever a program does -- throws, faults,
\* early returns and recurs out of nested scopes, calls from deferred
\* functions -- it finds those that the same frame pushed, never a caller's.
THEOREM PopsArePushed == Spec => []NoUnderflow
BY ScopesInductive, PushedBefore, PTL

LEMMA SideBySide == IInv /\ LinkInv /\ BalanceInv /\ Clean => ScopesAligned
<1> SUFFICES ASSUME IInv, LinkInv, BalanceInv, Clean, NEW g \in Goroutine,
                    \A i \in DOMAIN frames[g] : frames[g][i].goal \in {"none", "recur"}
             PROVE  /\ Len(taskLimits[g]) = Len(taskScopes[g])
                    /\ \A i \in DOMAIN taskScopes[g] :
                         (taskLimits[g][i] # 0) = taskScopes[g][i].nursery
  BY DEF ScopesAligned
<1> DEFINE s == frames[g]
           scopes == taskScopes[g]
           limits == taskLimits[g]
           n == Len(scopes)
           m == Len(limits)
<1>1. /\ s \in FrameSeq /\ Len(s) \in Nat /\ n \in Nat /\ m \in Nat
      /\ scopes \in Seq(ScopeUpTo(spawned)) /\ DOMAIN s = 1 .. Len(s) /\ DOMAIN scopes = 1 .. n
  <2>1. s \in FrameSeq /\ n \in Nat /\ m \in Nat /\ scopes \in Seq(ScopeUpTo(spawned))
    BY FramesTyped
  <2> QED BY <2>1, LenProperties DEF FrameSeq
<1>2. Aligned(s, scopes, limits)
  BY DEF BalanceInv, Balanced
<1>3. \A i \in 1 .. Len(s) : s[i].goal \in {"none", "recur"}
  BY <1>1
<1> HIDE DEF s, scopes, limits
<1>4. \A i \in 1 .. Len(s) : s[i].limBase = s[i].taskBase
  BY <1>1, <1>2, <1>3 DEF Aligned, Level
<1>5. m = n
  <2>1. CASE s = <<>>
    BY <1>2, <2>1 DEF Aligned
  <2>2. CASE s # <<>>
    <3>1. Len(s) \in 1 .. Len(s)
      BY <1>1, <2>2, EmptySeq DEF FrameSeq
    <3>2. FrameEven(s[Len(s)], n, m)
      BY <1>2, <3>1 DEF Aligned, Even, TaskDepth, LimitDepth
    <3>3. m - s[Len(s)].limBase = n - s[Len(s)].taskBase
      BY <1>3, <3>1, <3>2 DEF FrameEven
    <3>4. s[Len(s)].taskBase \in Nat /\ s[Len(s)].limBase = s[Len(s)].taskBase
      BY <1>1, <1>4, <3>1, BasesType
    <3> QED BY <1>1, <3>3, <3>4
  <2> QED BY <2>1, <2>2
<1>6. ASSUME NEW j \in 1 .. n PROVE (limits[j] # 0) = scopes[j].nursery
  <2>1. PICK i \in 1 .. Len(s) : s[i].taskBase < j /\ j <= TaskDepth(s, n, i)
    BY <1>2 DEF Aligned, Covered
  <2>2. Paired(s[i], TaskDepth(s, n, i), scopes, limits)
    BY <1>2 DEF Aligned, Even
  <2>3. s[i].taskBase \in Nat /\ s[i].limBase = s[i].taskBase
    BY <1>1, <1>4, BasesType
  <2>4. TaskDepth(s, n, i) \in Nat
    <3>1. CASE i = Len(s)
      BY <1>1, <3>1 DEF TaskDepth
    <3>2. CASE i # Len(s)
      <4>0. Len(s) \in Nat
        BY <1>1
      <4>1. i + 1 \in 1 .. Len(s)
        BY <3>2, <4>0
      <4>2. s[i + 1].taskBase \in Nat
        BY <1>1, <4>1, BasesType
      <4> QED BY <3>2, <4>2 DEF TaskDepth
    <3> QED BY <3>1, <3>2
  <2> DEFINE k == j - s[i].taskBase
  <2>5. k \in 1 .. TaskDepth(s, n, i) - s[i].taskBase /\ s[i].taskBase + k = j
    BY <2>1, <2>3, <2>4
  <2> HIDE DEF k
  <2>6. limits[j] # 0 <=> scopes[j].nursery
    BY <2>2, <2>3, <2>5 DEF Paired
  <2>7. scopes[j].nursery \in BOOLEAN
    <3>1. scopes[j] \in ScopeUpTo(spawned)
      BY <1>1, ElementOfSeq
    <3> QED BY <3>1 DEF ScopeUpTo
  <2> QED BY <2>6, <2>7
<1> QED BY <1>1, <1>5, <1>6 DEF scopes, limits

\* taskScopes and taskLimits are two slices that OpPushScope, OpPopScope and
\* unwindDeferredScopes push and pop at different moments.  Between
\* instructions they have the same length, and the limiters are at the depths
\* of the nurseries, in every program without errorAt.
THEOREM LimitsAtTheirDepth ==
  ASSUME Clean
  PROVE  Spec => []ScopesAligned
<1>1. IInv /\ LinkInv /\ BalanceInv => ScopesAligned
  BY SideBySide
<1> QED BY <1>1, ScopesInductive, PTL

----------------------------------------------------------------------------
(* Calls *)

\* Replacing the top frame, or pushing one, removes none.
LEMMA TopStays ==
  ASSUME IInv, NEW k \in Goroutine, frames[k] # <<>>,
         \/ \E f : SetTop(k, f)
         \/ \E f : PushFrame(k, f)
         \/ \E f, callee : frames' = [frames EXCEPT ![k] = Append(Append(Front(@), f), callee)],
         NEW g \in Goroutine
  PROVE  ~FrameLeaves(g)
<1> DEFINE s == frames[k]
<1>1. /\ s \in FrameSeq /\ Len(s) \in Nat
      /\ Front(s) \in Seq(FrameRec(spawned)) /\ Len(Front(s)) = Len(s) - 1
  <2>1. s \in FrameSeq
    BY FramesTyped
  <2> QED BY <2>1, StackParts DEF FrameSeq
<1>2. \A f : Len(Append(Front(s), f)) = Len(s)
  BY <1>1
<1>3. \A f : Len(Append(s, f)) = Len(s) + 1
  BY <1>1 DEF FrameSeq
<1>4. \A f, callee : Len(Append(Append(Front(s), f), callee)) = Len(s) + 1
  BY <1>1
<1>5. PICK t : frames' = [frames EXCEPT ![k] = t] /\ (Len(t) = Len(s) \/ Len(t) = Len(s) + 1)
  <2>1. CASE \E f : SetTop(k, f)
    BY <1>2, <2>1 DEF SetTop
  <2>2. CASE \E f : PushFrame(k, f)
    BY <1>3, <2>2 DEF PushFrame
  <2>3. CASE \E f, callee : frames' = [frames EXCEPT ![k] = Append(Append(Front(@), f), callee)]
    BY <1>4, <2>3
  <2> QED BY <2>1, <2>2, <2>3
<1>6. frames'[g] = IF g = k THEN t ELSE frames[g]
  BY <1>5 DEF IInv, FramesOK
<1>7. Len(frames[g]) \in Nat
  BY FramesTyped
<1> HIDE DEF s
<1> QED BY <1>1, <1>5, <1>6, <1>7 DEF FrameLeaves, s

\* The steps that replace the top frame.
LEMMA InstructionsReplace ==
  ASSUME NEW k,
         \/ PushScope(k) \/ EnterFunction(k) \/ (\E mode \in Mode : Defer(k, mode)) \/ Spawn(k)
         \/ (\E h \in Handle : Await(k, h)) \/ Throw(k) \/ CallFails(k) \/ Return(k)
         \/ AwaitReturns(k) \/ AwaitTimesOut(k)
  PROVE  frames[k] # <<>> /\ \E f : SetTop(k, f)
<1>1. frames[k] # <<>>
  BY DEF PushScope, EnterFunction, Defer, Spawn, Await, Throw, CallFails, Return, AwaitReturns,
     AwaitTimesOut, Instr, Step, Running
<1> SUFFICES \E f : SetTop(k, f)
  BY <1>1
<1>2. CASE PushScope(k) \/ EnterFunction(k)
  BY <1>2 DEF PushScope, EnterFunction, EnterScope
<1>3. CASE \E mode \in Mode : Defer(k, mode)
  BY <1>3 DEF Defer
<1>4. CASE Spawn(k) \/ \E h \in Handle : Await(k, h)
  BY <1>4 DEF Spawn, Await
<1>5. CASE Throw(k) \/ CallFails(k) \/ Return(k)
  BY <1>5 DEF Throw, CallFails, Return, StartUnwind
<1>6. CASE AwaitReturns(k) \/ AwaitTimesOut(k)
  BY <1>6 DEF AwaitReturns, AwaitTimesOut
<1> QED BY <1>2, <1>3, <1>4, <1>5, <1>6

LEMMA ScopeStepsReplace ==
  ASSUME NEW k,
         \/ PopScope(k) \/ JoinHandle(k) \/ CancelSibling(k) \/ Joined(k) \/ ScopeLeft(k)
         \/ RecurScopeLeft(k) \/ UnwindScope(k) \/ ScopeUnwound(k)
  PROVE  frames[k] # <<>> /\ \E f : SetTop(k, f)
<1>1. frames[k] # <<>>
  BY DEF PopScope, JoinHandle, CancelSibling, Joined, ScopeLeft, RecurScopeLeft, UnwindScope,
     ScopeUnwound, Step, Running
<1> SUFFICES \E f : SetTop(k, f)
  BY <1>1
<1>2. \A f : Migrate(k, f) => \E e : SetTop(k, e)
  BY DEF Migrate
<1>3. \A f : RecurPop(k, f) => \E e : SetTop(k, e)
  BY <1>2 DEF RecurPop
<1>4. \A f, goal, cur : BeginJoin(k, f, goal, cur) => \E e : SetTop(k, e)
  BY DEF BeginJoin
<1>5. CASE PopScope(k)
  BY <1>3, <1>4, <1>5 DEF PopScope
<1>6. CASE JoinHandle(k) \/ CancelSibling(k) \/ Joined(k) \/ ScopeUnwound(k)
  BY <1>6 DEF JoinHandle, CancelSibling, Joined, ScopeUnwound
<1>7. CASE ScopeLeft(k)
  BY <1>7 DEF ScopeLeft
<1>8. CASE RecurScopeLeft(k)
  BY <1>2, <1>8 DEF RecurScopeLeft
<1>9. CASE UnwindScope(k)
  BY <1>4, <1>9 DEF UnwindScope
<1> QED BY <1>5, <1>6, <1>7, <1>8, <1>9

\* A new task takes no frame away.
LEMMA StartTaskStays ==
  ASSUME IInv, IInv', BalanceInv, NEW k \in Goroutine, StartTask(k), NEW g \in Goroutine
  PROVE  ~FrameLeaves(g)
<1> DEFINE h == spawned + 1
           top == [Last(frames[k]) EXCEPT !.st = "run"]
           t == Append(Front(frames[k]), top)
<1>1. spawned < MaxTask /\ Running(k)
  BY DEF StartTask, Step
<1>2. PICK body : frames' = [frames EXCEPT ![k] = t, ![h] = body]
  BY DEF StartTask
<1>3. spawned \in Nat /\ h \in Handle /\ h \in Goroutine /\ h > spawned
  BY <1>1, TopType, ExecutorAssumption DEF Handle, Goroutine
<1>4. Len(frames[h]) = 0
  BY <1>3, EmptySeq DEF BalanceInv
<1>5. Len(frames'[g]) \in Nat /\ Len(frames[g]) \in Nat
  <2>1. frames'[g] \in Seq(FrameUpTo(spawned')) /\ frames[g] \in Seq(FrameUpTo(spawned))
    BY DEF IInv, FramesOK
  <2> QED BY <2>1, LenProperties
<1> HIDE DEF h, top
<1>6. Len(t) = Len(frames[k])
  <2>1. frames[k] \in FrameSeq /\ frames[k] # <<>>
    BY <1>1, FramesTyped DEF Running
  <2>2. Front(frames[k]) \in Seq(FrameRec(spawned)) /\ Len(Front(frames[k])) = Len(frames[k]) - 1
        /\ Len(frames[k]) \in Nat
    BY <2>1, StackParts DEF FrameSeq
  <2> QED BY <2>2
<1> HIDE DEF t
<1>7. g # h => frames'[g] = IF g = k THEN t ELSE frames[g]
  BY <1>2 DEF IInv, FramesOK
<1> QED BY <1>4, <1>5, <1>6, <1>7 DEF FrameLeaves

LEMMA GivesBack ==
  ASSUME IInv, IInv', LinkInv, BalanceInv, Clean, [Next]_vars, NEW g \in Goroutine, FrameLeaves(g)
  PROVE  /\ Len(taskScopes[g]) = Top(g).taskBase
         /\ Len(taskLimits[g]) = Top(g).limBase
<1>0. Len(frames[g]) \in Nat
  BY FramesTyped
<1>1. ASSUME UNCHANGED frames PROVE FALSE
  BY <1>0, <1>1 DEF FrameLeaves
<1>2. ASSUME NEW k \in Goroutine, frames[k] # <<>>, \E f : SetTop(k, f) PROVE FALSE
  BY <1>2, TopStays
<1>3. ASSUME NEW k \in Goroutine, Call(k) PROVE FALSE
  <2>1. frames[k] # <<>> /\ \E f : PushFrame(k, f)
    BY <1>3 DEF Call, Instr, Step, Running
  <2> QED BY <2>1, TopStays
<1>4. ASSUME NEW k \in Goroutine, RunDeferred(k) PROVE FALSE
  <2>1. /\ frames[k] # <<>>
        /\ \/ \E f : SetTop(k, f)
           \/ \E f, callee : frames' = [frames EXCEPT ![k] = Append(Append(Front(@), f), callee)]
    BY <1>4 DEF RunDeferred, Step, Running
  <2> QED BY <2>1, TopStays
<1>5. ASSUME NEW k \in Goroutine, Fault(k) PROVE FALSE
  BY <1>5 DEF Fault, Instr, Clean
<1>6. ASSUME NEW k \in Goroutine, StartTask(k) PROVE FALSE
  BY <1>6, StartTaskStays
<1>7. PICK k \in Goroutine : FrameReturns(k)
  <2>1. ASSUME NEW k \in Goroutine, Instruction(k) PROVE FALSE
    BY <1>2, <1>3, <1>5, <2>1, InstructionsReplace DEF Instruction
  <2>2. ASSUME NEW k \in Goroutine, Progress(k), ~FrameReturns(k) PROVE FALSE
    BY <1>2, <1>4, <1>6, <2>2, InstructionsReplace, ScopeStepsReplace DEF Progress
  <2>3. ASSUME NEW h \in Handle, TaskEnds(h) PROVE FALSE
    BY <1>1, <2>3 DEF TaskEnds, TaskCompletes, TaskReleases
  <2>4. CASE Exited \/ UNCHANGED vars
    BY <1>1, <2>4 DEF Exited, vars
  <2> QED BY <2>1, <2>2, <2>3, <2>4 DEF Next
<1>8. Running(k) /\ Top(k).st = "unwind" /\ Unwound(k)
  BY <1>7 DEF FrameReturns, Step
<1>9. k = g
  <2>1. \E t : frames' = [frames EXCEPT ![k] = t]
    BY <1>7 DEF FrameReturns, Leave, SetTop
  <2>2. k # g => frames'[g] = frames[g]
    BY <2>1 DEF IInv, FramesOK
  <2> QED BY <1>0, <2>2 DEF FrameLeaves
<1> DEFINE f == Top(g)
           n == Len(taskScopes[g])
           m == Len(taskLimits[g])
<1>10. /\ FrameSt(f) /\ f.taskBase \in Nat /\ f.limBase \in Nat
       /\ n \in Nat /\ m \in Nat /\ FrameOpen(f, n) /\ FrameEven(f, n, m)
  BY <1>8, <1>9, TopCounts
<1>11. f.st = "unwind" /\ n <= f.taskBase
  BY <1>8, <1>9 DEF Unwound
<1> HIDE DEF f, n, m
<1>12. f.goal = "none" /\ f.taskBase <= n
  BY <1>10, <1>11 DEF FrameSt, FrameOpen
<1>13. m - f.limBase = n - f.taskBase
  BY <1>10, <1>12 DEF FrameEven
<1>14. n = f.taskBase /\ m = f.limBase
  BY <1>10, <1>11, <1>12, <1>13
<1> QED BY <1>11, <1>14 DEF f, n, m

\* invokeVMFunction lends the callee taskScopes and taskLimits and copies back
\* what the callee leaves of them.  In every program without errorAt the
\* callee leaves exactly what it was lent, whichever way it ends.
THEOREM CallsGiveBack ==
  ASSUME Clean
  PROVE  Spec => CallsAreBalanced
<1>1. IInv /\ LinkInv /\ BalanceInv /\ IInv' /\ [Next]_vars =>
        [\A g \in Goroutine : FrameLeaves(g) =>
           /\ Len(taskScopes[g]) = Top(g).taskBase
           /\ Len(taskLimits[g]) = Top(g).limBase]_vars
  BY GivesBack
<1> QED BY <1>1, ScopesInductive, PTL DEF Spec, CallsAreBalanced
=============================================================================
