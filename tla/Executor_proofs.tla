-------------------------- MODULE Executor_proofs --------------------------
(***************************************************************************)
(* Proofs about Executor for every number of tasks, every budget of        *)
(* instructions, every call depth and every set of instructions.           *)
(* The first part: the state keeps its types, the limiter channels         *)
(* conserve their tokens, and the handles implement TaskPromise.  All      *)
(* three rest on the inductive invariant IInv.                             *)
(* The second part is about the task handles: who keeps a handle, where    *)
(* cancellations come from, and that over spawns, joins, recur migrations, *)
(* carries and faults a handle is in at most one list, once.               *)
(* The third part is about waiting: joins and limiters alone never make a  *)
(* deadlock.                                                               *)
(***************************************************************************)
EXTENDS Executor, SequenceTheorems, FiniteSetTheorems, WellFoundedInduction, TLAPS

----------------------------------------------------------------------------
(* The inductive invariant *)

Proper == Result \ {"recur"}

\* Handles that exist after n spawns, and lists of them.
HandleList(n) == Seq(1 .. n)

FrameRec(n) ==
  [kind : {"body", "fn", "defer"}, mode : Mode, arg : ScopeArg,
   st : State, goal : Goal, cur : Result, open : Int,
   taskBase : Nat, limBase : Nat, defers : Seq(Seq(Mode)),
   todo : HandleList(n), timeout : Nat, doomed : HandleList(n), entries : Seq(Mode),
   carry : HandleList(n), env : Int, iter : Nat]

\* A frame after n spawns: an await has a handle to wait for, and only a
\* function is left by recur.
FrameUpTo(n) == {f \in FrameRec(n) : /\ f.st = "await" => f.todo # <<>>
                                     /\ f.kind # "fn" => f.cur # "recur"}

ScopeUpTo(n) == [nursery : BOOLEAN, hs : HandleList(n)]

LimiterRec == [cap : Nat, used : Nat]

FramesOK == frames \in [Goroutine -> Seq(FrameUpTo(spawned))]

ScopesOK == taskScopes \in [Goroutine -> Seq(ScopeUpTo(spawned))]

\* Tokens are taken from limiters that exist, by tasks that exist.
LimitersOK == /\ limiter \in Seq(LimiterRec)
              /\ taskLimits \in [Goroutine -> Seq(0 .. Len(limiter))]
              /\ holds \in [Goroutine -> 0 .. Len(limiter)]
              /\ \A h \in Handle : h > spawned => holds[h] = 0

TasksOK == /\ spawned \in 0 .. MaxTask
           /\ result \in [Handle -> Proper \cup {"open"}]
           /\ phase \in [Goroutine -> {"idle", "run", "complete", "release", "exit"}]
           /\ \A h \in Handle : h > spawned => phase[h] = "idle" /\ result[h] = "open"
           /\ out \in [Goroutine -> Proper]
           /\ spawner \in [Handle -> Goroutine]
           /\ owned \subseteq Handle
           /\ awaited \subseteq Handle
           /\ fuel \in 0 .. MaxSteps

IInv == FramesOK /\ ScopesOK /\ LimitersOK /\ LimiterAccounting /\ TasksOK

----------------------------------------------------------------------------
(* Sequences as stacks *)

\* The last element and the front of a stack that is not empty.
LEMMA StackTop ==
  ASSUME NEW S, NEW s \in Seq(S), s # <<>>
  PROVE  Last(s) \in S /\ Front(s) \in Seq(S)
<1>1. Len(s) \in Nat /\ Len(s) > 0
  BY EmptySeq, LenProperties
<1>2. Last(s) \in S
  BY <1>1, ElementOfSeq DEF Last
<1>3. \A i \in 1 .. Len(s) - 1 : s[i] \in S
  BY <1>1, ElementOfSeq
<1>4. Front(s) \in Seq(S)
  BY <1>1, <1>3, SubSeqProperties DEF Front
<1> QED BY <1>2, <1>4

\* The guarded pop and the guarded read of a stack.
LEMMA StackGuarded ==
  ASSUME NEW S, NEW s \in Seq(S), NEW d \in S
  PROVE  Popped(s) \in Seq(S) /\ TopOr(s, d) \in S
BY StackTop DEF Popped, TopOr

LEMMA HandleListGrows ==
  ASSUME NEW n \in Nat, NEW m \in Nat, n <= m
  PROVE  HandleList(n) \subseteq HandleList(m)
<1>1. 1 .. n \subseteq 1 .. m
  OBVIOUS
<1> QED BY <1>1, SeqMonotonic DEF HandleList

LEMMA FrameGrows ==
  ASSUME NEW n \in Nat, NEW m \in Nat, n <= m
  PROVE  FrameUpTo(n) \subseteq FrameUpTo(m) /\ ScopeUpTo(n) \subseteq ScopeUpTo(m)
<1>1. HandleList(n) \subseteq HandleList(m)
  BY HandleListGrows
<1>2. FrameRec(n) \subseteq FrameRec(m)
  BY <1>1 DEF FrameRec
<1> QED BY <1>1, <1>2 DEF FrameUpTo, ScopeUpTo

\* Replacing the top frame of a goroutine.
LEMMA SetTopType ==
  ASSUME NEW S, NEW g \in Goroutine, NEW f \in S,
         frames \in [Goroutine -> Seq(S)], frames[g] # <<>>, SetTop(g, f)
  PROVE  frames' \in [Goroutine -> Seq(S)]
<1>1. Front(frames[g]) \in Seq(S)
  BY StackTop
<1>2. Append(Front(frames[g]), f) \in Seq(S)
  BY <1>1
<1> QED BY <1>2 DEF SetTop

LEMMA NewFrameType ==
  ASSUME NEW n \in Nat, NEW kind \in {"body", "fn", "defer"}, NEW mode \in Mode,
         NEW arg \in ScopeArg, NEW td \in Nat, NEW ld \in Nat
  PROVE  NewFrame(kind, mode, arg, td, ld) \in FrameUpTo(n)
<1>1. <<>> \in HandleList(n) /\ <<>> \in Seq(Mode) /\ <<>> \in Seq(Seq(Mode))
  BY EmptySeq DEF HandleList
<1>2. NewFrame(kind, mode, arg, td, ld) \in FrameRec(n)
  BY <1>1 DEF NewFrame, FrameRec, State, Goal, Result
<1> QED BY <1>2 DEF NewFrame, FrameUpTo

----------------------------------------------------------------------------
(* Steps that start and settle no task and take no token *)

\* What a running goroutine's top frame and stacks are.
LEMMA TopType ==
  ASSUME IInv, NEW g \in Goroutine, Running(g)
  PROVE  /\ spawned \in Nat
         /\ frames[g] # <<>>
         /\ Top(g) \in FrameRec(spawned)
         /\ Top(g) \in FrameUpTo(spawned)
         /\ Front(frames[g]) \in Seq(FrameUpTo(spawned))
         /\ taskScopes[g] \in Seq(ScopeUpTo(spawned))
         /\ taskLimits[g] \in Seq(0 .. Len(limiter))
<1>1. spawned \in Nat /\ frames[g] \in Seq(FrameUpTo(spawned)) /\ frames[g] # <<>>
  BY ExecutorAssumption DEF IInv, TasksOK, FramesOK, Running
<1>2. Top(g) \in FrameUpTo(spawned) /\ Front(frames[g]) \in Seq(FrameUpTo(spawned))
  BY <1>1, StackTop DEF Top
<1> QED BY <1>1, <1>2 DEF FrameUpTo, IInv, ScopesOK, LimitersOK

LEMMA QuietStep ==
  ASSUME IInv,
         frames' \in [Goroutine -> Seq(FrameUpTo(spawned))],
         taskScopes' \in [Goroutine -> Seq(ScopeUpTo(spawned))],
         taskLimits' \in [Goroutine -> Seq(0 .. Len(limiter))],
         UNCHANGED <<limiter, taskVars>>,
         awaited' \subseteq Handle, fuel' \in 0 .. MaxSteps
  PROVE  IInv'
<1> USE DEF taskVars
<1>1. FramesOK' /\ ScopesOK'
  BY DEF FramesOK, ScopesOK
<1>2. LimitersOK' /\ LimiterAccounting'
  BY DEF IInv, LimitersOK, LimiterAccounting
<1>3. TasksOK'
  BY DEF IInv, TasksOK
<1> QED BY <1>1, <1>2, <1>3 DEF IInv

\* The case where only the top frame of g changes.
LEMMA FrameStep ==
  ASSUME IInv, NEW g \in Goroutine, Running(g),
         NEW f \in FrameUpTo(spawned), SetTop(g, f),
         UNCHANGED <<stackVars, limiter, taskVars>>,
         awaited' \subseteq Handle, fuel' \in 0 .. MaxSteps
  PROVE  IInv'
<1>1. frames' \in [Goroutine -> Seq(FrameUpTo(spawned))]
  BY TopType, SetTopType DEF IInv, FramesOK
<1>2. /\ taskScopes' \in [Goroutine -> Seq(ScopeUpTo(spawned))]
      /\ taskLimits' \in [Goroutine -> Seq(0 .. Len(limiter))]
  BY DEF IInv, ScopesOK, LimitersOK, stackVars
<1> QED BY <1>1, <1>2, QuietStep

\* An instruction uses up one unit of the budget.
LEMMA FuelType ==
  ASSUME IInv, NEW g, NEW op, Instr(g, op)
  PROVE  fuel' \in 0 .. MaxSteps /\ Running(g)
BY ExecutorAssumption DEF IInv, TasksOK, Instr, Step

LEMMA AwaitedKept ==
  ASSUME IInv
  PROVE  /\ awaited \subseteq Handle /\ fuel \in 0 .. MaxSteps
         /\ UNCHANGED awaited => awaited' \subseteq Handle
         /\ UNCHANGED fuel => fuel' \in 0 .. MaxSteps
BY DEF IInv, TasksOK

LEMMA DeferStep ==
  ASSUME IInv, NEW g \in Goroutine, NEW mode \in Mode, Defer(g, mode)
  PROVE  IInv'
<1> DEFINE f == Top(g)
           scopes == IF f.defers = <<>> THEN << <<>> >> ELSE f.defers
           new == [f EXCEPT !.defers = Append(Front(scopes), Append(Last(scopes), mode))]
<1>1. Running(g) /\ fuel' \in 0 .. MaxSteps
  BY FuelType DEF Defer
<1>2. f \in FrameRec(spawned) /\ f \in FrameUpTo(spawned)
  BY <1>1, TopType
<1>3. scopes \in Seq(Seq(Mode)) /\ scopes # <<>>
  BY <1>2, EmptySeq DEF FrameRec
<1>4. Front(scopes) \in Seq(Seq(Mode)) /\ Last(scopes) \in Seq(Mode)
  <2> HIDE DEF scopes
  <2> QED BY <1>3, StackTop
<1>5. Append(Front(scopes), Append(Last(scopes), mode)) \in Seq(Seq(Mode))
  <2> HIDE DEF scopes
  <2> QED BY <1>4
<1>6. new \in FrameRec(spawned)
  <2> HIDE DEF scopes
  <2> QED BY <1>2, <1>5 DEF FrameRec
<1>7. new \in FrameUpTo(spawned)
  BY <1>2, <1>6 DEF FrameUpTo, FrameRec
<1>8. SetTop(g, new) /\ UNCHANGED <<stackVars, limiter, taskVars, awaited>>
  BY DEF Defer
<1> HIDE DEF new
<1> QED BY <1>1, <1>7, <1>8, FrameStep, AwaitedKept

LEMMA CallStep ==
  ASSUME IInv, NEW g \in Goroutine, Call(g)
  PROVE  IInv'
<1>1. Running(g) /\ fuel' \in 0 .. MaxSteps
  BY FuelType DEF Call
<1>2. PICK arg \in ScopeArg : PushFrame(g, Callee(g, "fn", "always", arg))
  BY DEF Call, NurseryArg, ScopeArg
<1>3. Callee(g, "fn", "always", arg) \in FrameUpTo(spawned)
  BY <1>1, TopType, NewFrameType, LenProperties DEF Callee, Mode
<1>4. frames' \in [Goroutine -> Seq(FrameUpTo(spawned))]
  BY <1>2, <1>3 DEF IInv, FramesOK, PushFrame
<1>5. UNCHANGED <<stackVars, limiter, taskVars, awaited>>
  BY DEF Call
<1>6. /\ taskScopes' \in [Goroutine -> Seq(ScopeUpTo(spawned))]
      /\ taskLimits' \in [Goroutine -> Seq(0 .. Len(limiter))]
  BY <1>5 DEF IInv, ScopesOK, LimitersOK, stackVars
<1> QED BY <1>1, <1>4, <1>5, <1>6, QuietStep, AwaitedKept

LEMMA SpawnStep ==
  ASSUME IInv, NEW g \in Goroutine, Spawn(g)
  PROVE  IInv'
<1> DEFINE new == [Top(g) EXCEPT !.st = "spawn"]
<1>1. Running(g) /\ fuel' \in 0 .. MaxSteps
  BY FuelType DEF Spawn
<1>2. Top(g) \in FrameRec(spawned) /\ Top(g) \in FrameUpTo(spawned)
  BY <1>1, TopType
<1>3. new \in FrameUpTo(spawned)
  BY <1>2 DEF FrameUpTo, FrameRec, State
<1>4. SetTop(g, new) /\ UNCHANGED <<stackVars, limiter, taskVars, awaited>>
  BY DEF Spawn
<1> HIDE DEF new
<1> QED BY <1>1, <1>3, <1>4, FrameStep, AwaitedKept

LEMMA AwaitStep ==
  ASSUME IInv, NEW g \in Goroutine, NEW h \in Handle, Await(g, h)
  PROVE  IInv'
<1>0. PICK ms \in AwaitTimeout :
        SetTop(g, [Top(g) EXCEPT !.st = "await", !.todo = <<h>>, !.timeout = ms])
  BY DEF Await
<1> DEFINE new == [Top(g) EXCEPT !.st = "await", !.todo = <<h>>, !.timeout = ms]
<1>1. Running(g) /\ fuel' \in 0 .. MaxSteps
  BY FuelType DEF Await
<1>2. Top(g) \in FrameRec(spawned) /\ Top(g) \in FrameUpTo(spawned) /\ spawned \in Nat
  BY <1>1, TopType
<1>3. h \in 1 .. spawned
  BY <1>2 DEF Await, MayAwait, Handle
<1>4. <<h>> \in HandleList(spawned) /\ <<h>> # <<>>
  BY <1>3 DEF HandleList
<1>5. new \in FrameUpTo(spawned)
  <2>1. ms \in Nat
    BY <1>0 DEF AwaitTimeout
  <2> QED BY <1>2, <1>4, <2>1 DEF FrameUpTo, FrameRec, State
<1>6. SetTop(g, new) /\ UNCHANGED <<stackVars, limiter, taskVars, awaited>>
  BY <1>0 DEF Await
<1> HIDE DEF new
<1> QED BY <1>1, <1>5, <1>6, FrameStep, AwaitedKept
\* A recur signal starts to unwind functions only.
LEMMA UnwindStarts ==
  ASSUME IInv, NEW g \in Goroutine, Running(g), NEW cur \in Result,
         cur = "recur" => Top(g).kind = "fn",
         StartUnwind(g, cur), fuel' \in 0 .. MaxSteps
  PROVE  IInv'
<1> DEFINE new == [Top(g) EXCEPT !.st = "unwind", !.cur = cur]
<1>1. Top(g) \in FrameRec(spawned)
  BY TopType
<1>2. new \in FrameUpTo(spawned)
  BY <1>1 DEF FrameUpTo, FrameRec, State
<1>3. SetTop(g, new) /\ UNCHANGED <<stackVars, limiter, taskVars, awaited>>
  BY DEF StartUnwind
<1> HIDE DEF new
<1> QED BY <1>2, <1>3, FrameStep, AwaitedKept

LEMMA ThrowStep ==
  ASSUME IInv, NEW g \in Goroutine, Throw(g) \/ CallFails(g) \/ Return(g)
  PROVE  IInv'
<1> USE DEF Result
<1>1. CASE Throw(g)
  BY <1>1, FuelType, UnwindStarts DEF Throw
<1>2. CASE CallFails(g)
  BY <1>2, FuelType, UnwindStarts DEF CallFails
<1>3. CASE Return(g)
  <2>1. CASE Instr(g, "return") /\ StartUnwind(g, "val")
    BY <2>1, FuelType, UnwindStarts
  <2>2. CASE Step(g, "run") /\ StartUnwind(g, "val") /\ UNCHANGED fuel
    BY <2>2, AwaitedKept, UnwindStarts DEF Step
  <2>3. CASE Instr(g, "returnRecur") /\ Top(g).kind = "fn" /\ StartUnwind(g, "recur")
    BY <2>3, FuelType, UnwindStarts
  <2> QED BY <1>3, <2>1, <2>2, <2>3 DEF Return
<1> QED BY <1>1, <1>2, <1>3

LEMMA AwaitReturnsStep ==
  ASSUME IInv, NEW g \in Goroutine, AwaitReturns(g)
  PROVE  IInv'
<1> DEFINE f == Top(g)
           h == Head(f.todo)
           st == IF IsError(result[h]) THEN "unwind" ELSE "run"
           cur == IF IsError(result[h]) THEN result[h] ELSE "val"
           new == [f EXCEPT !.todo = <<>>, !.timeout = 0, !.st = st, !.cur = cur]
<1>1. Running(g) /\ f.st = "await"
  BY DEF AwaitReturns, Step
<1>2. f \in FrameRec(spawned) /\ f.todo # <<>> /\ spawned \in Nat
  BY <1>1, TopType DEF FrameUpTo
<1>3. h \in 1 .. spawned
  BY <1>2, HeadTailProperties DEF FrameRec, HandleList
<1>4. h \in Handle
  BY <1>2, <1>3, ExecutorAssumption DEF Handle, IInv, TasksOK
<1>5. <<>> \in HandleList(spawned)
  BY EmptySeq DEF HandleList
<1>6. new \in FrameUpTo(spawned)
  <2>1. st \in State \ {"await"} /\ cur \in Proper
    BY DEF State, Proper, Result, IsError
  <2> HIDE DEF st, cur
  <2> QED BY <1>2, <1>5, <2>1 DEF FrameUpTo, FrameRec, Proper
<1>7. SetTop(g, new) /\ UNCHANGED <<stackVars, limiter, taskVars, fuel>>
      /\ awaited' = awaited \cup {h}
  BY DEF AwaitReturns
<1> HIDE DEF new, h
<1> QED BY <1>1, <1>4, <1>6, <1>7, FrameStep, AwaitedKept

LEMMA AwaitTimesOutStep ==
  ASSUME IInv, NEW g \in Goroutine, AwaitTimesOut(g)
  PROVE  IInv'
<1> DEFINE new == [Top(g) EXCEPT !.todo = <<>>, !.timeout = 0, !.st = "unwind", !.cur = "err"]
<1>1. Running(g)
  BY DEF AwaitTimesOut, Step
<1>2. Top(g) \in FrameRec(spawned)
  BY <1>1, TopType
<1>3. <<>> \in HandleList(spawned)
  BY EmptySeq DEF HandleList
<1>4. new \in FrameUpTo(spawned)
  BY <1>2, <1>3 DEF FrameUpTo, FrameRec, State, Result
<1>5. SetTop(g, new) /\ UNCHANGED <<stackVars, limiter, taskVars, awaited, fuel>>
  BY DEF AwaitTimesOut
<1> HIDE DEF new
<1> QED BY <1>1, <1>4, <1>5, FrameStep, AwaitedKept

----------------------------------------------------------------------------
(* Leaving scopes *)

LEMMA ScopeTopType ==
  ASSUME IInv, NEW g \in Goroutine, Running(g)
  PROVE  /\ Popped(taskScopes[g]) \in Seq(ScopeUpTo(spawned))
         /\ TopOr(taskScopes[g], NoScope).hs \in HandleList(spawned)
<1>1. NoScope \in ScopeUpTo(spawned)
  BY EmptySeq DEF NoScope, ScopeUpTo, HandleList
<1>2. /\ Popped(taskScopes[g]) \in Seq(ScopeUpTo(spawned))
      /\ TopOr(taskScopes[g], NoScope) \in ScopeUpTo(spawned)
  BY <1>1, TopType, StackGuarded
<1> QED BY <1>2 DEF ScopeUpTo

LEMMA DefersType ==
  ASSUME NEW n \in Nat, NEW f \in FrameRec(n)
  PROVE  /\ Popped(f.defers) \in Seq(Seq(Mode))
         /\ TopOr(f.defers, <<>>) \in Seq(Mode)
<1>1. f.defers \in Seq(Seq(Mode)) /\ <<>> \in Seq(Mode)
  BY EmptySeq DEF FrameRec
<1> QED BY <1>1, StackGuarded

LEMMA LimitPoppedType ==
  ASSUME IInv, NEW g \in Goroutine, Running(g),
         taskLimits' = LimitPopped(g) \/ taskLimits' = LimitUnwound(g)
  PROVE  taskLimits' \in [Goroutine -> Seq(0 .. Len(limiter))]
<1>1. 0 \in 0 .. Len(limiter)
  BY LenProperties DEF IInv, LimitersOK
<1>2. Popped(taskLimits[g]) \in Seq(0 .. Len(limiter))
  BY <1>1, TopType, StackGuarded
<1> QED BY <1>2 DEF LimitPopped, LimitUnwound, IInv, LimitersOK

LEMMA AdoptAllType ==
  ASSUME NEW n \in Nat, NEW scopes \in Seq(ScopeUpTo(n)), NEW hs \in HandleList(n)
  PROVE  AdoptAll(scopes, hs) \in Seq(ScopeUpTo(n))
<1> DEFINE i == ownerIdx(scopes)
           new == [scopes[i] EXCEPT !.hs = @ \o hs]
<1>1. CASE i \notin 1 .. Len(scopes)
  <2>1. [scopes EXCEPT ![i] = new] = scopes
    <3> HIDE DEF i, new
    <3> QED BY <1>1, LenProperties
  <2> QED BY <2>1 DEF AdoptAll
<1>2. CASE i \in 1 .. Len(scopes)
  <2>1. scopes[i] \in ScopeUpTo(n)
    <3> HIDE DEF i
    <3> QED BY <1>2, ElementOfSeq
  <2>2. scopes[i].hs \o hs \in HandleList(n)
    <3> HIDE DEF i
    <3> QED BY <2>1, ConcatProperties DEF ScopeUpTo, HandleList
  <2>3. new \in ScopeUpTo(n)
    <3> HIDE DEF i
    <3> QED BY <2>1, <2>2 DEF ScopeUpTo
  <2>4. [scopes EXCEPT ![i] = new] \in Seq(ScopeUpTo(n))
    <3> HIDE DEF i, new
    <3> QED BY <1>2, <2>3, ExceptSeq
  <2> QED BY <2>4 DEF AdoptAll
<1> QED BY <1>1, <1>2
LEMMA BeginJoinStep ==
  ASSUME IInv, NEW g \in Goroutine, Running(g), NEW goal \in Goal, NEW cur \in Result,
         cur = "recur" => Top(g).kind = "fn",
         BeginJoin(g, Top(g), goal, cur),
         UNCHANGED <<limiter, taskVars, awaited>>, fuel' \in 0 .. MaxSteps
  PROVE  IInv'
<1> DEFINE hs == TopOr(taskScopes[g], NoScope).hs
           new == [Top(g) EXCEPT !.st = "join", !.goal = goal, !.cur = cur, !.todo = hs]
<1>1. Top(g) \in FrameRec(spawned) /\ frames[g] # <<>>
  BY TopType
<1>2. hs \in HandleList(spawned) /\ Popped(taskScopes[g]) \in Seq(ScopeUpTo(spawned))
  BY ScopeTopType
<1>3. SetTop(g, new) /\ taskScopes' = [taskScopes EXCEPT ![g] = Popped(@)]
      /\ UNCHANGED taskLimits
  BY DEF BeginJoin
<1>4. new \in FrameUpTo(spawned)
  <2> HIDE DEF hs
  <2> QED BY <1>1, <1>2 DEF FrameUpTo, FrameRec, State
<1>5. frames' \in [Goroutine -> Seq(FrameUpTo(spawned))]
  <2> HIDE DEF new
  <2> QED BY <1>1, <1>3, <1>4, SetTopType DEF IInv, FramesOK
<1>6. /\ taskScopes' \in [Goroutine -> Seq(ScopeUpTo(spawned))]
      /\ taskLimits' \in [Goroutine -> Seq(0 .. Len(limiter))]
  BY <1>2, <1>3 DEF IInv, ScopesOK, LimitersOK
<1> QED BY <1>5, <1>6, QuietStep, AwaitedKept

\* A recur moves handles between lists of the goroutine that has them.
LEMMA MigrateStep ==
  ASSUME IInv, NEW g \in Goroutine, Running(g), NEW f \in FrameRec(spawned),
         f.kind = "fn",
         Migrate(g, f),
         UNCHANGED <<limiter, taskVars, awaited>>, fuel' \in 0 .. MaxSteps
  PROVE  IInv'
<1> DEFINE rest == Popped(taskScopes[g])
           hs == TopOr(taskScopes[g], NoScope).hs
           st == IF f.open = 1 THEN "unwind" ELSE "tail"
           carry == Carried(f, rest, hs)
           open == f.open - 1
           env == f.env - 1
           new == [f EXCEPT !.st = st, !.goal = "none", !.open = open, !.env = env,
                            !.carry = carry]
<1>1. hs \in HandleList(spawned) /\ rest \in Seq(ScopeUpTo(spawned))
      /\ frames[g] # <<>> /\ spawned \in Nat
  BY ScopeTopType, TopType
<1>2. /\ SetTop(g, new)
      /\ taskScopes' = [taskScopes EXCEPT ![g] = AdoptAll(rest, hs)]
      /\ taskLimits' = LimitPopped(g)
  BY DEF Migrate
<1>3. carry \in HandleList(spawned)
  <2> HIDE DEF hs, rest
  <2> QED BY <1>1, ConcatProperties DEF Carried, HandleList, FrameRec
<1>4. new \in FrameUpTo(spawned)
  <2>1. st \in State \ {"await"}
    BY DEF State
  <2>2. open \in Int /\ env \in Int
    BY DEF FrameRec
  <2> HIDE DEF st, carry, open, env
  <2> QED BY <1>3, <2>1, <2>2 DEF FrameUpTo, FrameRec, Goal
<1>5. frames' \in [Goroutine -> Seq(FrameUpTo(spawned))]
  <2> HIDE DEF new
  <2> QED BY <1>1, <1>2, <1>4, SetTopType DEF IInv, FramesOK
<1>6. AdoptAll(rest, hs) \in Seq(ScopeUpTo(spawned))
  <2> HIDE DEF hs, rest
  <2> QED BY <1>1, AdoptAllType
<1>7. taskScopes' \in [Goroutine -> Seq(ScopeUpTo(spawned))]
  <2> HIDE DEF hs, rest
  <2> QED BY <1>2, <1>6 DEF IInv, ScopesOK
<1>8. taskLimits' \in [Goroutine -> Seq(0 .. Len(limiter))]
  BY <1>2, LimitPoppedType
<1> QED BY <1>5, <1>7, <1>8, QuietStep, AwaitedKept

LEMMA RecurPopStep ==
  ASSUME IInv, NEW g \in Goroutine, Running(g), Top(g).kind = "fn",
         RecurPop(g, Top(g)),
         UNCHANGED <<limiter, taskVars, awaited>>, fuel' \in 0 .. MaxSteps
  PROVE  IInv'
<1> DEFINE f == Top(g)
           popped == Popped(f.defers)
           entries == TopOr(f.defers, <<>>)
<1>1. f \in FrameRec(spawned) /\ spawned \in Nat
  BY TopType
<1>2. popped \in Seq(Seq(Mode)) /\ entries \in Seq(Mode)
  BY <1>1, DefersType
<1>3. CASE f.open = 1
  <2> DEFINE new == [f EXCEPT !.cur = "recur", !.defers = popped]
  <2>1. new \in FrameRec(spawned) /\ new.kind = "fn"
    <3> HIDE DEF popped
    <3> QED BY <1>1, <1>2 DEF FrameRec, Result
  <2>2. Migrate(g, new)
    BY <1>3 DEF RecurPop
  <2> HIDE DEF new
  <2> QED BY <2>1, <2>2, MigrateStep
<1>4. CASE f.open # 1
  <2> DEFINE new == [f EXCEPT !.st = "defers", !.goal = "recur", !.cur = "recur",
                              !.entries = entries, !.defers = popped]
  <2>1. new \in FrameUpTo(spawned)
    <3> HIDE DEF popped, entries
    <3> QED BY <1>1, <1>2 DEF FrameRec, FrameUpTo, State, Goal, Result
  <2>2. SetTop(g, new) /\ UNCHANGED stackVars
    BY <1>4 DEF RecurPop
  <2> HIDE DEF new
  <2> QED BY <2>1, <2>2, FrameStep, AwaitedKept
<1> QED BY <1>3, <1>4

LEMMA PopScopeStep ==
  ASSUME IInv, NEW g \in Goroutine, PopScope(g)
  PROVE  IInv'
<1>1. Running(g) /\ UNCHANGED <<limiter, taskVars, awaited>>
  BY DEF PopScope
<1>2. Top(g) \in FrameRec(spawned) /\ (Top(g).kind # "fn" => Top(g).cur # "recur")
  BY <1>1, TopType DEF FrameUpTo
<1>3. "pop" \in Goal /\ "val" \in Result /\ Top(g).cur \in Result
  BY <1>2 DEF Goal, Result, FrameRec
<1>4. CASE BeginJoin(g, Top(g), "pop", "val") /\ UNCHANGED fuel
  BY <1>1, <1>3, <1>4, BeginJoinStep, AwaitedKept
<1>5. CASE BeginJoin(g, Top(g), "pop", Top(g).cur) /\ UNCHANGED fuel
  BY <1>1, <1>2, <1>3, <1>5, BeginJoinStep, AwaitedKept
<1>6. CASE Top(g).cur = "recur" /\ RecurPop(g, Top(g)) /\ UNCHANGED fuel
  BY <1>1, <1>2, <1>6, RecurPopStep, AwaitedKept
<1>7. CASE Top(g).kind = "fn" /\ Instr(g, "recur") /\ RecurPop(g, Top(g))
  BY <1>1, <1>7, RecurPopStep, FuelType
<1> QED BY <1>4, <1>5, <1>6, <1>7 DEF PopScope
LEMMA JoinHandleStep ==
  ASSUME IInv, NEW g \in Goroutine, JoinHandle(g)
  PROVE  IInv'
<1> DEFINE f == Top(g)
           r == result[Head(f.todo)]
           rest == Tail(f.todo)
           new == JoinedOne(f, r)
<1>1. Running(g) /\ f.todo # <<>>
  BY DEF JoinHandle, Done, Step
<1>2. f \in FrameRec(spawned) /\ f \in FrameUpTo(spawned) /\ f.st = "join"
  BY <1>1, TopType DEF JoinHandle, Done, Step
<1>3. rest \in HandleList(spawned)
  BY <1>1, <1>2, HeadTailProperties DEF FrameRec, HandleList
<1>4. new \in FrameUpTo(spawned)
  <2> HIDE DEF r
  <2>1. CASE IsError(r) /\ ~IsError(f.cur)
    <3>1. r \in Proper
      BY <2>1 DEF IsError, Proper, Result
    <3>2. new = [f EXCEPT !.todo = rest, !.doomed = rest, !.st = "cancel", !.cur = r]
      BY <2>1 DEF JoinedOne
    <3> HIDE DEF rest, new
    <3> QED BY <1>2, <1>3, <3>1, <3>2 DEF FrameUpTo, FrameRec, State, Proper
  <2>2. CASE ~(IsError(r) /\ ~IsError(f.cur))
    <3>1. new = [f EXCEPT !.todo = rest]
      BY <2>2 DEF JoinedOne
    <3> HIDE DEF rest, new
    <3> QED BY <1>2, <1>3, <3>1 DEF FrameUpTo, FrameRec
  <2> QED BY <2>1, <2>2
<1>5. SetTop(g, new) /\ UNCHANGED <<stackVars, limiter, taskVars, awaited, fuel>>
  BY DEF JoinHandle
<1> HIDE DEF new
<1> QED BY <1>1, <1>4, <1>5, FrameStep, AwaitedKept

LEMMA JoinedStep ==
  ASSUME IInv, NEW g \in Goroutine, Joined(g)
  PROVE  IInv'
<1> DEFINE f == Top(g)
           popped == Popped(f.defers)
           entries == TopOr(f.defers, <<>>)
           new == [f EXCEPT !.st = "defers", !.entries = entries, !.defers = popped]
<1>1. Running(g)
  BY DEF Joined, Step
<1>2. f \in FrameRec(spawned) /\ f \in FrameUpTo(spawned) /\ spawned \in Nat
  BY <1>1, TopType
<1>3. popped \in Seq(Seq(Mode)) /\ entries \in Seq(Mode)
  BY <1>2, DefersType
<1>4. new \in FrameUpTo(spawned)
  <2> HIDE DEF popped, entries
  <2> QED BY <1>2, <1>3 DEF FrameUpTo, FrameRec, State
<1>5. SetTop(g, new) /\ UNCHANGED <<stackVars, limiter, taskVars, awaited, fuel>>
  BY DEF Joined
<1> HIDE DEF new
<1> QED BY <1>1, <1>4, <1>5, FrameStep, AwaitedKept

LEMMA RunDeferredStep ==
  ASSUME IInv, NEW g \in Goroutine, RunDeferred(g)
  PROVE  IInv'
<1> DEFINE f == Top(g)
           mode == Last(f.entries)
           front == Front(f.entries)
           rest == [f EXCEPT !.entries = front]
           callee == Callee(g, "defer", mode, 0)
<1>1. Running(g) /\ f.entries # <<>>
      /\ UNCHANGED <<stackVars, limiter, taskVars, awaited, fuel>>
  BY DEF RunDeferred, Step
<1>2. f \in FrameRec(spawned) /\ f \in FrameUpTo(spawned) /\ spawned \in Nat
  BY <1>1, TopType
<1>3. mode \in Mode /\ front \in Seq(Mode)
  BY <1>1, <1>2, StackTop DEF FrameRec
<1>4. rest \in FrameUpTo(spawned)
  <2> HIDE DEF front
  <2> QED BY <1>2, <1>3 DEF FrameUpTo, FrameRec
<1>5. CASE SetTop(g, rest)
  <2> HIDE DEF rest
  <2> QED BY <1>1, <1>4, <1>5, FrameStep, AwaitedKept
<1>6. CASE frames' = [frames EXCEPT ![g] = Append(Append(Front(@), rest), callee)]
  <2> HIDE DEF rest, callee, mode
  <2>1. callee \in FrameUpTo(spawned)
    BY <1>1, <1>3, TopType, NewFrameType, LenProperties DEF callee, Callee, ScopeArg
  <2>2. Append(Append(Front(frames[g]), rest), callee) \in Seq(FrameUpTo(spawned))
    BY <1>1, <1>4, <2>1, TopType
  <2>3. frames' \in [Goroutine -> Seq(FrameUpTo(spawned))]
    BY <1>6, <2>2 DEF IInv, FramesOK
  <2>4. /\ taskScopes' \in [Goroutine -> Seq(ScopeUpTo(spawned))]
        /\ taskLimits' \in [Goroutine -> Seq(0 .. Len(limiter))]
    BY <1>1 DEF IInv, ScopesOK, LimitersOK, stackVars
  <2> QED BY <1>1, <2>3, <2>4, QuietStep, AwaitedKept
<1> QED BY <1>5, <1>6 DEF RunDeferred

LEMMA ScopeLeftStep ==
  ASSUME IInv, NEW g \in Goroutine, ScopeLeft(g)
  PROVE  IInv'
<1> DEFINE f == Top(g)
           open == f.open - 1
           env == f.env - 1
           less == [f EXCEPT !.open = open, !.env = env]
<1>1. Running(g) /\ taskLimits' = LimitPopped(g)
      /\ UNCHANGED <<taskScopes, limiter, taskVars, awaited, fuel>>
  BY DEF ScopeLeft, Step
<1>2. f \in FrameRec(spawned) /\ f \in FrameUpTo(spawned) /\ frames[g] # <<>>
  BY <1>1, TopType
<1>3. PICK next \in AfterPop(less, f.cur) : SetTop(g, next)
  BY DEF ScopeLeft
<1>4. less \in FrameRec(spawned) /\ less.kind = f.kind
  <2>1. open \in Int /\ env \in Int
    BY <1>2 DEF FrameRec
  <2> HIDE DEF open, env
  <2> QED BY <1>2, <2>1 DEF FrameRec
<1>5. next \in FrameUpTo(spawned)
  <2> HIDE DEF less
  <2> DEFINE st == IF less.open = 0 THEN "unwind" ELSE "tail"
  <2>1. \/ next = [less EXCEPT !.goal = "none", !.cur = f.cur, !.st = st]
        \/ next = [less EXCEPT !.goal = "none", !.cur = "val", !.st = "run"]
    BY DEF AfterPop
  <2>2. st \in State \ {"await"} /\ f.cur \in Result /\ (f.kind # "fn" => f.cur # "recur")
    BY <1>2 DEF State, FrameRec, FrameUpTo
  <2> HIDE DEF st, f
  <2>3. CASE next = [less EXCEPT !.goal = "none", !.cur = f.cur, !.st = st]
    BY <1>4, <2>2, <2>3 DEF FrameUpTo, FrameRec, Goal
  <2>4. CASE next = [less EXCEPT !.goal = "none", !.cur = "val", !.st = "run"]
    BY <1>4, <2>4 DEF FrameUpTo, FrameRec, State, Goal, Result
  <2> QED BY <2>1, <2>3, <2>4
<1>6. frames' \in [Goroutine -> Seq(FrameUpTo(spawned))]
  BY <1>2, <1>3, <1>5, SetTopType DEF IInv, FramesOK
<1>7. /\ taskScopes' \in [Goroutine -> Seq(ScopeUpTo(spawned))]
      /\ taskLimits' \in [Goroutine -> Seq(0 .. Len(limiter))]
  BY <1>1, LimitPoppedType DEF IInv, ScopesOK
<1> QED BY <1>1, <1>6, <1>7, QuietStep, AwaitedKept
LEMMA RecurScopeLeftStep ==
  ASSUME IInv, NEW g \in Goroutine, RecurScopeLeft(g)
  PROVE  IInv'
<1> DEFINE f == Top(g)
<1>1. Running(g) /\ UNCHANGED <<limiter, taskVars, awaited, fuel>>
  BY DEF RecurScopeLeft, Step
<1>2. f \in FrameRec(spawned) /\ f \in FrameUpTo(spawned)
  BY <1>1, TopType
<1>3. CASE f.cur = "recur"
  <2>1. f.kind = "fn"
    BY <1>2, <1>3 DEF FrameUpTo
  <2>2. Migrate(g, f)
    BY <1>3 DEF RecurScopeLeft
  <2> QED BY <1>1, <1>2, <2>1, <2>2, MigrateStep, AwaitedKept
<1>4. CASE f.cur # "recur"
  <2> DEFINE open == f.open - 1
             new == [f EXCEPT !.st = "tail", !.goal = "none", !.open = open]
  <2>1. SetTop(g, new) /\ UNCHANGED stackVars
    BY <1>4 DEF RecurScopeLeft
  <2>2. open \in Int
    BY <1>2 DEF FrameRec
  <2>3. new \in FrameUpTo(spawned)
    <3> HIDE DEF open
    <3> QED BY <1>2, <2>2 DEF FrameUpTo, FrameRec, State, Goal
  <2> HIDE DEF new
  <2> QED BY <1>1, <2>1, <2>3, FrameStep, AwaitedKept
<1> QED BY <1>3, <1>4

LEMMA UnwindScopeStep ==
  ASSUME IInv, NEW g \in Goroutine, UnwindScope(g)
  PROVE  IInv'
<1> DEFINE f == Top(g)
<1>1. Running(g) /\ UNCHANGED <<limiter, taskVars, awaited, fuel>>
  BY DEF UnwindScope, Step
<1>2. f \in FrameRec(spawned) /\ f \in FrameUpTo(spawned)
  BY <1>1, TopType
<1>3. CASE BeginJoin(g, f, "unwind", f.cur)
  <2>1. "unwind" \in Goal /\ f.cur \in Result /\ (f.cur = "recur" => f.kind = "fn")
    BY <1>2 DEF Goal, FrameRec, FrameUpTo
  <2> QED BY <1>1, <1>3, <2>1, BeginJoinStep, AwaitedKept
<1>4. CASE SetTop(g, [f EXCEPT !.st = "join", !.goal = "unwind"]) /\ UNCHANGED stackVars
  <2> DEFINE new == [f EXCEPT !.st = "join", !.goal = "unwind"]
  <2>1. new \in FrameUpTo(spawned)
    BY <1>2 DEF FrameUpTo, FrameRec, State, Goal
  <2>2. SetTop(g, new)
    BY <1>4
  <2> HIDE DEF new
  <2> QED BY <1>1, <1>4, <2>1, <2>2, FrameStep, AwaitedKept
<1> QED BY <1>3, <1>4 DEF UnwindScope

LEMMA ScopeUnwoundStep ==
  ASSUME IInv, NEW g \in Goroutine, ScopeUnwound(g)
  PROVE  IInv'
<1> DEFINE f == Top(g)
           new == [f EXCEPT !.st = "unwind", !.goal = "none"]
<1>1. Running(g) /\ taskLimits' = LimitUnwound(g) /\ SetTop(g, new)
      /\ UNCHANGED <<taskScopes, limiter, taskVars, awaited, fuel>>
  BY DEF ScopeUnwound, Step
<1>2. f \in FrameRec(spawned) /\ f \in FrameUpTo(spawned) /\ frames[g] # <<>>
  BY <1>1, TopType
<1>3. new \in FrameUpTo(spawned)
  BY <1>2 DEF FrameUpTo, FrameRec, State, Goal
<1>4. frames' \in [Goroutine -> Seq(FrameUpTo(spawned))]
  <2> HIDE DEF new
  <2> QED BY <1>1, <1>2, <1>3, SetTopType DEF IInv, FramesOK
<1>5. /\ taskScopes' \in [Goroutine -> Seq(ScopeUpTo(spawned))]
      /\ taskLimits' \in [Goroutine -> Seq(0 .. Len(limiter))]
  BY <1>1, LimitPoppedType DEF IInv, ScopesOK
<1> QED BY <1>1, <1>4, <1>5, QuietStep, AwaitedKept

----------------------------------------------------------------------------
(* Entering scopes: a nursery makes a limiter nobody holds a token of *)

LEMMA ScopeLimitType ==
  ASSUME IInv, NEW g \in Goroutine, Running(g), NEW arg \in ScopeArg,
         NEW envLimit \in {0, RootLimit}
  PROVE  resolveScopeLimit(g, arg, envLimit) \in Nat
<1> DEFINE inherited == TopOr(taskLimits[g], 0)
<1>1. arg > 0 => arg \in Nat
  BY ExecutorAssumption DEF ScopeArg
<1>2. inherited \in 0 .. Len(limiter)
  <2>1. 0 \in 0 .. Len(limiter) /\ taskLimits[g] \in Seq(0 .. Len(limiter))
    BY TopType, LenProperties DEF IInv, LimitersOK
  <2> QED BY <2>1, StackGuarded
<1>3. inherited # 0 => limiter[inherited] \in LimiterRec
  <2> HIDE DEF inherited
  <2> QED BY <1>2, LenProperties, ElementOfSeq DEF IInv, LimitersOK
<1>4. inherited # 0 => limiter[inherited].cap \in Nat
  BY <1>3 DEF LimiterRec
<1> QED BY <1>1, <1>4, ExecutorAssumption DEF resolveScopeLimit

LEMMA NewLimiter ==
  ASSUME IInv, NEW cap \in Nat,
         limiter' = Append(limiter, [cap |-> cap, used |-> 0]), UNCHANGED holds
  PROVE  LimiterAccounting'
<1> DEFINE n == Len(limiter)
           new == [cap |-> cap, used |-> 0]
<1>1. limiter \in Seq(LimiterRec) /\ n \in Nat /\ new \in LimiterRec
  BY LenProperties DEF IInv, LimitersOK, LimiterRec
<1>2. /\ DOMAIN limiter' = 1 .. n + 1
      /\ limiter'[n + 1] = new
      /\ \A l \in 1 .. n : limiter'[l] = limiter[l]
  BY <1>1
<1>3. {h \in Goroutine : holds'[h] = n + 1} = {}
  BY <1>1 DEF IInv, LimitersOK
<1>4. Cardinality({h \in Goroutine : holds'[h] = n + 1}) = 0
  BY <1>3, FS_EmptySet
<1>5. \A l \in 1 .. n : /\ limiter[l].used = Cardinality({h \in Goroutine : holds[h] = l})
                        /\ limiter[l].used <= limiter[l].cap
  BY <1>1, LenProperties DEF IInv, LimiterAccounting
<1> SUFFICES ASSUME NEW l \in DOMAIN limiter'
             PROVE  /\ limiter'[l].used = Cardinality({h \in Goroutine : holds'[h] = l})
                    /\ limiter'[l].used <= limiter'[l].cap
  BY DEF LimiterAccounting
<1>6. CASE l = n + 1
  BY <1>2, <1>4, <1>6
<1>7. CASE l \in 1 .. n
  BY <1>2, <1>5, <1>7
<1> QED BY <1>1, <1>2, <1>6, <1>7

LEMMA EnterScopeStep ==
  ASSUME IInv, NEW g \in Goroutine, Running(g), Top(g).st # "await",
         NEW arg \in ScopeArg, EnterScope(g, Top(g), arg), fuel' \in 0 .. MaxSteps
  PROVE  IInv'
<1> DEFINE f == Top(g)
           open == f.open + 1
           env == f.env + 1
           defers == Append(f.defers, <<>>)
           carry == IF arg = 0 THEN f.carry ELSE <<>>
           new == [f EXCEPT !.st = "run", !.open = open, !.env = env, !.defers = defers,
                            !.carry = carry]
           hs == IF arg = 0 THEN <<>> ELSE f.carry
           scope == [nursery |-> arg # 0, hs |-> hs]
<1>1. f \in FrameRec(spawned) /\ f \in FrameUpTo(spawned) /\ frames[g] # <<>>
  BY TopType
<1>2. SetTop(g, new) /\ taskScopes' = [taskScopes EXCEPT ![g] = Append(@, scope)]
      /\ UNCHANGED <<taskVars, awaited>>
  BY DEF EnterScope, Entered
<1>3. new \in FrameUpTo(spawned)
  <2>1. open \in Int /\ env \in Int /\ defers \in Seq(Seq(Mode)) /\ carry \in HandleList(spawned)
    <3>1. f.open \in Int /\ f.env \in Int /\ f.defers \in Seq(Seq(Mode))
          /\ f.carry \in HandleList(spawned)
      BY <1>1 DEF FrameRec
    <3>2. <<>> \in Seq(Mode) /\ <<>> \in HandleList(spawned)
      BY EmptySeq DEF HandleList
    <3> HIDE DEF f
    <3> QED BY <3>1, <3>2
  <2> HIDE DEF open, env, defers, carry
  <2> QED BY <1>1, <2>1 DEF FrameUpTo, FrameRec, State
<1>4. frames' \in [Goroutine -> Seq(FrameUpTo(spawned))]
  <2> HIDE DEF new
  <2> QED BY <1>1, <1>2, <1>3, SetTopType DEF IInv, FramesOK
<1>5. taskScopes' \in [Goroutine -> Seq(ScopeUpTo(spawned))]
  <2>1. hs \in HandleList(spawned)
    BY <1>1, EmptySeq DEF FrameRec, HandleList
  <2>2. scope \in ScopeUpTo(spawned)
    <3> HIDE DEF hs
    <3> QED BY <2>1 DEF ScopeUpTo
  <2> HIDE DEF scope
  <2> QED BY <1>2, <2>2 DEF IInv, ScopesOK
<1>6. limiter \in Seq(LimiterRec) /\ Len(limiter) \in Nat
      /\ taskLimits \in [Goroutine -> Seq(0 .. Len(limiter))]
  BY LenProperties DEF IInv, LimitersOK
<1>7. CASE arg = 0
  <2>1. taskLimits' = [taskLimits EXCEPT ![g] = Append(@, 0)] /\ UNCHANGED limiter
    BY <1>7 DEF EnterScope
  <2>2. taskLimits' \in [Goroutine -> Seq(0 .. Len(limiter))]
    BY <1>6, <2>1
  <2> QED BY <1>2, <1>4, <1>5, <2>1, <2>2, QuietStep, AwaitedKept
<1>8. CASE arg # 0
  <2>1. taskLimits' = [taskLimits EXCEPT ![g] = Append(@, Len(limiter) + 1)]
    BY <1>8 DEF EnterScope
  <2>2. PICK envLimit \in {0, RootLimit} :
          limiter' = Append(limiter, [cap |-> resolveScopeLimit(g, arg, envLimit),
                                      used |-> 0])
    BY <1>8 DEF EnterScope
  <2> DEFINE cap == resolveScopeLimit(g, arg, envLimit)
  <2>3. cap \in Nat
    BY ScopeLimitType
  <2> HIDE DEF cap
  <2>4. limiter' \in Seq(LimiterRec) /\ Len(limiter') = Len(limiter) + 1
    BY <1>6, <2>2, <2>3 DEF LimiterRec, cap
  <2>5. \A k \in Goroutine : taskLimits[k] \in Seq(0 .. Len(limiter'))
    BY <1>6, <2>4, SeqMonotonic
  <2>6. taskLimits' \in [Goroutine -> Seq(0 .. Len(limiter'))]
    BY <1>6, <2>1, <2>4, <2>5
  <2>7. LimitersOK'
    BY <1>2, <1>6, <2>4, <2>6 DEF IInv, LimitersOK, taskVars
  <2>8. LimiterAccounting'
    BY <1>2, <2>2, <2>3, NewLimiter DEF taskVars, cap
  <2>9. FramesOK' /\ ScopesOK' /\ TasksOK'
    BY <1>2, <1>4, <1>5 DEF FramesOK, ScopesOK, TasksOK, IInv, taskVars
  <2> QED BY <2>7, <2>8, <2>9 DEF IInv
<1> QED BY <1>7, <1>8

LEMMA PushScopeStep ==
  ASSUME IInv, NEW g \in Goroutine, PushScope(g) \/ EnterFunction(g)
  PROVE  IInv'
<1>1. CASE EnterFunction(g)
  <2>1. Running(g) /\ Top(g).st = "enter" /\ UNCHANGED fuel /\ EnterScope(g, Top(g), Top(g).arg)
    BY <1>1 DEF EnterFunction, Step
  <2>2. Top(g).arg \in ScopeArg
    BY <2>1, TopType DEF FrameRec
  <2> QED BY <2>1, <2>2, EnterScopeStep, AwaitedKept
<1>2. CASE PushScope(g)
  <2>1. ASSUME NEW op, NEW arg \in ScopeArg, Instr(g, op), EnterScope(g, Top(g), arg)
        PROVE  IInv'
    <3>1. Running(g) /\ Top(g).st = "run" /\ fuel' \in 0 .. MaxSteps
      BY <2>1, FuelType DEF Instr, Step
    <3> QED BY <2>1, <3>1, EnterScopeStep
  <2>2. 0 \in ScopeArg /\ NurseryArg \subseteq ScopeArg
    BY DEF NurseryArg, ScopeArg
  <2> QED BY <1>2, <2>1, <2>2 DEF PushScope
<1> QED BY <1>1, <1>2
----------------------------------------------------------------------------
(* Tasks start, settle and end *)

LEMMA GoroutinesFinite == IsFiniteSet(Goroutine)
<1>1. 0 \in Int /\ MaxTask \in Int
  BY ExecutorAssumption
<1>2. IsFiniteSet(0 .. MaxTask)
  BY <1>1, FS_Interval
<1> QED BY <1>2 DEF Goroutine

\* A task that starts takes one token, or none when no limiter applies.
LEMMA TokenTaken ==
  ASSUME IInv, NEW l \in 1 .. Len(limiter), NEW h \in Handle, holds[h] = 0,
         limiter[l].used < limiter[l].cap,
         limiter' = [limiter EXCEPT ![l].used = @ + 1],
         holds' = [holds EXCEPT ![h] = l]
  PROVE  LimiterAccounting'
<1> DEFINE Holders(k) == {j \in Goroutine : holds[j] = k}
           Holders2(k) == {j \in Goroutine : holds'[j] = k}
<1>1. limiter \in Seq(LimiterRec) /\ DOMAIN limiter = 1 .. Len(limiter) /\ Len(limiter) \in Nat
      /\ holds \in [Goroutine -> 0 .. Len(limiter)] /\ h \in Goroutine
  BY LenProperties, ExecutorAssumption DEF IInv, LimitersOK, Handle, Goroutine
<1>2. \A k \in 1 .. Len(limiter) : limiter[k] \in LimiterRec
  BY <1>1, ElementOfSeq
<1>3. \A k \in 1 .. Len(limiter) :
        limiter[k].used = Cardinality(Holders(k)) /\ limiter[k].used <= limiter[k].cap
  BY <1>1 DEF IInv, LimiterAccounting
<1>4. \A k \in 1 .. Len(limiter) : IsFiniteSet(Holders(k))
  BY GoroutinesFinite, FS_Subset
<1>5. Holders2(l) = Holders(l) \cup {h} /\ h \notin Holders(l)
  BY <1>1
<1>6. Cardinality(Holders2(l)) = Cardinality(Holders(l)) + 1
  <2> HIDE DEF Holders, Holders2
  <2> QED BY <1>4, <1>5, FS_AddElement
<1>7. \A k \in 1 .. Len(limiter) : k # l => Holders2(k) = Holders(k)
  BY <1>1
<1>8. DOMAIN limiter' = 1 .. Len(limiter)
      /\ limiter'[l] = [limiter[l] EXCEPT !.used = @ + 1]
      /\ \A k \in 1 .. Len(limiter) : k # l => limiter'[k] = limiter[k]
  BY <1>1
<1>9. limiter'[l].used = limiter[l].used + 1 /\ limiter'[l].cap = limiter[l].cap
      /\ limiter[l].used \in Nat /\ limiter[l].cap \in Nat
  BY <1>2, <1>8 DEF LimiterRec
<1> SUFFICES ASSUME NEW k \in 1 .. Len(limiter)
             PROVE  /\ limiter'[k].used = Cardinality(Holders2(k))
                    /\ limiter'[k].used <= limiter'[k].cap
  BY <1>8 DEF LimiterAccounting
<1> HIDE DEF Holders, Holders2
<1>10. CASE k = l
  BY <1>3, <1>6, <1>9, <1>10
<1>11. CASE k # l
  BY <1>3, <1>7, <1>8, <1>11
<1> QED BY <1>10, <1>11

\* A task that ends gives its token back.
LEMMA TokenGiven ==
  ASSUME IInv, NEW h \in Handle, holds[h] # 0,
         limiter' = [limiter EXCEPT ![holds[h]].used = @ - 1],
         holds' = [holds EXCEPT ![h] = 0]
  PROVE  LimiterAccounting' /\ limiter' \in Seq(LimiterRec) /\ Len(limiter') = Len(limiter)
<1> DEFINE Holders(k) == {j \in Goroutine : holds[j] = k}
           Holders2(k) == {j \in Goroutine : holds'[j] = k}
           l == holds[h]
<1>1. limiter \in Seq(LimiterRec) /\ DOMAIN limiter = 1 .. Len(limiter) /\ Len(limiter) \in Nat
      /\ holds \in [Goroutine -> 0 .. Len(limiter)] /\ h \in Goroutine
      /\ l \in 1 .. Len(limiter)
  BY LenProperties, ExecutorAssumption DEF IInv, LimitersOK, Handle, Goroutine
<1>2. \A k \in 1 .. Len(limiter) : limiter[k] \in LimiterRec
  BY <1>1, ElementOfSeq
<1>3. \A k \in 1 .. Len(limiter) :
        limiter[k].used = Cardinality(Holders(k)) /\ limiter[k].used <= limiter[k].cap
  BY <1>1 DEF IInv, LimiterAccounting
<1>4. \A k \in 1 .. Len(limiter) : IsFiniteSet(Holders(k))
  BY GoroutinesFinite, FS_Subset
<1>5. Holders2(l) = Holders(l) \ {h} /\ h \in Holders(l)
  BY <1>1
<1>6. Cardinality(Holders2(l)) = Cardinality(Holders(l)) - 1
  <2> HIDE DEF Holders, Holders2, l
  <2> QED BY <1>1, <1>4, <1>5, FS_RemoveElement
<1>7. \A k \in 1 .. Len(limiter) : k # l => Holders2(k) = Holders(k)
  BY <1>1
<1> HIDE DEF l
<1>8. DOMAIN limiter' = 1 .. Len(limiter)
      /\ limiter'[l] = [limiter[l] EXCEPT !.used = @ - 1]
      /\ \A k \in 1 .. Len(limiter) : k # l => limiter'[k] = limiter[k]
  BY <1>1 DEF l
<1>9. limiter'[l].used = limiter[l].used - 1 /\ limiter'[l].cap = limiter[l].cap
      /\ limiter[l].used \in Nat /\ limiter[l].cap \in Nat
  BY <1>1, <1>2, <1>8 DEF LimiterRec
<1>10. limiter[l].used > 0
  <2>1. Cardinality(Holders2(l)) \in Nat
    <3>1. IsFiniteSet(Holders2(l))
      BY <1>1, <1>4, <1>5, FS_Subset
    <3> QED BY <3>1, FS_CardinalityType
  <2> HIDE DEF Holders, Holders2
  <2> QED BY <1>1, <1>3, <1>6, <1>9, <2>1
<1>11. limiter' \in Seq(LimiterRec) /\ Len(limiter') = Len(limiter)
  <2> DEFINE new == [limiter[l] EXCEPT !.used = @ - 1]
  <2>1. new \in LimiterRec
    BY <1>1, <1>2, <1>9, <1>10 DEF LimiterRec
  <2>2. limiter' = [limiter EXCEPT ![l] = new]
    BY DEF l
  <2> HIDE DEF new
  <2>3. /\ [limiter EXCEPT ![l] = new] \in Seq(LimiterRec)
        /\ Len([limiter EXCEPT ![l] = new]) = Len(limiter)
    BY <1>1, <2>1, ExceptSeq
  <2> QED BY <2>2, <2>3
<1>12. ASSUME NEW k \in 1 .. Len(limiter)
       PROVE  /\ limiter'[k].used = Cardinality(Holders2(k))
              /\ limiter'[k].used <= limiter'[k].cap
  <2> HIDE DEF Holders, Holders2
  <2>1. CASE k = l
    BY <1>1, <1>3, <1>6, <1>9, <2>1
  <2>2. CASE k # l
    BY <1>3, <1>7, <1>8, <2>2
  <2> QED BY <2>1, <2>2
<1>13. LimiterAccounting'
  BY <1>8, <1>12 DEF LimiterAccounting
<1> QED BY <1>11, <1>13

LEMMA TaskReleasesStep ==
  ASSUME IInv, NEW h \in Handle, TaskReleases(h)
  PROVE  IInv'
<1>1. /\ phase[h] = "release" /\ phase' = [phase EXCEPT ![h] = "exit"]
      /\ holds' = [holds EXCEPT ![h] = 0] /\ limiter' = TokenReturned(h)
      /\ UNCHANGED <<frames, taskScopes, taskLimits, spawned, result, out, spawner, owned,
                     awaited, fuel>>
  BY DEF TaskReleases, stackVars
<1>2. FramesOK' /\ ScopesOK'
  BY <1>1 DEF IInv, FramesOK, ScopesOK
<1>3. TasksOK'
  BY <1>1, ExecutorAssumption DEF IInv, TasksOK, Handle, Goroutine
<1>4. h \in Goroutine /\ holds \in [Goroutine -> 0 .. Len(limiter)] /\ Len(limiter) \in Nat
  BY LenProperties DEF IInv, LimitersOK, Handle, Goroutine
<1>5. LimiterAccounting' /\ limiter' \in Seq(LimiterRec) /\ Len(limiter') = Len(limiter)
  <2>1. CASE holds[h] = 0
    <3>1. UNCHANGED <<limiter, holds>>
      BY <1>1, <1>4, <2>1 DEF TokenReturned
    <3> QED BY <3>1 DEF IInv, LimitersOK, LimiterAccounting
  <2>2. CASE holds[h] # 0
    BY <1>1, <2>2, TokenGiven DEF TokenReturned
  <2> QED BY <2>1, <2>2
<1>6. LimitersOK'
  BY <1>1, <1>4, <1>5 DEF IInv, LimitersOK
<1> QED BY <1>2, <1>3, <1>5, <1>6 DEF IInv

\* VMTaskHandle.Complete with a value a handle may have.
LEMMA CompleteType ==
  ASSUME IInv, NEW h \in Handle, h <= spawned, NEW r \in Proper, Complete(h, r)
  PROVE  /\ result' \in [Handle -> Proper \cup {"open"}]
         /\ \A k \in Handle : k > spawned => result'[k] = "open"
BY ExecutorAssumption DEF Complete, IInv, TasksOK, Handle

LEMMA TaskCompletesStep ==
  ASSUME IInv, NEW h \in Handle, TaskCompletes(h)
  PROVE  IInv' /\ h <= spawned /\ out[h] \in Proper
<1>1. /\ phase[h] = "complete" /\ phase' = [phase EXCEPT ![h] = "release"]
      /\ Complete(h, out[h])
      /\ UNCHANGED <<frames, taskScopes, taskLimits, limiter, spawned, out, holds, spawner,
                     owned, awaited, fuel>>
  BY DEF TaskCompletes, stackVars
<1>2. h <= spawned /\ out[h] \in Proper
  BY <1>1, ExecutorAssumption DEF IInv, TasksOK, Handle, Goroutine
<1>3. FramesOK' /\ ScopesOK' /\ LimitersOK' /\ LimiterAccounting'
  BY <1>1 DEF IInv, FramesOK, ScopesOK, LimitersOK, LimiterAccounting
<1>4. TasksOK'
  BY <1>1, <1>2, CompleteType, ExecutorAssumption DEF IInv, TasksOK, Handle, Goroutine
<1> QED BY <1>2, <1>3, <1>4 DEF IInv
LEMMA CancelSiblingStep ==
  ASSUME IInv, NEW g \in Goroutine, CancelSibling(g)
  PROVE  /\ IInv'
         /\ \/ UNCHANGED result
            \/ \E h \in Handle : h <= spawned /\ Complete(h, "cancel")
<1> DEFINE f == Top(g)
<1>1. Running(g) /\ UNCHANGED <<stackVars, limiter, spawned, phase, out, holds, spawner,
                                owned, awaited, fuel>>
  BY DEF CancelSibling, Step
<1>2. f \in FrameRec(spawned) /\ f \in FrameUpTo(spawned) /\ spawned \in Nat /\ frames[g] # <<>>
  BY <1>1, TopType
<1>3. CASE f.doomed = <<>>
  <2> DEFINE new == [f EXCEPT !.st = "join"]
  <2>1. SetTop(g, new) /\ UNCHANGED result
    BY <1>3 DEF CancelSibling
  <2>2. new \in FrameUpTo(spawned)
    BY <1>2 DEF FrameUpTo, FrameRec, State
  <2>3. UNCHANGED <<stackVars, limiter, taskVars, awaited, fuel>>
    BY <1>1, <2>1 DEF taskVars
  <2> HIDE DEF new
  <2> QED BY <1>1, <2>1, <2>2, <2>3, FrameStep, AwaitedKept
<1>4. CASE f.doomed # <<>>
  <2> DEFINE h == Head(f.doomed)
             rest == Tail(f.doomed)
             new == [f EXCEPT !.doomed = rest]
  <2>1. SetTop(g, new) /\ Complete(h, "cancel")
    BY <1>4 DEF CancelSibling
  <2>2. h \in 1 .. spawned /\ rest \in HandleList(spawned)
    BY <1>2, <1>4, HeadTailProperties DEF FrameRec, HandleList
  <2>3. h \in Handle /\ h <= spawned
    BY <1>2, <2>2, ExecutorAssumption DEF Handle, IInv, TasksOK
  <2>4. new \in FrameUpTo(spawned)
    <3> HIDE DEF rest
    <3> QED BY <1>2, <2>2 DEF FrameUpTo, FrameRec
  <2>5. frames' \in [Goroutine -> Seq(FrameUpTo(spawned))]
    <3> HIDE DEF new
    <3> QED BY <1>2, <2>1, <2>4, SetTopType DEF IInv, FramesOK
  <2>6. FramesOK' /\ ScopesOK' /\ LimitersOK' /\ LimiterAccounting'
    BY <1>1, <2>5 DEF IInv, FramesOK, ScopesOK, LimitersOK, LimiterAccounting, stackVars
  <2> HIDE DEF h
  <2>7. "cancel" \in Proper
    BY DEF Proper, Result
  <2>8. TasksOK'
    BY <1>1, <2>1, <2>3, <2>7, CompleteType DEF IInv, TasksOK
  <2> QED BY <2>1, <2>3, <2>6, <2>8 DEF IInv
<1> QED BY <1>3, <1>4

\* A frame ends and its caller, or the end of its goroutine, gets the result.
LEMMA LeaveStep ==
  ASSUME IInv, NEW g \in Goroutine, Running(g), NEW r \in Proper, Leave(g, r),
         UNCHANGED <<stackVars, limiter, spawned, result, holds, spawner, owned, awaited>>,
         fuel' \in 0 .. MaxSteps
  PROVE  IInv'
<1> DEFINE rest == Front(frames[g])
           f == Top(g)
<1>1. f \in FrameRec(spawned) /\ rest \in Seq(FrameUpTo(spawned)) /\ spawned \in Nat
  BY TopType
<1>2. CASE rest = <<>>
  <2>1. /\ frames' = [frames EXCEPT ![g] = <<>>]
        /\ phase' = [phase EXCEPT ![g] = IF g = 0 THEN "exit" ELSE "complete"]
        /\ out' = [out EXCEPT ![g] = r]
    BY <1>2 DEF Leave
  <2>2. <<>> \in Seq(FrameUpTo(spawned))
    BY EmptySeq
  <2>3. FramesOK'
    BY <2>1, <2>2 DEF IInv, FramesOK
  <2>4. ScopesOK' /\ LimitersOK' /\ LimiterAccounting'
    BY DEF IInv, ScopesOK, LimitersOK, LimiterAccounting, stackVars
  <2>5. TasksOK'
    BY <2>1, ExecutorAssumption DEF IInv, TasksOK, Running, Goroutine, Handle
  <2> QED BY <2>3, <2>4, <2>5 DEF IInv
<1>3. CASE rest # <<>>
  <2> DEFINE c == Last(rest)
             below == Front(rest)
             new == Returned(c, f, r)
  <2>1. /\ frames' = [frames EXCEPT ![g] = Append(below, new)]
        /\ UNCHANGED <<phase, out>>
    BY <1>3 DEF Leave
  <2>2. c \in FrameUpTo(spawned) /\ below \in Seq(FrameUpTo(spawned))
    <3> HIDE DEF rest
    <3> QED BY <1>1, <1>3, StackTop
  <2>3. new \in FrameUpTo(spawned)
    <3> HIDE DEF c, f
    <3> DEFINE cur == DeferOutcome(c.cur, f.mode, r)
    <3>1. cur \in Result /\ (cur = "recur" => c.cur = "recur") /\ r \in Result /\ r # "recur"
      BY <2>2 DEF DeferOutcome, Proper, FrameUpTo, FrameRec
    <3>2. CASE new = [c EXCEPT !.cur = cur]
      <4> HIDE DEF cur, new
      <4> QED BY <2>2, <3>1, <3>2 DEF FrameUpTo, FrameRec
    <3>3. CASE new = [c EXCEPT !.st = "unwind", !.cur = r]
      <4> HIDE DEF new
      <4> QED BY <2>2, <3>1, <3>3 DEF FrameUpTo, FrameRec, State
    <3>4. CASE new = c
      BY <2>2, <3>4
    <3> QED BY <3>2, <3>3, <3>4 DEF Returned
  <2>4. frames' \in [Goroutine -> Seq(FrameUpTo(spawned))]
    <3> HIDE DEF below, new
    <3> QED BY <2>1, <2>2, <2>3 DEF IInv, FramesOK
  <2>5. /\ taskScopes' \in [Goroutine -> Seq(ScopeUpTo(spawned))]
        /\ taskLimits' \in [Goroutine -> Seq(0 .. Len(limiter))]
    BY DEF IInv, ScopesOK, LimitersOK, stackVars
  <2>6. UNCHANGED <<limiter, taskVars>>
    BY <2>1 DEF taskVars
  <2> QED BY <2>4, <2>5, <2>6, QuietStep, AwaitedKept
<1> QED BY <1>2, <1>3

LEMMA FrameReturnsStep ==
  ASSUME IInv, NEW g \in Goroutine, FrameReturns(g) \/ Fault(g)
  PROVE  IInv'
<1> DEFINE f == Top(g)
<1>1. CASE FrameReturns(g)
  <2>1. Running(g) /\ UNCHANGED <<stackVars, limiter, spawned, result, holds, spawner, owned,
                                  awaited, fuel>>
    BY <1>1 DEF FrameReturns, Step
  <2>2. f \in FrameRec(spawned) /\ f \in FrameUpTo(spawned)
    BY <2>1, TopType
  <2>3. CASE f.kind = "fn" /\ f.cur = "recur"
    <3> DEFINE iter == f.iter + 1
               open == 0
               new == [f EXCEPT !.st = "enter", !.cur = "val", !.open = open, !.iter = iter]
    <3>1. SetTop(g, new) /\ UNCHANGED <<phase, out>>
      BY <1>1, <2>3 DEF FrameReturns
    <3>2. iter \in Nat /\ open \in Int
      BY <2>2 DEF FrameRec
    <3>3. new \in FrameUpTo(spawned)
      <4> HIDE DEF iter, open, f
      <4>1. new \in FrameRec(spawned)
        BY <2>2, <3>2 DEF FrameRec, State, Result
      <4>2. new.st = "enter" /\ new.cur = "val"
        BY <2>2 DEF FrameRec
      <4> QED BY <4>1, <4>2 DEF FrameUpTo
    <3>4. UNCHANGED <<stackVars, limiter, taskVars>>
      BY <2>1, <3>1 DEF taskVars
    <3> HIDE DEF new
    <3> QED BY <2>1, <3>1, <3>3, <3>4, FrameStep, AwaitedKept
  <2>4. CASE ~(f.kind = "fn" /\ f.cur = "recur")
    <3>1. PICK r \in Results(f) : Leave(g, r)
      BY <1>1, <2>4 DEF FrameReturns
    <3>2. r \in Proper
      BY <2>2, <2>4 DEF Results, Proper, Result, FrameRec, FrameUpTo
    <3> QED BY <2>1, <3>1, <3>2, LeaveStep, AwaitedKept
  <2> QED BY <2>3, <2>4
<1>2. CASE Fault(g)
  <2>1. /\ Leave(g, "fault")
        /\ UNCHANGED <<stackVars, limiter, spawned, result, holds, spawner, owned, awaited>>
    BY <1>2 DEF Fault
  <2>2. Running(g) /\ fuel' \in 0 .. MaxSteps
    BY <1>2, FuelType, AwaitedKept DEF Fault, Step
  <2>3. "fault" \in Proper
    BY DEF Proper, Result
  <2> QED BY <2>1, <2>2, <2>3, LeaveStep
<1> QED BY <1>1, <1>2
LEMMA StartTaskStep ==
  ASSUME IInv, NEW g \in Goroutine, StartTask(g)
  PROVE  IInv' /\ spawned' = spawned + 1 /\ UNCHANGED result
<1> DEFINE h == spawned + 1
           l == spawnLimiter(g)
           old == Last(frames[g])
           caller == Append(Front(frames[g]), [old EXCEPT !.st = "run"])
<1>1. /\ Running(g) /\ spawned < MaxTask
      /\ l # 0 => limiter[l].used < limiter[l].cap
      /\ limiter' = IF l = 0 THEN limiter ELSE [limiter EXCEPT ![l].used = @ + 1]
      /\ taskScopes' = [taskScopes EXCEPT ![g] = AdoptAll(@, <<h>>)]
      /\ spawned' = h
      /\ phase' = [phase EXCEPT ![h] = "run"]
      /\ holds' = [holds EXCEPT ![h] = l]
      /\ spawner' = [spawner EXCEPT ![h] = g]
      /\ owned' = IF ownerIdx(taskScopes[g]) = 0 THEN owned ELSE owned \cup {h}
      /\ UNCHANGED <<taskLimits, result, out, awaited, fuel>>
  BY DEF StartTask, Step
<1>2. PICK kind \in {"body", "fn"} :
        frames' = [frames EXCEPT ![g] = caller, ![h] = << NewFrame(kind, "always", 0, 0, 0) >>]
  <2>1. PICK kind \in {"body"} \cup (IF "spawnBlock" \in Ops THEN {"fn"} ELSE {}) :
          frames' = [frames EXCEPT
             ![g] = Append(Front(@), [Last(@) EXCEPT !.st = "run"]),
             ![h] = << NewFrame(kind, "always", 0, 0, 0) >>]
    BY DEF StartTask
  <2> QED BY <2>1
<1>3. spawned \in Nat /\ h \in Handle /\ h \in Goroutine /\ h \in Nat /\ MaxTask \in Nat
  BY <1>1, TopType, ExecutorAssumption DEF Handle, Goroutine
<1>4. FrameUpTo(spawned) \subseteq FrameUpTo(h) /\ ScopeUpTo(spawned) \subseteq ScopeUpTo(h)
  BY <1>3, FrameGrows
<1>5. FramesOK'
  <2>1. [old EXCEPT !.st = "run"] \in FrameUpTo(spawned)
    <3>1. old \in FrameRec(spawned) /\ old \in FrameUpTo(spawned)
      BY <1>1, TopType DEF Top
    <3> HIDE DEF old
    <3> QED BY <3>1 DEF FrameUpTo, FrameRec, State
  <2>2. caller \in Seq(FrameUpTo(spawned))
    <3> HIDE DEF old
    <3> QED BY <1>1, <2>1, TopType
  <2>3. NewFrame(kind, "always", 0, 0, 0) \in FrameUpTo(h)
    BY <1>2, <1>3, NewFrameType DEF Mode, ScopeArg
  <2> DEFINE new == << NewFrame(kind, "always", 0, 0, 0) >>
  <2>4. new \in Seq(FrameUpTo(h))
    BY <2>3
  <2> HIDE DEF new, caller, h
  <2>5. \A s \in Seq(FrameUpTo(spawned)) : s \in Seq(FrameUpTo(h))
    BY <1>4, SeqMonotonic
  <2>6. frames \in [Goroutine -> Seq(FrameUpTo(h))] /\ caller \in Seq(FrameUpTo(h))
    BY <2>2, <2>5 DEF IInv, FramesOK
  <2>7. frames' \in [Goroutine -> Seq(FrameUpTo(h))]
    BY <1>2, <1>3, <2>4, <2>6 DEF new
  <2> QED BY <1>1, <2>7 DEF FramesOK
<1>6. ScopesOK'
  <2> HIDE DEF h
  <2>1. \A s \in Seq(ScopeUpTo(spawned)) : s \in Seq(ScopeUpTo(h))
    BY <1>4, SeqMonotonic
  <2>2. taskScopes \in [Goroutine -> Seq(ScopeUpTo(h))]
    BY <2>1 DEF IInv, ScopesOK
  <2>3. <<h>> \in HandleList(h)
    BY <1>3 DEF HandleList, h
  <2>4. AdoptAll(taskScopes[g], <<h>>) \in Seq(ScopeUpTo(h))
    BY <1>3, <2>2, <2>3, AdoptAllType
  <2> QED BY <1>1, <2>2, <2>4 DEF ScopesOK
<1>7. l \in 0 .. Len(limiter) /\ Len(limiter) \in Nat /\ holds[h] = 0
  <2>1. 0 \in 0 .. Len(limiter) /\ taskLimits[g] \in Seq(0 .. Len(limiter))
        /\ Len(limiter) \in Nat
    BY <1>1, TopType, LenProperties DEF IInv, LimitersOK
  <2>2. holds[h] = 0
    BY <1>3 DEF IInv, LimitersOK
  <2> QED BY <2>1, <2>2, StackGuarded DEF spawnLimiter
<1>8. /\ LimiterAccounting' /\ limiter' \in Seq(LimiterRec) /\ Len(limiter') = Len(limiter)
  <2> HIDE DEF h, l
  <2>1. CASE l = 0
    <3>1. UNCHANGED <<limiter, holds>>
      BY <1>1, <1>3, <1>7, <2>1 DEF IInv, LimitersOK
    <3> QED BY <3>1 DEF IInv, LimitersOK, LimiterAccounting
  <2>2. CASE l # 0
    <3>1. l \in 1 .. Len(limiter) /\ limiter' = [limiter EXCEPT ![l].used = @ + 1]
          /\ limiter[l].used < limiter[l].cap
      BY <1>1, <1>7, <2>2
    <3>2. LimiterAccounting'
      BY <1>1, <1>3, <1>7, <3>1, TokenTaken
    <3> DEFINE new == [limiter[l] EXCEPT !.used = @ + 1]
    <3>3. limiter \in Seq(LimiterRec)
      BY DEF IInv, LimitersOK
    <3>4. limiter[l] \in LimiterRec
      BY <3>1, <3>3, ElementOfSeq
    <3>5. new \in LimiterRec
      BY <3>4 DEF LimiterRec
    <3>6. limiter' = [limiter EXCEPT ![l] = new]
      BY <3>1
    <3> HIDE DEF new
    <3>7. /\ [limiter EXCEPT ![l] = new] \in Seq(LimiterRec)
          /\ Len([limiter EXCEPT ![l] = new]) = Len(limiter)
      BY <3>1, <3>3, <3>5, ExceptSeq
    <3> QED BY <3>2, <3>6, <3>7
  <2> QED BY <2>1, <2>2
<1>9. LimitersOK'
  <2> HIDE DEF l
  <2> QED BY <1>1, <1>3, <1>7, <1>8 DEF IInv, LimitersOK, Handle
<1>10. TasksOK'
  BY <1>1, <1>3 DEF IInv, TasksOK, Handle
<1> QED BY <1>1, <1>5, <1>6, <1>8, <1>9, <1>10 DEF IInv

----------------------------------------------------------------------------
(* The theorems *)

LEMMA InitIInv == Init => IInv
<1> SUFFICES ASSUME Init PROVE IInv
  OBVIOUS
<1>1. FramesOK
  <2>1. NewFrame("body", "always", 0, 0, 0) \in FrameUpTo(0)
    BY NewFrameType DEF Mode, ScopeArg
  <2> DEFINE new == << NewFrame("body", "always", 0, 0, 0) >>
  <2>2. new \in Seq(FrameUpTo(0)) /\ <<>> \in Seq(FrameUpTo(0))
    BY <2>1, EmptySeq
  <2>3. frames = [k \in Goroutine |-> IF k = 0 THEN new ELSE <<>>] /\ spawned = 0
    BY DEF Init
  <2> HIDE DEF new
  <2> QED BY <2>2, <2>3 DEF FramesOK
<1>2. ScopesOK
  BY EmptySeq DEF Init, ScopesOK
<1>3. LimitersOK /\ LimiterAccounting
  <2>1. limiter = <<>> /\ Len(limiter) = 0 /\ DOMAIN limiter = {}
    BY EmptySeq DEF Init
  <2>2. LimiterAccounting
    BY <2>1 DEF LimiterAccounting
  <2>3. LimitersOK
    BY <2>1, EmptySeq, ExecutorAssumption DEF Init, LimitersOK, Handle, Goroutine
  <2> QED BY <2>2, <2>3
<1>4. TasksOK
  BY ExecutorAssumption DEF Init, TasksOK, Handle, Goroutine, Proper, Result
<1> QED BY <1>1, <1>2, <1>3, <1>4 DEF IInv

LEMMA StutterIInv == IInv /\ UNCHANGED vars => IInv'
<1> SUFFICES ASSUME IInv, UNCHANGED vars PROVE IInv'
  OBVIOUS
<1> USE DEF vars
<1>1. FramesOK' /\ ScopesOK' /\ LimitersOK'
  BY DEF IInv, FramesOK, ScopesOK, LimitersOK
<1>2. LimiterAccounting'
  BY DEF IInv, LimiterAccounting
<1>3. TasksOK'
  BY DEF IInv, TasksOK
<1> QED BY <1>1, <1>2, <1>3 DEF IInv

\* Every step of every goroutine keeps the inductive invariant.
LEMMA NextIInv == IInv /\ [Next]_vars => IInv'
<1> SUFFICES ASSUME IInv, [Next]_vars PROVE IInv'
  OBVIOUS
<1>1. ASSUME NEW g \in Goroutine, Instruction(g) PROVE IInv'
  BY <1>1, PushScopeStep, DeferStep, CallStep, SpawnStep, AwaitStep, ThrowStep,
     FrameReturnsStep DEF Instruction
<1>2. ASSUME NEW g \in Goroutine, Progress(g) PROVE IInv'
  BY <1>2, PushScopeStep, StartTaskStep, AwaitReturnsStep, AwaitTimesOutStep, PopScopeStep,
     JoinHandleStep, CancelSiblingStep, JoinedStep, RunDeferredStep, ScopeLeftStep,
     RecurScopeLeftStep, UnwindScopeStep, ScopeUnwoundStep, FrameReturnsStep DEF Progress
<1>3. ASSUME NEW h \in Handle, TaskEnds(h) PROVE IInv'
  BY <1>3, TaskCompletesStep, TaskReleasesStep DEF TaskEnds
<1>4. CASE Exited \/ UNCHANGED vars
  BY <1>4, StutterIInv DEF Exited
<1> QED BY <1>1, <1>2, <1>3, <1>4 DEF Next

\* IInv is an invariant of the executor.
THEOREM Inductive == Spec => []IInv
BY InitIInv, NextIInv, PTL DEF Spec
\* The executor's state keeps its types: no operation takes the head of an
\* empty join list, indexes a limiter that is not there, returns more tokens
\* than were taken or lets a recur signal out of a function.
THEOREM TypeCorrect == Spec => []TypeOK
<1>1. IInv => TypeOK
  <2> SUFFICES ASSUME IInv PROVE TypeOK
    OBVIOUS
  <2>1. spawned \in 0 .. MaxTask /\ MaxTask \in Nat
    BY ExecutorAssumption DEF IInv, TasksOK
  <2>2. HandleList(spawned) \subseteq Seq(Handle)
    BY <2>1, HandleListGrows DEF HandleList, Handle
  <2>3. FrameUpTo(spawned) \subseteq Frame /\ ScopeUpTo(spawned) \subseteq TaskScope
    <3>1. FrameRec(spawned) \subseteq Frame
      BY <2>2 DEF FrameRec, Frame
    <3> QED BY <2>2, <3>1 DEF FrameUpTo, ScopeUpTo, TaskScope
  <2>4. frames \in [Goroutine -> Seq(Frame)]
    BY <2>3, SeqMonotonic DEF IInv, FramesOK
  <2>5. taskScopes \in [Goroutine -> Seq(TaskScope)]
    BY <2>3, SeqMonotonic DEF IInv, ScopesOK
  <2>6. /\ limiter \in Seq([cap : Nat, used : Nat])
        /\ taskLimits \in [Goroutine -> Seq(Nat)]
        /\ holds \in [Goroutine -> Nat]
    <3>1. 0 .. Len(limiter) \subseteq Nat
      BY LenProperties DEF IInv, LimitersOK
    <3> QED BY <3>1, SeqMonotonic DEF IInv, LimitersOK, LimiterRec
  <2>7. Proper \subseteq Result
    BY DEF Proper
  <2> QED BY <2>4, <2>5, <2>6, <2>7 DEF TypeOK, IInv, TasksOK
<1> QED BY <1>1, Inductive, PTL

\* Limiter channels neither leak nor make up a slot: their tokens are those of
\* the tasks between StartTask and TaskReleases, and never exceed the capacity.
THEOREM TokensConserved == Spec => []LimiterAccounting
<1>1. IInv => LimiterAccounting
  BY DEF IInv
<1> QED BY <1>1, Inductive, PTL

\* VMTaskHandle.Complete settles a handle of the promise, or does nothing.
LEMMA CompleteSettles ==
  ASSUME IInv, NEW h \in Handle, h <= spawned, NEW r \in Proper, Complete(h, r),
         UNCHANGED spawned
  PROVE  Promise!Next \/ UNCHANGED <<1 .. spawned, result>>
<1>1. result \in [Handle -> Proper \cup {"open"}] /\ spawned \in Nat
  BY ExecutorAssumption DEF IInv, TasksOK
<1>2. CASE result[h] = "open"
  <2>1. result' = [result EXCEPT ![h] = r]
    BY <1>2 DEF Complete
  <2>2. Promise!Settle(h, r)
    BY <1>1, <1>2, <2>1 DEF Promise!Settle, Handle
  <2> QED BY <2>2 DEF Promise!Next, Proper
<1>3. CASE result[h] # "open"
  BY <1>1, <1>3 DEF Complete
<1> QED BY <1>2, <1>3

LEMMA PromiseStep == IInv /\ [Next]_vars => [Promise!Next]_<<1 .. spawned, result>>
<1> DEFINE Simulated == Promise!Next \/ UNCHANGED <<1 .. spawned, result>>
<1> SUFFICES ASSUME IInv, [Next]_vars PROVE Simulated
  OBVIOUS
<1>1. UNCHANGED <<spawned, result>> => Simulated
  OBVIOUS
<1>2. ASSUME NEW g \in Goroutine, Instruction(g) PROVE UNCHANGED <<spawned, result>>
  BY <1>2 DEF Instruction, PushScope, EnterScope, Defer, Call, Spawn, Await, Throw, CallFails,
     Return, StartUnwind, Fault, taskVars
<1>3. ASSUME NEW g \in Goroutine, Progress(g) PROVE Simulated
  <2>1. CASE StartTask(g)
    <3>1. spawned' = spawned + 1 /\ UNCHANGED result /\ spawned < MaxTask
      BY <2>1, StartTaskStep DEF StartTask
    <3>2. spawned \in Nat /\ spawned + 1 \in Handle
      BY <3>1, ExecutorAssumption DEF IInv, TasksOK, Handle
    <3>3. Promise!Issue(spawned + 1)
      BY <3>1, <3>2 DEF Promise!Issue
    <3> QED BY <3>2, <3>3 DEF Promise!Next
  <2>2. CASE CancelSibling(g)
    <3>1. UNCHANGED spawned
      BY <2>2 DEF CancelSibling
    <3>2. "cancel" \in Proper
      BY DEF Proper, Result
    <3> QED BY <2>2, <3>1, <3>2, CancelSiblingStep, CompleteSettles
  <2>3. CASE EnterFunction(g) \/ AwaitReturns(g) \/ AwaitTimesOut(g) \/ PopScope(g)
    BY <1>1, <2>3 DEF EnterFunction, EnterScope, AwaitReturns, AwaitTimesOut, PopScope, taskVars
  <2>4. CASE JoinHandle(g) \/ Joined(g) \/ RunDeferred(g) \/ ScopeLeft(g)
    BY <1>1, <2>4 DEF JoinHandle, Joined, RunDeferred, ScopeLeft, taskVars
  <2>5. CASE RecurScopeLeft(g) \/ UnwindScope(g) \/ ScopeUnwound(g) \/ FrameReturns(g)
    BY <1>1, <2>5 DEF RecurScopeLeft, UnwindScope, ScopeUnwound, FrameReturns, taskVars
  <2> QED BY <1>3, <2>1, <2>2, <2>3, <2>4, <2>5 DEF Progress
<1>4. ASSUME NEW h \in Handle, TaskEnds(h) PROVE Simulated
  <2>1. CASE TaskCompletes(h)
    <3>1. Complete(h, out[h]) /\ UNCHANGED spawned
      BY <2>1 DEF TaskCompletes
    <3> QED BY <2>1, <3>1, TaskCompletesStep, CompleteSettles
  <2>2. CASE TaskReleases(h)
    BY <1>1, <2>2 DEF TaskReleases
  <2> QED BY <1>4, <2>1, <2>2 DEF TaskEnds
<1>5. CASE Exited \/ UNCHANGED vars
  BY <1>1, <1>5 DEF Exited, vars
<1> QED BY <1>1, <1>2, <1>3, <1>4, <1>5 DEF Next

\* Whatever completes a task first, its own end or a sibling's cancellation,
\* every later await and join sees that one result, and it is never a recur
\* signal: the executor implements TaskPromise.
THEOREM PromiseKept == Spec => ImplementsPromise
<1>1. Init => Promise!Init
  BY DEF Init, Promise!Init
<1>2. IInv /\ [Next]_vars => [Promise!Next]_<<1 .. spawned, result>>
  BY PromiseStep
<1> QED BY <1>1, <1>2, Inductive, PTL DEF Spec, Promise!Spec, ImplementsPromise

----------------------------------------------------------------------------
(* Handles: the inductive invariant *)

\* A frame works on a list of handles while it leaves a scope (goal # "none")
\* or waits for one handle.
FrameSt(f) ==
  /\ f.goal = "none" <=> f.st \notin {"join", "cancel", "defers"}
  /\ f.st \notin {"await", "join", "cancel"} => f.todo = <<>>

\* The handles that nurseries of goroutine g adopted.
Mine(g) == {h \in owned : spawner[h] = g}

Held(g, f) == f.carry \in Seq(Mine(g)) /\ (f.goal # "none" => f.todo \in Seq(Mine(g)))

\* A task of a nursery has failed by itself.
Cause == \E k \in owned : result[k] \in {"err", "fault"}

Blamed(f) == f.cur = "cancel" \/ f.st = "cancel" => Cause

GoodFrame(g) == {f \in FrameUpTo(spawned) : FrameSt(f) /\ Held(g, f) /\ Blamed(f)}

ScopeHeld(g) == [nursery : BOOLEAN, hs : Seq(Mine(g))]

\* A frame that called another one waits for it where it made the call.
CallerSt(callee) == IF callee.kind = "defer" THEN "defers" ELSE "run"
Linked(s) == \A i \in 1 .. Len(s) - 1 : s[i].st = CallerSt(s[i + 1])

StackGood(g) == /\ frames[g] \in Seq(GoodFrame(g))
                /\ Linked(frames[g])
                /\ taskScopes[g] \in Seq(ScopeHeld(g))

LinkInv ==
  /\ \A g \in Goroutine : StackGood(g) /\ (out[g] = "cancel" => Cause)
  /\ \A h \in Handle : result[h] = "cancel" => Cause
  /\ owned \subseteq 1 .. spawned

----------------------------------------------------------------------------
(* Stacks of frames *)

\* The last element and the front of a stack, by position.
LEMMA StackParts ==
  ASSUME NEW S, NEW s \in Seq(S), s # <<>>
  PROVE  /\ Len(s) \in Nat /\ Len(s) >= 1
         /\ Last(s) = s[Len(s)] /\ Last(s) \in S
         /\ Front(s) \in Seq(S) /\ Len(Front(s)) = Len(s) - 1
         /\ \A i \in 1 .. Len(s) - 1 : Front(s)[i] = s[i]
<1>1. Len(s) \in Nat /\ Len(s) >= 1
  BY EmptySeq, LenProperties
<1>2. Last(s) = s[Len(s)] /\ Last(s) \in S /\ Front(s) \in Seq(S)
  BY StackTop DEF Last
<1>3. \A i \in 1 .. Len(s) - 1 : s[i] \in S
  BY <1>1, ElementOfSeq
<1> DEFINE n == Len(s) - 1
<1>4. n \in Nat /\ 1 \in Nat
  BY <1>1
<1>5. \A i \in 1 .. n : s[i] \in S
  BY <1>3
<1> HIDE DEF n
<1>6. /\ Len(SubSeq(s, 1, n)) = IF 1 <= n THEN n - 1 + 1 ELSE 0
      /\ \A i \in 1 .. n - 1 + 1 : SubSeq(s, 1, n)[i] = s[1 + i - 1]
  BY <1>4, <1>5, SubSeqProperties
<1>7. Len(SubSeq(s, 1, n)) = n /\ \A i \in 1 .. n : SubSeq(s, 1, n)[i] = s[i]
  BY <1>4, <1>6
<1> QED BY <1>1, <1>2, <1>7 DEF Front, n

\* Appending, by position.
LEMMA StackPush ==
  ASSUME NEW S, NEW s \in Seq(S), NEW f \in S
  PROVE  /\ Append(s, f) \in Seq(S) /\ Append(s, f) # <<>>
         /\ Len(s) \in Nat /\ Len(Append(s, f)) = Len(s) + 1
         /\ Append(s, f)[Len(s) + 1] = f /\ Last(Append(s, f)) = f
         /\ \A i \in 1 .. Len(s) : Append(s, f)[i] = s[i]
<1>1. /\ Append(s, f) \in Seq(S)
      /\ Len(s) \in Nat /\ Len(Append(s, f)) = Len(s) + 1
      /\ Append(s, f)[Len(s) + 1] = f
      /\ \A i \in 1 .. Len(s) : Append(s, f)[i] = s[i]
  BY AppendProperties, LenProperties
<1>2. Append(s, f) # <<>>
  BY <1>1, EmptySeq
<1> QED BY <1>1, <1>2 DEF Last

LEMMA LinkedPush ==
  ASSUME NEW S, NEW s \in Seq(S), NEW f \in S, Linked(s),
         s # <<>> => Last(s).st = CallerSt(f)
  PROVE  Linked(Append(s, f))
<1> DEFINE t == Append(s, f)
<1>1. /\ Len(s) \in Nat /\ Len(t) = Len(s) + 1 /\ t[Len(s) + 1] = f
      /\ \A i \in 1 .. Len(s) : t[i] = s[i]
  BY StackPush
<1> HIDE DEF t
<1> SUFFICES ASSUME NEW i \in 1 .. Len(s) PROVE t[i].st = CallerSt(t[i + 1])
  BY <1>1 DEF Linked, t
<1>2. CASE i = Len(s)
  <2>1. s # <<>>
    BY <1>1, <1>2, EmptySeq
  <2> QED BY <1>1, <1>2, <2>1, StackParts
<1>3. CASE i \in 1 .. Len(s) - 1
  BY <1>1, <1>3 DEF Linked
<1> QED BY <1>1, <1>2, <1>3

\* The frame on top is gone: the one below waited for it.
LEMMA LinkedPop ==
  ASSUME NEW S, NEW s \in Seq(S), s # <<>>, Linked(s)
  PROVE  /\ Linked(Front(s))
         /\ Front(s) # <<>> => Last(Front(s)).st = CallerSt(Last(s))
<1> DEFINE t == Front(s)
<1>1. /\ Len(s) \in Nat /\ Len(s) >= 1 /\ Last(s) = s[Len(s)]
      /\ t \in Seq(S) /\ Len(t) = Len(s) - 1
      /\ \A i \in 1 .. Len(s) - 1 : t[i] = s[i]
  BY StackParts
<1> HIDE DEF t
<1>2. Linked(t)
  <2> SUFFICES ASSUME NEW i \in 1 .. Len(t) - 1 PROVE t[i].st = CallerSt(t[i + 1])
    BY DEF Linked
  <2>1. i \in 1 .. Len(s) - 1 /\ i + 1 \in 1 .. Len(s) - 1
    BY <1>1
  <2> QED BY <1>1, <2>1 DEF Linked
<1>3. ASSUME t # <<>> PROVE Last(t).st = CallerSt(Last(s))
  <2>1. Len(t) >= 1 /\ Last(t) = t[Len(t)]
    BY <1>1, <1>3, StackParts
  <2>2. Len(t) \in 1 .. Len(s) - 1 /\ Len(t) + 1 = Len(s)
    BY <1>1, <2>1
  <2> QED BY <1>1, <2>1, <2>2 DEF Linked
<1> QED BY <1>2, <1>3 DEF t

\* The frame on top is replaced by one of the same kind.
LEMMA LinkedTop ==
  ASSUME NEW S, NEW s \in Seq(S), s # <<>>, NEW f \in S, Linked(s), f.kind = Last(s).kind
  PROVE  Linked(Append(Front(s), f))
<1>1. Front(s) \in Seq(S) /\ Linked(Front(s))
      /\ (Front(s) # <<>> => Last(Front(s)).st = CallerSt(f))
  BY StackTop, LinkedPop DEF CallerSt
<1> QED BY <1>1, LinkedPush

----------------------------------------------------------------------------
(* The shapes of a step *)

\* What a running goroutine's top frame and stacks are.
LEMMA TopGood ==
  ASSUME IInv, LinkInv, NEW g \in Goroutine, Running(g)
  PROVE  /\ Top(g) \in FrameRec(spawned) /\ FrameSt(Top(g)) /\ Held(g, Top(g)) /\ Blamed(Top(g))
         /\ frames[g] # <<>> /\ frames[g] \in Seq(GoodFrame(g)) /\ Linked(frames[g])
         /\ taskScopes[g] \in Seq(ScopeHeld(g))
<1>1. frames[g] # <<>> /\ frames[g] \in Seq(GoodFrame(g)) /\ Linked(frames[g])
      /\ taskScopes[g] \in Seq(ScopeHeld(g))
  BY DEF LinkInv, StackGood, Running
<1>2. Top(g) \in GoodFrame(g)
  BY <1>1, StackTop DEF Top
<1>3. Top(g) \in FrameRec(spawned)
  BY TopType
<1> QED BY <1>1, <1>2, <1>3 DEF GoodFrame

\* Causes stay, and handles stay with their spawner.
LEMMA GoodKept ==
  ASSUME IInv, NEW k, Mine(k) \subseteq Mine(k)', Cause => Cause',
         spawned' \in Nat, spawned <= spawned'
  PROVE  GoodFrame(k) \subseteq GoodFrame(k)' /\ ScopeHeld(k) \subseteq ScopeHeld(k)'
<1>1. Seq(Mine(k)) \subseteq Seq(Mine(k)')
  BY SeqMonotonic
<1>2. spawned \in Nat
  BY ExecutorAssumption DEF IInv, TasksOK
<1>3. FrameUpTo(spawned) \subseteq FrameUpTo(spawned')
  BY <1>2, FrameGrows
<1>4. ScopeHeld(k) \subseteq ScopeHeld(k)'
  BY <1>1 DEF ScopeHeld
<1>5. ASSUME NEW f \in GoodFrame(k) PROVE f \in GoodFrame(k)'
  <2>1. f \in FrameUpTo(spawned') /\ FrameSt(f) /\ Held(k, f) /\ Blamed(f)
    BY <1>3 DEF GoodFrame
  <2>2. Held(k, f)' /\ Blamed(f)'
    BY <1>1, <2>1 DEF Held, Blamed
  <2> QED BY <2>1, <2>2 DEF GoodFrame
<1> QED BY <1>4, <1>5

\* A step of goroutine g that starts no task.
LEMMA LinkStep ==
  ASSUME IInv, LinkInv, NEW g \in Goroutine,
         NEW stack \in Seq(GoodFrame(g)), Linked(stack), NEW scopes \in Seq(ScopeHeld(g)),
         frames' = [frames EXCEPT ![g] = stack],
         taskScopes' = [taskScopes EXCEPT ![g] = scopes],
         UNCHANGED <<spawned, spawner, owned>>, Cause => Cause',
         \A k \in Goroutine : out'[k] = "cancel" => out[k] = "cancel" \/ Cause,
         \A h \in Handle : result'[h] = "cancel" => result[h] = "cancel" \/ Cause
  PROVE  LinkInv'
<1>1. \A k \in Goroutine : Mine(k) = Mine(k)'
  BY DEF Mine
<1>2. spawned' \in Nat /\ spawned <= spawned'
  BY ExecutorAssumption DEF IInv, TasksOK
<1>3. ASSUME NEW k \in Goroutine PROVE StackGood(k)'
  <2>1. Seq(GoodFrame(k)) \subseteq Seq(GoodFrame(k)')
    BY <1>1, <1>2, GoodKept, SeqMonotonic
  <2>2. Seq(ScopeHeld(k)) \subseteq Seq(ScopeHeld(k)')
    BY <1>1, <1>2, GoodKept, SeqMonotonic
  <2>3. frames[k] \in Seq(GoodFrame(k)) /\ Linked(frames[k]) /\ taskScopes[k] \in Seq(ScopeHeld(k))
    BY DEF LinkInv, StackGood
  <2>4. /\ frames'[k] = IF k = g THEN stack ELSE frames[k]
        /\ taskScopes'[k] = IF k = g THEN scopes ELSE taskScopes[k]
    BY DEF IInv, FramesOK, ScopesOK
  <2>5. frames'[k] \in Seq(GoodFrame(k)) /\ Linked(frames'[k]) /\ taskScopes'[k] \in Seq(ScopeHeld(k))
    BY <2>3, <2>4
  <2>6. Linked(frames[k])'
    BY <2>5 DEF Linked
  <2> QED BY <2>1, <2>2, <2>5, <2>6 DEF StackGood
<1>4. \A k \in Goroutine : out'[k] = "cancel" => Cause'
  BY DEF LinkInv
<1>5. \A h \in Handle : result'[h] = "cancel" => Cause'
  BY DEF LinkInv
<1>6. owned' \subseteq 1 .. spawned'
  BY DEF LinkInv
<1> QED BY <1>3, <1>4, <1>5, <1>6 DEF LinkInv

\* The same, where only the top frame and the task scopes of g change.
LEMMA LinkTop ==
  ASSUME IInv, IInv', LinkInv, NEW g \in Goroutine, Running(g),
         NEW f, SetTop(g, f), f.kind = Top(g).kind, FrameSt(f), Held(g, f), Blamed(f),
         NEW scopes \in Seq(ScopeHeld(g)), taskScopes' = [taskScopes EXCEPT ![g] = scopes],
         UNCHANGED <<spawned, out, spawner, owned>>, Cause => Cause',
         \A h \in Handle : result'[h] = "cancel" => result[h] = "cancel" \/ Cause
  PROVE  LinkInv'
<1> DEFINE stack == Append(Front(frames[g]), f)
<1>1. frames[g] # <<>> /\ frames[g] \in Seq(GoodFrame(g)) /\ Linked(frames[g])
  BY TopGood
<1>2. frames' = [frames EXCEPT ![g] = stack]
  BY DEF SetTop
<1>3. frames'[g] = stack
  BY <1>2 DEF IInv, FramesOK
<1>4. f \in GoodFrame(g)
  <2>1. stack \in Seq(FrameUpTo(spawned))
    BY <1>3 DEF IInv, FramesOK
  <2>2. Front(frames[g]) \in Seq(FrameUpTo(spawned))
    BY TopType
  <2>3. stack # <<>> /\ Last(stack) = f
    BY <2>2, LenProperties, EmptySeq DEF Last
  <2>4. f \in FrameUpTo(spawned)
    <3> HIDE DEF stack
    <3> QED BY <2>1, <2>3, StackTop
  <2> QED BY <2>4 DEF GoodFrame
<1>5. stack \in Seq(GoodFrame(g))
  BY <1>1, <1>4, StackTop, StackPush
<1>6. Linked(stack)
  BY <1>1, <1>4, LinkedTop DEF Top
<1> HIDE DEF stack
<1> QED BY <1>2, <1>5, <1>6, LinkStep

LEMMA LinkFrame ==
  ASSUME IInv, IInv', LinkInv, NEW g \in Goroutine, Running(g),
         NEW f, SetTop(g, f), f.kind = Top(g).kind, FrameSt(f), Held(g, f), Blamed(f),
         UNCHANGED <<taskScopes, spawned, result, out, spawner, owned>>
  PROVE  LinkInv'
<1>1. taskScopes' = [taskScopes EXCEPT ![g] = taskScopes[g]]
  BY DEF IInv, ScopesOK
<1>2. taskScopes[g] \in Seq(ScopeHeld(g))
  BY TopGood
<1>3. Cause => Cause'
  BY DEF Cause
<1> QED BY <1>1, <1>2, <1>3, LinkTop

----------------------------------------------------------------------------
(* Steps that change the top frame only *)

LEMMA DeferLink ==
  ASSUME IInv, IInv', LinkInv, NEW g \in Goroutine, NEW mode \in Mode, Defer(g, mode)
  PROVE  LinkInv'
<1> DEFINE f == Top(g)
           scopes == IF f.defers = <<>> THEN << <<>> >> ELSE f.defers
           defers == Append(Front(scopes), Append(Last(scopes), mode))
           new == [f EXCEPT !.defers = defers]
<1>1. Running(g) /\ SetTop(g, new) /\ UNCHANGED <<stackVars, taskVars>>
  BY DEF Defer, Instr, Step
<1>2. f \in FrameRec(spawned) /\ FrameSt(f) /\ Held(g, f) /\ Blamed(f)
  BY <1>1, TopGood
<1> HIDE DEF defers
<1>3. new.kind = f.kind /\ FrameSt(new) /\ Held(g, new) /\ Blamed(new)
  BY <1>2 DEF FrameRec, FrameSt, Held, Blamed
<1> HIDE DEF new
<1> QED BY <1>1, <1>3, LinkFrame DEF stackVars, taskVars

LEMMA SpawnLink ==
  ASSUME IInv, IInv', LinkInv, NEW g \in Goroutine, Spawn(g)
  PROVE  LinkInv'
<1> DEFINE f == Top(g)
           new == [f EXCEPT !.st = "spawn"]
<1>1. Running(g) /\ f.st = "run" /\ SetTop(g, new) /\ UNCHANGED <<stackVars, taskVars>>
  BY DEF Spawn, Instr, Step
<1>2. f \in FrameRec(spawned) /\ FrameSt(f) /\ Held(g, f) /\ Blamed(f)
  BY <1>1, TopGood
<1>3. new.kind = f.kind /\ FrameSt(new) /\ Held(g, new) /\ Blamed(new)
  BY <1>1, <1>2 DEF FrameRec, FrameSt, Held, Blamed
<1> HIDE DEF new
<1> QED BY <1>1, <1>3, LinkFrame DEF stackVars, taskVars

LEMMA AwaitLink ==
  ASSUME IInv, IInv', LinkInv, NEW g \in Goroutine, NEW h \in Handle, Await(g, h)
  PROVE  LinkInv'
<1>0. PICK ms : SetTop(g, [Top(g) EXCEPT !.st = "await", !.todo = <<h>>, !.timeout = ms])
  BY DEF Await
<1> DEFINE f == Top(g)
           todo == <<h>>
           new == [f EXCEPT !.st = "await", !.todo = todo, !.timeout = ms]
<1>1. Running(g) /\ f.st = "run" /\ SetTop(g, new) /\ UNCHANGED <<stackVars, taskVars>>
  BY <1>0 DEF Await, Instr, Step
<1>2. f \in FrameRec(spawned) /\ FrameSt(f) /\ Held(g, f) /\ Blamed(f)
  BY <1>1, TopGood
<1> HIDE DEF todo
<1>3. new.kind = f.kind /\ FrameSt(new) /\ Held(g, new) /\ Blamed(new)
  BY <1>1, <1>2 DEF FrameRec, FrameSt, Held, Blamed
<1> HIDE DEF new
<1> QED BY <1>1, <1>3, LinkFrame DEF stackVars, taskVars

\* Throws, failed calls and returns; an unwinding frame may have been waiting.
LEMMA UnwindLink ==
  ASSUME IInv, IInv', LinkInv, NEW g \in Goroutine, Throw(g) \/ CallFails(g) \/ Return(g)
  PROVE  LinkInv'
<1> DEFINE f == Top(g)
<1>1. PICK cur \in {"err", "fault", "val", "recur"} :
        Running(g) /\ f.st = "run" /\ StartUnwind(g, cur)
  BY DEF Throw, CallFails, Return, Instr, Step
<1> DEFINE new == [f EXCEPT !.st = "unwind", !.cur = cur]
<1>2. SetTop(g, new) /\ UNCHANGED <<stackVars, taskVars>>
  BY <1>1 DEF StartUnwind
<1>3. f \in FrameRec(spawned) /\ FrameSt(f) /\ Held(g, f) /\ Blamed(f)
  BY <1>1, TopGood
<1>4. new.kind = f.kind /\ FrameSt(new) /\ Held(g, new) /\ Blamed(new)
  BY <1>1, <1>3 DEF FrameRec, FrameSt, Held, Blamed
<1> HIDE DEF new
<1> QED BY <1>1, <1>2, <1>4, LinkFrame DEF stackVars, taskVars

LEMMA AwaitReturnsLink ==
  ASSUME IInv, IInv', LinkInv, NEW g \in Goroutine, AwaitReturns(g) \/ AwaitTimesOut(g)
  PROVE  LinkInv'
<1> DEFINE f == Top(g)
           h == Head(f.todo)
<1>1. Running(g) /\ f.st = "await" /\ UNCHANGED <<stackVars, taskVars>>
  BY DEF AwaitReturns, AwaitTimesOut, Step
<1>2. f \in FrameRec(spawned) /\ FrameSt(f) /\ Held(g, f) /\ Blamed(f)
  BY <1>1, TopGood
<1>3. PICK st \in {"run", "unwind"}, cur \in Result :
        /\ cur = "cancel" => result[h] = "cancel"
        /\ SetTop(g, [f EXCEPT !.todo = <<>>, !.timeout = 0, !.st = st, !.cur = cur])
  <2>1. CASE AwaitTimesOut(g)
    BY <2>1 DEF AwaitTimesOut, Result
  <2>2. CASE AwaitReturns(g)
    <3> DEFINE st == IF IsError(result[h]) THEN "unwind" ELSE "run"
               cur == IF IsError(result[h]) THEN result[h] ELSE "val"
    <3>1. SetTop(g, [f EXCEPT !.todo = <<>>, !.timeout = 0, !.st = st, !.cur = cur])
      BY <2>2 DEF AwaitReturns
    <3>2. st \in {"run", "unwind"} /\ cur \in Result /\ (cur = "cancel" => result[h] = "cancel")
      BY DEF IsError, Result
    <3> HIDE DEF st, cur
    <3> QED BY <3>1, <3>2
  <2> QED BY <2>1, <2>2
<1>4. cur = "cancel" => Cause
  <2>1. f.todo # <<>> /\ f.todo \in HandleList(spawned)
    BY <1>1, <1>2, TopType DEF FrameUpTo, FrameRec
  <2>2. h \in 1 .. spawned
    BY <2>1, HeadTailProperties DEF HandleList
  <2>3. h \in Handle
    BY <2>2, ExecutorAssumption DEF Handle, IInv, TasksOK
  <2> QED BY <1>3, <2>3 DEF LinkInv
<1> DEFINE new == [f EXCEPT !.todo = <<>>, !.timeout = 0, !.st = st, !.cur = cur]
<1>5. new.kind = f.kind /\ FrameSt(new) /\ Held(g, new) /\ Blamed(new)
  BY <1>1, <1>2, <1>3, <1>4 DEF FrameRec, FrameSt, Held, Blamed
<1>6. SetTop(g, new)
  BY <1>3
<1> HIDE DEF new
<1> QED BY <1>1, <1>5, <1>6, LinkFrame DEF stackVars, taskVars

LEMMA JoinedLink ==
  ASSUME IInv, IInv', LinkInv, NEW g \in Goroutine, Joined(g)
  PROVE  LinkInv'
<1> DEFINE f == Top(g)
           entries == TopOr(f.defers, <<>>)
           defers == Popped(f.defers)
           new == [f EXCEPT !.st = "defers", !.entries = entries, !.defers = defers]
<1>1. Running(g) /\ f.st = "join" /\ f.todo = <<>> /\ SetTop(g, new)
      /\ UNCHANGED <<stackVars, taskVars>>
  BY DEF Joined, Step
<1>2. f \in FrameRec(spawned) /\ FrameSt(f) /\ Held(g, f) /\ Blamed(f)
  BY <1>1, TopGood
<1> HIDE DEF entries, defers
<1>3. new.kind = f.kind /\ FrameSt(new) /\ Held(g, new) /\ Blamed(new)
  BY <1>1, <1>2 DEF FrameRec, FrameSt, Held, Blamed
<1> HIDE DEF new
<1> QED BY <1>1, <1>3, LinkFrame DEF stackVars, taskVars

LEMMA ScopeUnwoundLink ==
  ASSUME IInv, IInv', LinkInv, NEW g \in Goroutine, ScopeUnwound(g)
  PROVE  LinkInv'
<1> DEFINE f == Top(g)
           new == [f EXCEPT !.st = "unwind", !.goal = "none"]
<1>1. Running(g) /\ f.st = "defers" /\ SetTop(g, new) /\ UNCHANGED <<taskScopes, taskVars>>
  BY DEF ScopeUnwound, Step
<1>2. f \in FrameRec(spawned) /\ FrameSt(f) /\ Held(g, f) /\ Blamed(f)
  BY <1>1, TopGood
<1>3. new.kind = f.kind /\ FrameSt(new) /\ Held(g, new) /\ Blamed(new)
  BY <1>1, <1>2 DEF FrameRec, FrameSt, Held, Blamed
<1> HIDE DEF new
<1> QED BY <1>1, <1>3, LinkFrame DEF taskVars

LEMMA ScopeLeftLink ==
  ASSUME IInv, IInv', LinkInv, NEW g \in Goroutine, ScopeLeft(g)
  PROVE  LinkInv'
<1> DEFINE f == Top(g)
           open == f.open - 1
           env == f.env - 1
           less == [f EXCEPT !.open = open, !.env = env]
<1>1. Running(g) /\ f.st = "defers" /\ UNCHANGED <<taskScopes, taskVars>>
  BY DEF ScopeLeft, Step
<1>2. f \in FrameRec(spawned) /\ FrameSt(f) /\ Held(g, f) /\ Blamed(f)
  BY <1>1, TopGood
<1>3. PICK new \in AfterPop(less, f.cur) : SetTop(g, new)
  BY DEF ScopeLeft
<1>4. PICK st \in {"unwind", "tail", "run"}, cur \in {"val", f.cur} :
        new = [less EXCEPT !.goal = "none", !.cur = cur, !.st = st]
  BY <1>3 DEF AfterPop
<1> HIDE DEF open, env
<1>5. new.kind = f.kind /\ FrameSt(new) /\ Held(g, new) /\ Blamed(new)
  BY <1>1, <1>2, <1>4 DEF FrameRec, FrameSt, Held, Blamed
<1> QED BY <1>1, <1>3, <1>5, LinkFrame DEF taskVars

----------------------------------------------------------------------------
(* Steps that move handles *)

\* The top scope's handles and the scopes below it.
LEMMA ScopeTopHeld ==
  ASSUME IInv, LinkInv, NEW g \in Goroutine, Running(g)
  PROVE  /\ Popped(taskScopes[g]) \in Seq(ScopeHeld(g))
         /\ TopOr(taskScopes[g], NoScope).hs \in Seq(Mine(g))
<1>1. NoScope \in ScopeHeld(g)
  BY EmptySeq DEF NoScope, ScopeHeld
<1>2. /\ Popped(taskScopes[g]) \in Seq(ScopeHeld(g))
      /\ TopOr(taskScopes[g], NoScope) \in ScopeHeld(g)
  BY <1>1, TopGood, StackGuarded
<1> QED BY <1>2 DEF ScopeHeld

LEMMA AdoptAllHeld ==
  ASSUME NEW S, NEW scopes \in Seq([nursery : BOOLEAN, hs : Seq(S)]),
         NEW hs, ownerIdx(scopes) # 0 => hs \in Seq(S)
  PROVE  AdoptAll(scopes, hs) \in Seq([nursery : BOOLEAN, hs : Seq(S)])
<1> DEFINE i == ownerIdx(scopes)
           R == [nursery : BOOLEAN, hs : Seq(S)]
           new == [scopes[i] EXCEPT !.hs = @ \o hs]
<1>1. CASE i = 0
  BY <1>1 DEF AdoptAll
<1>2. CASE i # 0 /\ i \notin 1 .. Len(scopes)
  <2>1. [scopes EXCEPT ![i] = new] = scopes
    <3> HIDE DEF i, new
    <3> QED BY <1>2, LenProperties
  <2> QED BY <2>1 DEF AdoptAll
<1>3. CASE i # 0 /\ i \in 1 .. Len(scopes)
  <2>1. scopes[i] \in R
    <3> HIDE DEF i
    <3> QED BY <1>3, ElementOfSeq
  <2>2. scopes[i].hs \o hs \in Seq(S)
    <3>1. scopes[i].hs \in Seq(S) /\ hs \in Seq(S)
      BY <1>3, <2>1
    <3> HIDE DEF i
    <3> QED BY <3>1, ConcatProperties
  <2>3. new \in R
    <3> HIDE DEF i
    <3> QED BY <2>1, <2>2
  <2>4. [scopes EXCEPT ![i] = new] \in Seq(R)
    <3> HIDE DEF i, new, R
    <3> QED BY <1>3, <2>3, ExceptSeq DEF R
  <2> QED BY <1>3, <2>4 DEF AdoptAll
<1> QED BY <1>1, <1>2, <1>3

LEMMA JoinHandleLink ==
  ASSUME IInv, IInv', LinkInv, NEW g \in Goroutine, JoinHandle(g)
  PROVE  LinkInv'
<1> DEFINE f == Top(g)
           h == Head(f.todo)
           r == result[h]
           rest == Tail(f.todo)
           new == JoinedOne(f, r)
<1>1. Running(g) /\ f.st = "join" /\ f.todo # <<>> /\ SetTop(g, new)
      /\ UNCHANGED <<stackVars, taskVars>>
  BY DEF JoinHandle, Done, Step
<1>2. f \in FrameRec(spawned) /\ FrameSt(f) /\ Held(g, f) /\ Blamed(f)
  BY <1>1, TopGood
<1>3. f.goal # "none" /\ f.todo \in Seq(Mine(g))
  BY <1>1, <1>2 DEF FrameSt, Held
<1>4. h \in Mine(g) /\ rest \in Seq(Mine(g))
  BY <1>1, <1>3, HeadTailProperties
<1>5. IsError(r) => Cause
  <2>1. h \in owned /\ h \in Handle
    BY <1>4 DEF Mine, IInv, TasksOK
  <2>2. CASE r = "cancel"
    BY <2>1, <2>2 DEF LinkInv
  <2>3. CASE r \in {"err", "fault"}
    BY <2>1, <2>3 DEF Cause
  <2> QED BY <2>2, <2>3 DEF IsError
<1>6. new.kind = f.kind /\ FrameSt(new) /\ Held(g, new) /\ Blamed(new)
  <2> HIDE DEF r
  <2>1. CASE IsError(r) /\ ~IsError(f.cur)
    <3>1. new = [f EXCEPT !.todo = rest, !.doomed = rest, !.st = "cancel", !.cur = r]
      BY <2>1 DEF JoinedOne
    <3> HIDE DEF rest, new
    <3> QED BY <1>2, <1>3, <1>4, <1>5, <2>1, <3>1 DEF FrameRec, FrameSt, Held, Blamed
  <2>2. CASE ~(IsError(r) /\ ~IsError(f.cur))
    <3>1. new = [f EXCEPT !.todo = rest]
      BY <2>2 DEF JoinedOne
    <3> HIDE DEF rest, new
    <3> QED BY <1>1, <1>2, <1>3, <1>4, <3>1 DEF FrameRec, FrameSt, Held, Blamed
  <2> QED BY <2>1, <2>2
<1> HIDE DEF new
<1> QED BY <1>1, <1>6, LinkFrame DEF stackVars, taskVars

\* The first completion wins, so what failed by itself has failed for good.
LEMMA CompleteKeepsCause ==
  ASSUME IInv, NEW h \in Handle, NEW r, Complete(h, r), UNCHANGED owned
  PROVE  /\ Cause => Cause'
         /\ \A k \in Handle : result'[k] # result[k] => k = h /\ result'[k] = r
<1>1. result \in [Handle -> Proper \cup {"open"}] /\ owned \subseteq Handle
  BY DEF IInv, TasksOK
<1>2. \A k \in Handle : \/ result'[k] = result[k]
                        \/ k = h /\ result[k] = "open" /\ result'[k] = r
  BY <1>1 DEF Complete
<1> QED BY <1>1, <1>2 DEF Cause

LEMMA CancelSiblingLink ==
  ASSUME IInv, IInv', LinkInv, NEW g \in Goroutine, CancelSibling(g)
  PROVE  LinkInv'
<1> DEFINE f == Top(g)
<1>1. Running(g) /\ f.st = "cancel" /\ UNCHANGED <<stackVars, spawned, out, spawner, owned>>
  BY DEF CancelSibling, Step
<1>2. f \in FrameRec(spawned) /\ FrameSt(f) /\ Held(g, f) /\ Blamed(f)
  BY <1>1, TopGood
<1>3. CASE f.doomed = <<>>
  <2> DEFINE new == [f EXCEPT !.st = "join"]
  <2>1. SetTop(g, new) /\ UNCHANGED result
    BY <1>3 DEF CancelSibling
  <2>2. new.kind = f.kind /\ FrameSt(new) /\ Held(g, new) /\ Blamed(new)
    BY <1>1, <1>2 DEF FrameRec, FrameSt, Held, Blamed
  <2> HIDE DEF new
  <2> QED BY <1>1, <2>1, <2>2, LinkFrame DEF stackVars
<1>4. CASE f.doomed # <<>>
  <2> DEFINE h == Head(f.doomed)
             rest == Tail(f.doomed)
             new == [f EXCEPT !.doomed = rest]
  <2>1. SetTop(g, new) /\ Complete(h, "cancel")
    BY <1>4 DEF CancelSibling
  <2>2. h \in 1 .. spawned
    BY <1>2, <1>4, HeadTailProperties DEF FrameRec, HandleList
  <2>3. h \in Handle
    BY <2>2, ExecutorAssumption DEF Handle, IInv, TasksOK
  <2>4. new.kind = f.kind /\ FrameSt(new) /\ Held(g, new) /\ Blamed(new)
    <3> HIDE DEF rest
    <3> QED BY <1>1, <1>2 DEF FrameRec, FrameSt, Held, Blamed
  <2>5. Cause
    BY <1>1, <1>2 DEF Blamed
  <2>6. taskScopes' = [taskScopes EXCEPT ![g] = taskScopes[g]]
        /\ taskScopes[g] \in Seq(ScopeHeld(g))
    BY <1>1, TopGood DEF IInv, ScopesOK, stackVars
  <2> HIDE DEF new, h
  <2>7. Cause => Cause'
    BY <1>1, <2>1, <2>3, CompleteKeepsCause
  <2> QED BY <1>1, <2>1, <2>4, <2>5, <2>6, <2>7, LinkTop
<1> QED BY <1>3, <1>4

LEMMA BeginJoinLink ==
  ASSUME IInv, IInv', LinkInv, NEW g \in Goroutine, Running(g),
         Top(g).st \in {"run", "tail", "unwind"},
         NEW goal \in {"pop", "unwind"}, NEW cur \in {"val", Top(g).cur},
         BeginJoin(g, Top(g), goal, cur), UNCHANGED taskVars
  PROVE  LinkInv'
<1> DEFINE f == Top(g)
           hs == TopOr(taskScopes[g], NoScope).hs
           scopes == Popped(taskScopes[g])
           new == [f EXCEPT !.st = "join", !.goal = goal, !.cur = cur, !.todo = hs]
<1>1. SetTop(g, new) /\ taskScopes' = [taskScopes EXCEPT ![g] = scopes]
  BY DEF BeginJoin
<1>2. f \in FrameRec(spawned) /\ FrameSt(f) /\ Held(g, f) /\ Blamed(f)
  BY TopGood
<1>3. scopes \in Seq(ScopeHeld(g)) /\ hs \in Seq(Mine(g))
  BY ScopeTopHeld
<1> HIDE DEF scopes, hs
<1>4. new.kind = f.kind /\ FrameSt(new) /\ Held(g, new) /\ Blamed(new)
  BY <1>2, <1>3 DEF FrameRec, FrameSt, Held, Blamed
<1>5. Cause => Cause'
  BY DEF Cause, taskVars
<1> HIDE DEF new
<1> QED BY <1>1, <1>3, <1>4, <1>5, LinkTop DEF taskVars

LEMMA MigrateLink ==
  ASSUME IInv, IInv', LinkInv, NEW g \in Goroutine, Running(g), NEW f \in FrameRec(spawned),
         f.kind = Top(g).kind, Held(g, f), f.todo = <<>>, f.cur = "recur",
         Migrate(g, f), UNCHANGED taskVars
  PROVE  LinkInv'
<1> DEFINE rest == Popped(taskScopes[g])
           hs == TopOr(taskScopes[g], NoScope).hs
           scopes == AdoptAll(rest, hs)
           st == IF f.open = 1 THEN "unwind" ELSE "tail"
           carry == Carried(f, rest, hs)
           open == f.open - 1
           env == f.env - 1
           new == [f EXCEPT !.st = st, !.goal = "none", !.open = open, !.env = env,
                            !.carry = carry]
<1>1. SetTop(g, new) /\ taskScopes' = [taskScopes EXCEPT ![g] = scopes]
  BY DEF Migrate
<1>2. rest \in Seq(ScopeHeld(g)) /\ hs \in Seq(Mine(g))
  BY ScopeTopHeld
<1>3. st \in {"unwind", "tail"}
  OBVIOUS
<1>4. scopes \in Seq(ScopeHeld(g))
  <2> HIDE DEF rest, hs
  <2> QED BY <1>2, AdoptAllHeld DEF ScopeHeld
<1>5. carry \in Seq(Mine(g))
  <2>1. f.carry \in Seq(Mine(g))
    BY DEF Held
  <2> HIDE DEF rest, hs
  <2> QED BY <1>2, <2>1, ConcatProperties DEF Carried
<1> HIDE DEF scopes, carry, open, env, st
<1>6. new.kind = f.kind /\ FrameSt(new) /\ Held(g, new) /\ Blamed(new)
  BY <1>3, <1>5 DEF FrameRec, FrameSt, Held, Blamed
<1>7. Cause => Cause'
  BY DEF Cause, taskVars
<1> HIDE DEF new
<1> QED BY <1>1, <1>4, <1>6, <1>7, LinkTop DEF taskVars

LEMMA RecurPopLink ==
  ASSUME IInv, IInv', LinkInv, NEW g \in Goroutine, Running(g),
         Top(g).st \in {"run", "tail"}, RecurPop(g, Top(g)), UNCHANGED taskVars
  PROVE  LinkInv'
<1> DEFINE f == Top(g)
           popped == Popped(f.defers)
           entries == TopOr(f.defers, <<>>)
<1>1. f \in FrameRec(spawned) /\ FrameSt(f) /\ Held(g, f) /\ Blamed(f) /\ spawned \in Nat
  BY TopGood, TopType
<1>2. popped \in Seq(Seq(Mode)) /\ entries \in Seq(Mode)
  BY <1>1, DefersType
<1>3. f.todo = <<>> /\ f.goal = "none"
  BY <1>1 DEF FrameSt
<1>4. CASE f.open = 1
  <2> DEFINE new == [f EXCEPT !.cur = "recur", !.defers = popped]
  <2>1. Migrate(g, new)
    BY <1>4 DEF RecurPop
  <2>2. new \in FrameRec(spawned) /\ new.kind = f.kind /\ Held(g, new) /\ new.todo = <<>>
        /\ new.cur = "recur"
    <3> HIDE DEF popped
    <3> QED BY <1>1, <1>2, <1>3 DEF FrameRec, Result, Held
  <2> HIDE DEF new
  <2> QED BY <2>1, <2>2, MigrateLink
<1>5. CASE f.open # 1
  <2> DEFINE new == [f EXCEPT !.st = "defers", !.goal = "recur", !.cur = "recur",
                              !.entries = entries, !.defers = popped]
  <2>1. SetTop(g, new) /\ UNCHANGED stackVars
    BY <1>5 DEF RecurPop
  <2>2. <<>> \in Seq(Mine(g))
    BY EmptySeq
  <2>3. new.kind = f.kind /\ FrameSt(new) /\ Held(g, new) /\ Blamed(new)
    <3> HIDE DEF popped, entries
    <3> QED BY <1>1, <1>3, <2>2 DEF FrameRec, FrameSt, Held, Blamed
  <2> HIDE DEF new
  <2> QED BY <2>1, <2>3, LinkFrame DEF stackVars, taskVars
<1> QED BY <1>4, <1>5

LEMMA PopScopeLink ==
  ASSUME IInv, IInv', LinkInv, NEW g \in Goroutine, PopScope(g)
  PROVE  LinkInv'
<1>1. Running(g) /\ UNCHANGED taskVars
  BY DEF PopScope
<1>2. CASE Top(g).st \in {"run", "tail"} /\ BeginJoin(g, Top(g), "pop", "val")
  BY <1>1, <1>2, BeginJoinLink
<1>3. CASE Top(g).st \in {"run", "tail"} /\ BeginJoin(g, Top(g), "pop", Top(g).cur)
  BY <1>1, <1>3, BeginJoinLink
<1>4. CASE Top(g).st \in {"run", "tail"} /\ RecurPop(g, Top(g))
  BY <1>1, <1>4, RecurPopLink
<1> QED BY <1>2, <1>3, <1>4 DEF PopScope, Step, Instr

LEMMA RecurScopeLeftLink ==
  ASSUME IInv, IInv', LinkInv, NEW g \in Goroutine, RecurScopeLeft(g)
  PROVE  LinkInv'
<1> DEFINE f == Top(g)
<1>1. Running(g) /\ f.st = "defers" /\ UNCHANGED taskVars
  BY DEF RecurScopeLeft, Step
<1>2. f \in FrameRec(spawned) /\ FrameSt(f) /\ Held(g, f) /\ Blamed(f)
  BY <1>1, TopGood
<1>3. CASE f.cur = "recur"
  <2>1. Migrate(g, f)
    BY <1>3 DEF RecurScopeLeft
  <2>2. f.todo = <<>>
    BY <1>1, <1>2 DEF FrameSt
  <2> QED BY <1>1, <1>2, <1>3, <2>1, <2>2, MigrateLink
<1>4. CASE f.cur # "recur"
  <2> DEFINE open == f.open - 1
             new == [f EXCEPT !.st = "tail", !.goal = "none", !.open = open]
  <2>1. SetTop(g, new) /\ UNCHANGED stackVars
    BY <1>4 DEF RecurScopeLeft
  <2> HIDE DEF open
  <2>2. new.kind = f.kind /\ FrameSt(new) /\ Held(g, new) /\ Blamed(new)
    BY <1>1, <1>2 DEF FrameRec, FrameSt, Held, Blamed
  <2> HIDE DEF new
  <2> QED BY <1>1, <2>1, <2>2, LinkFrame DEF stackVars, taskVars
<1> QED BY <1>3, <1>4

LEMMA UnwindScopeLink ==
  ASSUME IInv, IInv', LinkInv, NEW g \in Goroutine, UnwindScope(g)
  PROVE  LinkInv'
<1> DEFINE f == Top(g)
<1>1. Running(g) /\ f.st = "unwind" /\ UNCHANGED taskVars
  BY DEF UnwindScope, Step
<1>2. f \in FrameRec(spawned) /\ FrameSt(f) /\ Held(g, f) /\ Blamed(f)
  BY <1>1, TopGood
<1>3. CASE BeginJoin(g, f, "unwind", f.cur)
  BY <1>1, <1>3, BeginJoinLink
<1>4. CASE SetTop(g, [f EXCEPT !.st = "join", !.goal = "unwind"]) /\ UNCHANGED stackVars
  <2> DEFINE new == [f EXCEPT !.st = "join", !.goal = "unwind"]
  <2>1. SetTop(g, new) /\ <<>> \in Seq(Mine(g))
    BY <1>4, EmptySeq
  <2>2. new.kind = f.kind /\ FrameSt(new) /\ Held(g, new) /\ Blamed(new)
    BY <1>1, <1>2, <2>1 DEF FrameRec, FrameSt, Held, Blamed
  <2> HIDE DEF new
  <2> QED BY <1>1, <1>4, <2>1, <2>2, LinkFrame DEF stackVars, taskVars
<1> QED BY <1>3, <1>4 DEF UnwindScope

LEMMA EnterScopeLink ==
  ASSUME IInv, IInv', LinkInv, NEW g \in Goroutine, Running(g), Top(g).st \in {"enter", "run"},
         NEW arg, EnterScope(g, Top(g), arg)
  PROVE  LinkInv'
<1> DEFINE f == Top(g)
           open == f.open + 1
           env == f.env + 1
           defers == Append(f.defers, <<>>)
           carry == IF arg = 0 THEN f.carry ELSE <<>>
           new == [f EXCEPT !.st = "run", !.open = open, !.env = env, !.defers = defers,
                            !.carry = carry]
           hs == IF arg = 0 THEN <<>> ELSE f.carry
           scope == [nursery |-> arg # 0, hs |-> hs]
           scopes == Append(taskScopes[g], scope)
<1>1. SetTop(g, new) /\ taskScopes' = [taskScopes EXCEPT ![g] = scopes] /\ UNCHANGED taskVars
  BY DEF EnterScope, Entered
<1>2. f \in FrameRec(spawned) /\ FrameSt(f) /\ Held(g, f) /\ Blamed(f)
      /\ taskScopes[g] \in Seq(ScopeHeld(g))
  BY TopGood
<1>3. hs \in Seq(Mine(g)) /\ carry \in Seq(Mine(g))
  BY <1>2, EmptySeq DEF Held
<1>4. scopes \in Seq(ScopeHeld(g))
  <2>1. scope \in ScopeHeld(g)
    <3> HIDE DEF hs
    <3> QED BY <1>3 DEF ScopeHeld
  <2> HIDE DEF scope
  <2> QED BY <1>2, <2>1, StackPush
<1> HIDE DEF open, env, defers, carry, scopes
<1>5. new.kind = f.kind /\ FrameSt(new) /\ Held(g, new) /\ Blamed(new)
  BY <1>2, <1>3 DEF FrameRec, FrameSt, Held, Blamed
<1>6. Cause => Cause'
  BY <1>1 DEF Cause, taskVars
<1> HIDE DEF new
<1> QED BY <1>1, <1>4, <1>5, <1>6, LinkTop DEF taskVars

LEMMA PushScopeLink ==
  ASSUME IInv, IInv', LinkInv, NEW g \in Goroutine, PushScope(g) \/ EnterFunction(g)
  PROVE  LinkInv'
BY EnterScopeLink DEF PushScope, EnterFunction, Instr, Step

----------------------------------------------------------------------------
(* Calls, returns and tasks *)

\* A new frame has nothing to join.
LEMMA NewFrameGood ==
  ASSUME IInv, NEW k, NEW kind \in {"body", "fn", "defer"}, NEW mode \in Mode,
         NEW arg \in ScopeArg, NEW td \in Nat, NEW ld \in Nat
  PROVE  NewFrame(kind, mode, arg, td, ld) \in GoodFrame(k)
<1> DEFINE f == NewFrame(kind, mode, arg, td, ld)
<1>1. f \in FrameUpTo(spawned)
  BY NewFrameType, ExecutorAssumption DEF IInv, TasksOK
<1>2. <<>> \in Seq(Mine(k))
  BY EmptySeq
<1>3. f.st \in {"enter", "run"} /\ f.goal = "none" /\ f.cur = "val" /\ f.todo = <<>> /\ f.carry = <<>>
  BY DEF NewFrame
<1> HIDE DEF f
<1>4. FrameSt(f) /\ Held(k, f) /\ Blamed(f)
  BY <1>2, <1>3 DEF FrameSt, Held, Blamed
<1> QED BY <1>1, <1>4 DEF GoodFrame, f

LEMMA CallLink ==
  ASSUME IInv, IInv', LinkInv, NEW g \in Goroutine, Call(g)
  PROVE  LinkInv'
<1>1. Running(g) /\ Top(g).st = "run" /\ UNCHANGED <<stackVars, taskVars>>
  BY DEF Call, Instr, Step
<1>2. PICK arg \in ScopeArg : PushFrame(g, Callee(g, "fn", "always", arg))
  BY DEF Call, NurseryArg, ScopeArg
<1> DEFINE callee == Callee(g, "fn", "always", arg)
           stack == Append(frames[g], callee)
<1>3. callee \in GoodFrame(g) /\ callee.kind = "fn"
  <2>1. Len(taskScopes[g]) \in Nat /\ Len(taskLimits[g]) \in Nat
    BY <1>1, TopType, LenProperties
  <2>2. callee \in GoodFrame(g)
    BY <2>1, NewFrameGood DEF Callee, Mode
  <2> QED BY <2>2 DEF Callee, NewFrame
<1>4. frames[g] \in Seq(GoodFrame(g)) /\ Linked(frames[g]) /\ taskScopes[g] \in Seq(ScopeHeld(g))
  BY <1>1, TopGood
<1> HIDE DEF callee
<1>5. stack \in Seq(GoodFrame(g)) /\ Linked(stack)
  BY <1>1, <1>3, <1>4, StackPush, LinkedPush DEF CallerSt, Top
<1>6. frames' = [frames EXCEPT ![g] = stack] /\ taskScopes' = [taskScopes EXCEPT ![g] = taskScopes[g]]
  BY <1>1, <1>2 DEF PushFrame, IInv, ScopesOK, stackVars, callee
<1>7. Cause => Cause'
  BY <1>1 DEF Cause, taskVars
<1> HIDE DEF stack
<1> QED BY <1>1, <1>4, <1>5, <1>6, <1>7, LinkStep DEF taskVars

LEMMA RunDeferredLink ==
  ASSUME IInv, IInv', LinkInv, NEW g \in Goroutine, RunDeferred(g)
  PROVE  LinkInv'
<1> DEFINE f == Top(g)
           mode == Last(f.entries)
           front == Front(f.entries)
           rest == [f EXCEPT !.entries = front]
           callee == Callee(g, "defer", mode, 0)
           below == Append(Front(frames[g]), rest)
           stack == Append(below, callee)
<1>1. Running(g) /\ f.st = "defers" /\ f.entries # <<>> /\ UNCHANGED <<stackVars, taskVars>>
  BY DEF RunDeferred, Step
<1>2. f \in FrameRec(spawned) /\ FrameSt(f) /\ Held(g, f) /\ Blamed(f)
  BY <1>1, TopGood
<1>3. mode \in Mode /\ front \in Seq(Mode)
  BY <1>1, <1>2, StackTop DEF FrameRec
<1>4. rest.kind = f.kind /\ rest.st = "defers" /\ FrameSt(rest) /\ Held(g, rest) /\ Blamed(rest)
  <2> HIDE DEF front
  <2> QED BY <1>1, <1>2 DEF FrameRec, FrameSt, Held, Blamed
<1>5. CASE SetTop(g, rest)
  <2> HIDE DEF rest
  <2> QED BY <1>1, <1>4, <1>5, LinkFrame DEF stackVars, taskVars
<1>6. CASE frames' = [frames EXCEPT ![g] = stack]
  <2>1. rest \in GoodFrame(g)
    <3>1. f \in FrameUpTo(spawned)
      BY <1>1, TopType
    <3>2. rest \in FrameUpTo(spawned)
      <4> HIDE DEF front
      <4> QED BY <1>2, <1>3, <3>1 DEF FrameUpTo, FrameRec
    <3> HIDE DEF rest
    <3> QED BY <1>4, <3>2 DEF GoodFrame
  <2>2. callee \in GoodFrame(g)
    <3>1. Len(taskScopes[g]) \in Nat /\ Len(taskLimits[g]) \in Nat /\ 0 \in ScopeArg
      BY <1>1, TopType, LenProperties DEF ScopeArg
    <3> HIDE DEF mode
    <3> QED BY <1>3, <3>1, NewFrameGood DEF Callee
  <2>3. callee.kind = "defer"
    BY DEF Callee, NewFrame
  <2> HIDE DEF callee, rest
  <2>4. frames[g] # <<>> /\ frames[g] \in Seq(GoodFrame(g)) /\ Linked(frames[g])
        /\ taskScopes[g] \in Seq(ScopeHeld(g))
    BY <1>1, TopGood
  <2>5. below \in Seq(GoodFrame(g)) /\ Linked(below) /\ Last(below) = rest
    BY <1>4, <2>1, <2>4, StackTop, StackPush, LinkedTop DEF Top
  <2> HIDE DEF below
  <2>6. stack \in Seq(GoodFrame(g)) /\ Linked(stack)
    BY <1>4, <2>2, <2>3, <2>5, StackPush, LinkedPush DEF CallerSt
  <2>7. taskScopes' = [taskScopes EXCEPT ![g] = taskScopes[g]]
    BY <1>1 DEF IInv, ScopesOK, stackVars
  <2>8. Cause => Cause'
    BY <1>1 DEF Cause, taskVars
  <2> HIDE DEF stack
  <2> QED BY <1>1, <1>6, <2>4, <2>6, <2>7, <2>8, LinkStep DEF taskVars
<1> QED BY <1>5, <1>6 DEF RunDeferred

\* A caller takes a result up where it waited for it.
LEMMA ReturnedGood ==
  ASSUME NEW n, NEW g, NEW c \in FrameRec(n), FrameSt(c), Held(g, c), Blamed(c),
         NEW f, c.st = CallerSt(f), NEW r, r = "cancel" => Cause
  PROVE  /\ Returned(c, f, r).kind = c.kind
         /\ FrameSt(Returned(c, f, r)) /\ Held(g, Returned(c, f, r)) /\ Blamed(Returned(c, f, r))
<1> DEFINE new == Returned(c, f, r)
           cur == DeferOutcome(c.cur, f.mode, r)
<1>1. cur = c.cur \/ cur = r
  BY DEF DeferOutcome
<1>2. CASE f.kind = "defer" /\ new = [c EXCEPT !.cur = cur]
  <2> HIDE DEF cur, new
  <2>1. new.cur = cur /\ new.st = c.st /\ new.goal = c.goal /\ new.todo = c.todo
        /\ new.carry = c.carry /\ new.kind = c.kind
    BY <1>2 DEF FrameRec
  <2> QED BY <1>1, <2>1 DEF FrameSt, Held, Blamed, new
<1>3. CASE f.kind # "defer" /\ new = [c EXCEPT !.st = "unwind", !.cur = r]
  <2> HIDE DEF new
  <2>1. new.cur = r /\ new.st = "unwind" /\ new.goal = c.goal /\ new.todo = c.todo
        /\ new.carry = c.carry /\ new.kind = c.kind
    BY <1>3 DEF FrameRec
  <2>2. c.st = "run"
    BY <1>3 DEF CallerSt
  <2> QED BY <2>1, <2>2 DEF FrameSt, Held, Blamed, new
<1>4. CASE new = c
  BY <1>4
<1> QED BY <1>2, <1>3, <1>4 DEF Returned

LEMMA LeaveLink ==
  ASSUME IInv, IInv', LinkInv, NEW g \in Goroutine, Running(g), NEW r, r = "cancel" => Cause,
         Leave(g, r), UNCHANGED <<stackVars, spawned, result, spawner, owned>>
  PROVE  LinkInv'
<1> DEFINE rest == Front(frames[g])
           f == Top(g)
<1>1. /\ frames[g] # <<>> /\ frames[g] \in Seq(GoodFrame(g)) /\ Linked(frames[g])
      /\ taskScopes[g] \in Seq(ScopeHeld(g))
  BY TopGood
<1>2. rest \in Seq(GoodFrame(g)) /\ Linked(rest) /\ (rest # <<>> => Last(rest).st = CallerSt(f))
  BY <1>1, StackTop, LinkedPop DEF Top
<1>3. taskScopes' = [taskScopes EXCEPT ![g] = taskScopes[g]]
  BY DEF IInv, ScopesOK, stackVars
<1>4. Cause => Cause'
  BY DEF Cause
<1>5. CASE rest = <<>>
  <2>1. frames' = [frames EXCEPT ![g] = <<>>] /\ out' = [out EXCEPT ![g] = r]
    BY <1>5 DEF Leave
  <2>2. <<>> \in Seq(GoodFrame(g)) /\ Linked(<<>>)
    BY EmptySeq DEF Linked
  <2>3. \A k \in Goroutine : out'[k] = "cancel" => out[k] = "cancel" \/ Cause
    BY <2>1 DEF IInv, TasksOK
  <2> QED BY <1>1, <1>3, <1>4, <2>1, <2>2, <2>3, LinkStep
<1>6. CASE rest # <<>>
  <2> DEFINE c == Last(rest)
             new == Returned(c, f, r)
             stack == Append(Front(rest), new)
  <2>1. frames' = [frames EXCEPT ![g] = stack] /\ UNCHANGED out
    BY <1>6 DEF Leave
  <2>2. c \in GoodFrame(g) /\ c.st = CallerSt(f)
    <3> HIDE DEF rest
    <3> QED BY <1>2, <1>6, StackTop
  <2>3. new.kind = c.kind /\ FrameSt(new) /\ Held(g, new) /\ Blamed(new)
    <3> HIDE DEF c, f
    <3> QED BY <2>2, ReturnedGood DEF GoodFrame, FrameUpTo
  <2> HIDE DEF c, new, rest
  <2>4. Front(rest) \in Seq(GoodFrame(g))
    BY <1>2, <1>6, StackTop
  <2>5. new \in GoodFrame(g)
    <3>1. frames'[g] = stack
      BY <2>1 DEF IInv, FramesOK
    <3>2. stack \in Seq(FrameUpTo(spawned))
      BY <3>1 DEF IInv, FramesOK
    <3>3. stack # <<>> /\ Last(stack) = new
      BY <2>4, LenProperties, EmptySeq DEF Last
    <3>4. new \in FrameUpTo(spawned)
      <4> HIDE DEF stack
      <4> QED BY <3>2, <3>3, StackTop
    <3> QED BY <2>3, <3>4 DEF GoodFrame
  <2>6. stack \in Seq(GoodFrame(g)) /\ Linked(stack)
    BY <1>2, <1>6, <2>3, <2>4, <2>5, StackPush, LinkedTop DEF c
  <2> HIDE DEF stack
  <2> QED BY <1>1, <1>3, <1>4, <2>1, <2>6, LinkStep
<1> QED BY <1>5, <1>6

LEMMA FrameReturnsLink ==
  ASSUME IInv, IInv', LinkInv, NEW g \in Goroutine, FrameReturns(g) \/ Fault(g)
  PROVE  LinkInv'
<1> DEFINE f == Top(g)
<1>1. Running(g) /\ UNCHANGED <<stackVars, spawned, result, spawner, owned>>
  BY DEF FrameReturns, Fault, Instr, Step
<1>2. f \in FrameRec(spawned) /\ FrameSt(f) /\ Held(g, f) /\ Blamed(f)
  BY <1>1, TopGood
<1>3. CASE FrameReturns(g) /\ f.kind = "fn" /\ f.cur = "recur"
  <2> DEFINE iter == f.iter + 1
             open == 0
             new == [f EXCEPT !.st = "enter", !.cur = "val", !.open = open, !.iter = iter]
  <2>1. SetTop(g, new) /\ UNCHANGED out /\ f.st = "unwind"
    BY <1>3 DEF FrameReturns, Step
  <2> HIDE DEF iter, open
  <2>2. new.kind = f.kind /\ FrameSt(new) /\ Held(g, new) /\ Blamed(new)
    BY <1>2, <2>1 DEF FrameRec, FrameSt, Held, Blamed
  <2> HIDE DEF new
  <2> QED BY <1>1, <2>1, <2>2, LinkFrame DEF stackVars
<1>4. CASE FrameReturns(g) /\ ~(f.kind = "fn" /\ f.cur = "recur")
  <2>1. PICK r \in Results(f) : Leave(g, r)
    BY <1>4 DEF FrameReturns
  <2>2. r = "cancel" => Cause
    BY <1>2, <2>1 DEF Results, Blamed
  <2> QED BY <1>1, <2>1, <2>2, LeaveLink
<1>5. CASE Fault(g)
  <2>1. Leave(g, "fault")
    BY <1>5 DEF Fault
  <2> QED BY <1>1, <2>1, LeaveLink
<1> QED BY <1>3, <1>4, <1>5

\* A new task has no frames, no scopes and no list yet, and its handle is new.
LEMMA StartTaskLink ==
  ASSUME IInv, IInv', LinkInv, NEW g \in Goroutine, StartTask(g)
  PROVE  LinkInv'
<1> DEFINE h == spawned + 1
           old == Last(frames[g])
           top == [old EXCEPT !.st = "run"]
           caller == Append(Front(frames[g]), top)
           adopts == ownerIdx(taskScopes[g]) # 0
           scopes == AdoptAll(taskScopes[g], <<h>>)
<1>1. /\ Running(g) /\ Top(g).st = "spawn" /\ spawned < MaxTask
      /\ taskScopes' = [taskScopes EXCEPT ![g] = scopes]
      /\ spawned' = h
      /\ spawner' = [spawner EXCEPT ![h] = g]
      /\ owned' = IF adopts THEN owned \cup {h} ELSE owned
      /\ UNCHANGED <<result, out>>
  BY DEF StartTask, Step
<1>2. PICK kind \in {"body", "fn"} :
        frames' = [frames EXCEPT ![g] = caller, ![h] = << NewFrame(kind, "always", 0, 0, 0) >>]
  <2>1. PICK kind \in {"body"} \cup (IF "spawnBlock" \in Ops THEN {"fn"} ELSE {}) :
          frames' = [frames EXCEPT
             ![g] = Append(Front(@), [Last(@) EXCEPT !.st = "run"]),
             ![h] = << NewFrame(kind, "always", 0, 0, 0) >>]
    BY DEF StartTask
  <2> QED BY <2>1
<1> DEFINE body == NewFrame(kind, "always", 0, 0, 0)
<1>3. /\ spawned \in Nat /\ h \in Handle /\ h \in Goroutine /\ h # g
      /\ spawned' \in Nat /\ spawned <= spawned'
  <2>1. spawned \in Nat /\ h \in Handle /\ h \in Goroutine
    BY <1>1, TopType, ExecutorAssumption DEF Handle, Goroutine
  <2>2. h # g
    BY <1>1, <2>1 DEF IInv, TasksOK, Running
  <2> QED BY <1>1, <2>1, <2>2
<1>4. spawner \in [Handle -> Goroutine] /\ owned \subseteq Handle /\ h \notin owned
      /\ owned \subseteq 1 .. spawned
  BY <1>3 DEF IInv, TasksOK, LinkInv
<1> HIDE DEF h, adopts
<1>5. /\ \A k \in Goroutine : Mine(k) \subseteq Mine(k)'
      /\ adopts => h \in Mine(g)'
      /\ owned \subseteq owned'
  BY <1>1, <1>3, <1>4 DEF Mine
<1>6. Cause => Cause'
  BY <1>1, <1>5 DEF Cause
<1>7. \A k \in Goroutine : /\ GoodFrame(k) \subseteq GoodFrame(k)'
                           /\ ScopeHeld(k) \subseteq ScopeHeld(k)'
  BY <1>3, <1>5, <1>6, GoodKept
<1>8. \A k \in Goroutine : /\ Seq(GoodFrame(k)) \subseteq Seq(GoodFrame(k)')
                           /\ Seq(ScopeHeld(k)) \subseteq Seq(ScopeHeld(k)')
  BY <1>7, SeqMonotonic
<1>9. StackGood(g)'
  <2>1. frames[g] # <<>> /\ frames[g] \in Seq(GoodFrame(g)) /\ Linked(frames[g])
        /\ taskScopes[g] \in Seq(ScopeHeld(g))
    BY <1>1, TopGood
  <2>2. top \in GoodFrame(g) /\ top.kind = old.kind
    <3>1. old \in FrameRec(spawned) /\ old \in FrameUpTo(spawned) /\ FrameSt(old) /\ Held(g, old)
          /\ Blamed(old) /\ old.st = "spawn"
      BY <1>1, TopType, TopGood DEF Top
    <3> HIDE DEF old
    <3>2. top \in FrameUpTo(spawned)
      BY <3>1 DEF FrameUpTo, FrameRec, State
    <3>3. top.kind = old.kind /\ FrameSt(top) /\ Held(g, top) /\ Blamed(top)
      BY <3>1 DEF FrameRec, FrameSt, Held, Blamed
    <3> HIDE DEF top
    <3> QED BY <3>2, <3>3 DEF GoodFrame
  <2> HIDE DEF top
  <2>3. caller \in Seq(GoodFrame(g)) /\ Linked(caller)
    BY <2>1, <2>2, StackTop, StackPush, LinkedTop
  <2>4. scopes \in Seq(ScopeHeld(g)')
    <3>1. adopts => <<h>> \in Seq(Mine(g)')
      BY <1>5
    <3>2. taskScopes[g] \in Seq([nursery : BOOLEAN, hs : Seq(Mine(g)')])
      BY <1>8, <2>1 DEF ScopeHeld
    <3>3. scopes \in Seq([nursery : BOOLEAN, hs : Seq(Mine(g)')])
      BY <3>1, <3>2, AdoptAllHeld DEF adopts
    <3> QED BY <3>3 DEF ScopeHeld
  <2> HIDE DEF caller, scopes
  <2>5. frames'[g] = caller /\ taskScopes'[g] = scopes
    BY <1>1, <1>2, <1>3 DEF IInv, FramesOK, ScopesOK
  <2>6. Linked(frames[g])'
    BY <2>3, <2>5 DEF Linked
  <2> QED BY <1>8, <2>3, <2>4, <2>5, <2>6 DEF StackGood
<1>10. ASSUME NEW k \in Goroutine, k # g PROVE StackGood(k)'
  <2> HIDE DEF caller, body
  <2>1. frames[k] \in Seq(GoodFrame(k)) /\ Linked(frames[k]) /\ taskScopes[k] \in Seq(ScopeHeld(k))
    BY DEF LinkInv, StackGood
  <2>2. taskScopes'[k] = taskScopes[k]
    BY <1>1, <1>10 DEF IInv, ScopesOK
  <2>3. frames'[k] \in Seq(GoodFrame(k)) /\ Linked(frames'[k])
    <3>1. CASE k # h
      <4>1. frames'[k] = frames[k]
        BY <1>2, <1>10, <3>1 DEF IInv, FramesOK
      <4> QED BY <2>1, <4>1
    <3>2. CASE k = h
      <4>1. frames'[k] = <<body>>
        BY <1>2, <1>3, <3>2 DEF IInv, FramesOK, body
      <4>2. body \in GoodFrame(k)
        BY NewFrameGood DEF Mode, ScopeArg, body
      <4>3. <<body>> \in Seq(GoodFrame(k)) /\ Len(<<body>>) = 1
        BY <4>2
      <4> QED BY <4>1, <4>3 DEF Linked
    <3> QED BY <3>1, <3>2
  <2>4. Linked(frames[k])'
    BY <2>3 DEF Linked
  <2> QED BY <1>8, <2>1, <2>2, <2>3, <2>4 DEF StackGood
<1>11. owned' \subseteq 1 .. spawned'
  BY <1>1, <1>3, <1>4 DEF h
<1>12. /\ \A k \in Goroutine : out'[k] = "cancel" => Cause'
       /\ \A k \in Handle : result'[k] = "cancel" => Cause'
  BY <1>1, <1>6 DEF LinkInv
<1> QED BY <1>9, <1>10, <1>11, <1>12 DEF LinkInv

LEMMA TaskEndsLink ==
  ASSUME IInv, IInv', LinkInv, NEW h \in Handle, TaskEnds(h)
  PROVE  LinkInv'
<1>1. UNCHANGED <<frames, stackVars, spawned, out, spawner, owned>>
  BY DEF TaskEnds, TaskCompletes, TaskReleases
<1>2. h \in Goroutine
  BY DEF Handle, Goroutine
<1>3. /\ frames' = [frames EXCEPT ![h] = frames[h]]
      /\ taskScopes' = [taskScopes EXCEPT ![h] = taskScopes[h]]
  BY <1>1 DEF IInv, FramesOK, ScopesOK, stackVars
<1>4. /\ frames[h] \in Seq(GoodFrame(h)) /\ Linked(frames[h])
      /\ taskScopes[h] \in Seq(ScopeHeld(h)) /\ (out[h] = "cancel" => Cause)
  BY <1>2 DEF LinkInv, StackGood
<1>5. /\ Cause => Cause'
      /\ \A k \in Handle : result'[k] = "cancel" => result[k] = "cancel" \/ Cause
  <2>1. CASE TaskCompletes(h)
    <3>1. Complete(h, out[h])
      BY <2>1 DEF TaskCompletes
    <3>2. /\ Cause => Cause'
          /\ \A k \in Handle : result'[k] # result[k] => k = h /\ result'[k] = out[h]
      BY <1>1, <3>1, CompleteKeepsCause
    <3> QED BY <1>4, <3>2
  <2>2. CASE TaskReleases(h)
    BY <1>1, <2>2 DEF TaskReleases, Cause
  <2> QED BY <2>1, <2>2 DEF TaskEnds
<1> QED BY <1>1, <1>2, <1>3, <1>4, <1>5, LinkStep

LEMMA StutterLink == IInv /\ LinkInv /\ UNCHANGED vars => LinkInv'
<1> SUFFICES ASSUME IInv, LinkInv, UNCHANGED vars PROVE LinkInv'
  OBVIOUS
<1>1. 0 \in Goroutine
  BY ExecutorAssumption DEF Goroutine
<1>2. /\ frames' = [frames EXCEPT ![0] = frames[0]]
      /\ taskScopes' = [taskScopes EXCEPT ![0] = taskScopes[0]]
  BY DEF IInv, FramesOK, ScopesOK, vars
<1>3. frames[0] \in Seq(GoodFrame(0)) /\ Linked(frames[0]) /\ taskScopes[0] \in Seq(ScopeHeld(0))
  BY <1>1 DEF LinkInv, StackGood
<1>4. Cause => Cause'
  BY DEF Cause, vars
<1> QED BY <1>1, <1>2, <1>3, <1>4, LinkStep DEF vars

----------------------------------------------------------------------------
(* Cancellations *)

LEMMA InitLink == Init => LinkInv
<1> SUFFICES ASSUME Init PROVE LinkInv
  OBVIOUS
<1>1. IInv
  BY InitIInv
<1> DEFINE body == NewFrame("body", "always", 0, 0, 0)
<1>2. /\ frames = [k \in Goroutine |-> IF k = 0 THEN <<body>> ELSE <<>>]
      /\ taskScopes = [k \in Goroutine |-> <<>>] /\ owned = {} /\ spawned = 0
      /\ out = [k \in Goroutine |-> "val"] /\ result = [k \in Handle |-> "open"]
  BY DEF Init
<1>3. \A k \in Goroutine : body \in GoodFrame(k)
  BY <1>1, NewFrameGood DEF Mode, ScopeArg
<1> HIDE DEF body
<1>4. ASSUME NEW k \in Goroutine PROVE StackGood(k)
  <2>1. frames[k] \in Seq(GoodFrame(k)) /\ (Len(frames[k]) = 1 \/ frames[k] = <<>>)
    BY <1>2, <1>3, EmptySeq
  <2>2. Linked(frames[k])
    BY <2>1 DEF Linked
  <2>3. taskScopes[k] \in Seq(ScopeHeld(k))
    BY <1>2, EmptySeq
  <2> QED BY <2>1, <2>2, <2>3 DEF StackGood
<1> QED BY <1>2, <1>4 DEF LinkInv

LEMMA NextLink == IInv /\ IInv' /\ LinkInv /\ [Next]_vars => LinkInv'
<1> SUFFICES ASSUME IInv, IInv', LinkInv, [Next]_vars PROVE LinkInv'
  OBVIOUS
<1>1. ASSUME NEW g \in Goroutine, Instruction(g) PROVE LinkInv'
  BY <1>1, PushScopeLink, DeferLink, CallLink, SpawnLink, AwaitLink, UnwindLink,
     FrameReturnsLink DEF Instruction
<1>2. ASSUME NEW g \in Goroutine, Progress(g) PROVE LinkInv'
  BY <1>2, PushScopeLink, StartTaskLink, AwaitReturnsLink, PopScopeLink, JoinHandleLink,
     CancelSiblingLink, JoinedLink, RunDeferredLink, ScopeLeftLink, RecurScopeLeftLink,
     UnwindScopeLink, ScopeUnwoundLink, FrameReturnsLink DEF Progress
<1>3. ASSUME NEW h \in Handle, TaskEnds(h) PROVE LinkInv'
  BY <1>3, TaskEndsLink
<1>4. CASE Exited \/ UNCHANGED vars
  BY <1>4, StutterLink DEF Exited
<1> QED BY <1>1, <1>2, <1>3, <1>4 DEF Next

\* Every list of handles holds only handles that nurseries of its own
\* goroutine adopted, and a caller waits where it made the call.
THEOREM ListsAreLocal == Spec => [](IInv /\ LinkInv)
<1>1. Init => IInv /\ LinkInv
  BY InitIInv, InitLink
<1>2. IInv /\ LinkInv /\ [Next]_vars => (IInv /\ LinkInv)'
  BY NextIInv, NextLink
<1> QED BY <1>1, <1>2, PTL DEF Spec

\* executeTaskHandlesInCurrentScope cancels siblings only after one of them
\* has failed, and an error that is handed on is never taken for a failure of
\* the one who hands it on: every cancelled task has a task of a nursery, not
\* itself, that threw or faulted.
THEOREM CancelsAreCaused == Spec => []CancelHasCause
<1>1. LinkInv => CancelHasCause
  BY DEF LinkInv, CancelHasCause, Cause
<1> QED BY <1>1, ListsAreLocal, PTL

----------------------------------------------------------------------------
(* The lists of a goroutine *)

\* The handle lists of a goroutine by name: of its task scopes, of the scopes
\* its frames are leaving, and the ones its frames carry over a recur.
Key == {"scope", "todo", "carry"} \X (Nat \ {0})

ScopeAt(scopes, i) == IF i \in DOMAIN scopes THEN scopes[i].hs ELSE <<>>
TodoAt(stack, i) == IF i \in DOMAIN stack THEN Joining(stack[i]) ELSE <<>>
CarryAt(stack, i) == IF i \in DOMAIN stack THEN stack[i].carry ELSE <<>>

Kept(scopes, stack) ==
  [k \in Key |-> IF k[1] = "scope" THEN ScopeAt(scopes, k[2])
                 ELSE IF k[1] = "todo" THEN TodoAt(stack, k[2])
                 ELSE CarryAt(stack, k[2])]

\* No two positions of the lists have the same handle.
Distinct(L) ==
  \A a, b \in Key : \A i \in 1 .. Len(L[a]), j \in 1 .. Len(L[b]) :
    L[a][i] = L[b][j] => a = b /\ i = j

\* The lists of g now, and with another top frame and other task scopes.
Now(g) == Kept(taskScopes[g], frames[g])
After(g, f, scopes) == Kept(scopes, Append(Front(frames[g]), f))
Depth(g) == Len(frames[g])

KeepInv == \A g \in Goroutine : Distinct(Now(g))

----------------------------------------------------------------------------
(* What may happen to the lists *)

\* Lists are emptied.
LEMMA DropDistinct ==
  ASSUME NEW L, NEW M, Distinct(L), \A k \in Key : M[k] = L[k] \/ M[k] = <<>>
  PROVE  Distinct(M)
<1>1. \A k \in Key : \A i \in 1 .. Len(M[k]) : i \in 1 .. Len(L[k]) /\ M[k][i] = L[k][i]
  <2> SUFFICES ASSUME NEW k \in Key, NEW i \in 1 .. Len(M[k])
               PROVE  i \in 1 .. Len(L[k]) /\ M[k][i] = L[k][i]
    OBVIOUS
  <2>1. M[k] # <<>>
    BY EmptySeq
  <2> QED BY <2>1
<1> QED BY <1>1 DEF Distinct

\* The head of a list is taken off.
LEMMA TailDistinct ==
  ASSUME NEW S, NEW L \in [Key -> Seq(S)], NEW M, Distinct(L), NEW a \in Key, L[a] # <<>>,
         M[a] = Tail(L[a]), \A k \in Key \ {a} : M[k] = L[k]
  PROVE  Distinct(M)
<1>1. L[a] \in Seq(S) /\ Len(L[a]) \in Nat /\ Len(L[a]) >= 1
  BY LenProperties, EmptySeq
<1>2. /\ Len(M[a]) = Len(L[a]) - 1
      /\ \A i \in 1 .. Len(M[a]) : i + 1 \in 1 .. Len(L[a]) /\ M[a][i] = L[a][i + 1]
  BY <1>1, HeadTailProperties
<1> SUFFICES ASSUME NEW c \in Key, NEW d \in Key, NEW i \in 1 .. Len(M[c]), NEW j \in 1 .. Len(M[d]),
                    M[c][i] = M[d][j]
             PROVE  c = d /\ i = j
  BY DEF Distinct
<1> DEFINE At(k, n) == IF k = a THEN n + 1 ELSE n
<1>3. ASSUME NEW k \in Key, NEW n \in 1 .. Len(M[k])
      PROVE  At(k, n) \in 1 .. Len(L[k]) /\ M[k][n] = L[k][At(k, n)]
  BY <1>2
<1>4. /\ At(c, i) \in 1 .. Len(L[c]) /\ At(d, j) \in 1 .. Len(L[d])
      /\ L[c][At(c, i)] = L[d][At(d, j)]
  BY <1>3
<1>5. c = d /\ At(c, i) = At(d, j)
  <2> HIDE DEF At
  <2> QED BY <1>4 DEF Distinct
<1> QED BY <1>5

\* List a is moved to the end of list b.
Moved(L, M, a, b) ==
  /\ M[a] = <<>> /\ M[b] = L[b] \o L[a]
  /\ \A k \in Key \ {a, b} : M[k] = L[k]

LEMMA MoveDistinct ==
  ASSUME NEW S, NEW L \in [Key -> Seq(S)], NEW M, Distinct(L), NEW a \in Key, NEW b \in Key, a # b,
         Moved(L, M, a, b)
  PROVE  Distinct(M)
<1> USE DEF Moved
<1> DEFINE n == Len(L[b])
<1>1. L[a] \in Seq(S) /\ L[b] \in Seq(S) /\ n \in Nat /\ Len(L[a]) \in Nat
  BY LenProperties
<1>2. Len(M[b]) = n + Len(L[a])
  BY <1>1, ConcatProperties
<1>3. /\ \A i \in 1 .. n : M[b][i] = L[b][i]
      /\ \A i \in 1 .. Len(M[b]) : i > n => i - n \in 1 .. Len(L[a]) /\ M[b][i] = L[a][i - n]
  BY <1>1, <1>2, ConcatProperties
<1>4. ASSUME NEW c \in Key, NEW i \in 1 .. Len(M[c])
      PROVE  \/ c # a /\ i \in 1 .. Len(L[c]) /\ M[c][i] = L[c][i]
             \/ c = b /\ i > n /\ i - n \in 1 .. Len(L[a]) /\ M[c][i] = L[a][i - n]
  <2>1. c # a
    BY EmptySeq
  <2>2. CASE c = b /\ i > n
    BY <1>3, <2>2
  <2>3. CASE c = b /\ ~(i > n)
    BY <1>1, <1>2, <1>3, <2>1, <2>3
  <2>4. CASE c # b
    BY <2>1, <2>4
  <2> QED BY <2>2, <2>3, <2>4
<1> HIDE DEF n
<1> SUFFICES ASSUME NEW c \in Key, NEW d \in Key, NEW i \in 1 .. Len(M[c]), NEW j \in 1 .. Len(M[d]),
                    M[c][i] = M[d][j]
             PROVE  c = d /\ i = j
  BY DEF Distinct
<1> HIDE DEF Moved
<1> DEFINE New(k, x) == k = b /\ x > n
           From(k, x) == IF New(k, x) THEN a ELSE k
           At(k, x) == IF New(k, x) THEN x - n ELSE x
<1>5. ASSUME NEW k \in Key, NEW x \in 1 .. Len(M[k])
      PROVE  /\ From(k, x) \in Key /\ At(k, x) \in 1 .. Len(L[From(k, x)])
             /\ M[k][x] = L[From(k, x)][At(k, x)]
             /\ From(k, x) = a <=> New(k, x)
  <2>1. CASE New(k, x)
    BY <1>3, <2>1
  <2>2. CASE ~New(k, x)
    BY <1>1, <1>4, <2>2
  <2> QED BY <2>1, <2>2
<1>6. From(c, i) = From(d, j) /\ At(c, i) = At(d, j)
  <2>1. /\ From(c, i) \in Key /\ At(c, i) \in 1 .. Len(L[From(c, i)])
        /\ From(d, j) \in Key /\ At(d, j) \in 1 .. Len(L[From(d, j)])
        /\ L[From(c, i)][At(c, i)] = L[From(d, j)][At(d, j)]
    BY <1>5
  <2> HIDE DEF From, At
  <2> QED BY <2>1 DEF Distinct
<1>7. New(c, i) <=> New(d, j)
  <2> HIDE DEF New, At
  <2> QED BY <1>5, <1>6
<1> QED BY <1>1, <1>6, <1>7

\* A new handle is added to the end of list b.
Added(L, M, b, h) == M[b] = L[b] \o <<h>> /\ \A k \in Key \ {b} : M[k] = L[k]

LEMMA AddDistinct ==
  ASSUME NEW S, NEW L \in [Key -> Seq(S)], NEW M, Distinct(L), NEW b \in Key, NEW h, h \notin S,
         Added(L, M, b, h)
  PROVE  Distinct(M)
<1> USE DEF Added
<1> DEFINE n == Len(L[b])
<1>1. L[b] \in Seq(S) /\ n \in Nat
  BY LenProperties
<1>2. /\ Len(M[b]) = n + 1 /\ M[b][n + 1] = h
      /\ \A i \in 1 .. n : M[b][i] = L[b][i]
  <2>1. L[b] \o <<h>> = Append(L[b], h)
    BY <1>1, AppendIsConcat
  <2>2. L[b] \in Seq(S \cup {h})
    BY <1>1, SeqMonotonic
  <2> QED BY <2>1, <2>2, StackPush
<1>3. \A k \in Key : \A i \in 1 .. Len(L[k]) : L[k][i] # h
  BY ElementOfSeq
<1> HIDE DEF n
<1>4. ASSUME NEW c \in Key, NEW i \in 1 .. Len(M[c])
      PROVE  \/ i \in 1 .. Len(L[c]) /\ M[c][i] = L[c][i]
             \/ c = b /\ i = n + 1 /\ M[c][i] = h
  <2>1. CASE c = b /\ i # n + 1
    <3>1. i \in 1 .. n
      BY <1>1, <1>2, <2>1
    <3> QED BY <1>2, <2>1, <3>1 DEF n
  <2>3. CASE c = b /\ i = n + 1
    BY <1>2, <2>3
  <2>2. CASE c # b
    BY <2>2
  <2> QED BY <2>1, <2>2, <2>3
<1> SUFFICES ASSUME NEW c \in Key, NEW d \in Key, NEW i \in 1 .. Len(M[c]), NEW j \in 1 .. Len(M[d]),
                    M[c][i] = M[d][j]
             PROVE  c = d /\ i = j
  BY DEF Distinct
<1>5. CASE i \in 1 .. Len(L[c]) /\ M[c][i] = L[c][i]
  <2>1. CASE j \in 1 .. Len(L[d]) /\ M[d][j] = L[d][j]
    <3>1. \A x \in 1 .. Len(L[c]), y \in 1 .. Len(L[d]) : L[c][x] = L[d][y] => c = d /\ x = y
      BY DEF Distinct
    <3>2. L[c][i] = L[d][j]
      BY <1>5, <2>1
    <3> QED BY ONLY <1>5, <2>1, <3>1, <3>2
  <2>2. CASE d = b /\ j = n + 1 /\ M[d][j] = h
    BY <1>3, <1>5, <2>2
  <2> QED BY <1>4, <2>1, <2>2
<1>6. CASE c = b /\ i = n + 1 /\ M[c][i] = h
  <2>1. CASE j \in 1 .. Len(L[d]) /\ M[d][j] = L[d][j]
    BY <1>3, <1>6, <2>1
  <2>2. CASE d = b /\ j = n + 1 /\ M[d][j] = h
    BY <1>6, <2>2
  <2> QED BY <1>4, <2>1, <2>2
<1> QED BY <1>4, <1>5, <1>6

----------------------------------------------------------------------------
(* The innermost nursery *)

\* A set of positions has a last one.
LEMMA LastPosition ==
  ASSUME NEW n \in Nat, NEW I \in SUBSET (1 .. n), I # {}
  PROVE  Max(I) \in I /\ \A x \in I : x <= Max(I)
<1> DEFINE U == {u \in Nat : \A x \in I : x <= u}
<1>1. U \in SUBSET Nat /\ U # {}
  BY n \in U
<1>2. PICK m \in U : \A u \in U : m <= u
  <2> DEFINE R == OpToRel(<, Nat)
  <2>1. IsWellFoundedOn(R, Nat)
    BY NatLessThanWellFounded
  <2>2. \A x, y \in Nat : x < y => <<x, y>> \in R
    BY DEF OpToRel
  <2> HIDE DEF R, U
  <2>3. PICK m \in U : \A u \in U : ~(<<u, m>> \in R)
    BY <1>1, <2>1, WFMin
  <2>4. \A u \in U : u \in Nat /\ m \in Nat /\ ~(u < m)
    BY <1>1, <2>2, <2>3
  <2>5. \A u \in U : m <= u
    BY <2>4
  <2> QED BY <2>5
<1>3. m \in I
  <2> SUFFICES ASSUME m \notin I PROVE FALSE
    OBVIOUS
  <2>1. m # 0
    <3>1. PICK x \in I : TRUE
      OBVIOUS
    <3> QED BY <1>2, <3>1
  <2>2. m - 1 \in Nat /\ \A x \in I : x <= m - 1
    BY <1>2, <2>1
  <2>3. m - 1 \in U
    BY <2>2
  <2> QED BY <1>2, <2>2, <2>3
<1>4. \E x \in I : \A y \in I : x >= y
  BY <1>2, <1>3
<1> HIDE DEF U
<1>5. Max(I) \in I /\ \A y \in I : Max(I) >= y
  BY <1>4 DEF Max
<1> QED BY <1>5

LEMMA OwnerIdx ==
  ASSUME NEW S, NEW scopes \in Seq(S)
  PROVE  /\ ownerIdx(scopes) \in 0 .. Len(scopes)
         /\ ownerIdx(scopes) # 0 => scopes[ownerIdx(scopes)].nursery
         /\ ownerIdx(scopes) = 0 => \A i \in 1 .. Len(scopes) : ~scopes[i].nursery
<1> DEFINE I == {i \in 1 .. Len(scopes) : scopes[i].nursery}
<1>1. ownerIdx(scopes) = IF I # {} THEN Max(I) ELSE 0
  BY DEF ownerIdx, SelectLastInSeq
<1>2. Len(scopes) \in Nat
  BY LenProperties
<1>3. CASE I = {}
  BY <1>1, <1>2, <1>3
<1>4. CASE I # {}
  <2>1. Max(I) \in I
    BY <1>2, <1>4, LastPosition
  <2>2. Max(I) \in 1 .. Len(scopes) /\ scopes[Max(I)].nursery
    BY <2>1
  <2> HIDE DEF I
  <2> QED BY <1>1, <1>2, <1>4, <2>2
<1> QED BY <1>3, <1>4

----------------------------------------------------------------------------
(* The lists, by position *)

LEMMA KeyParts ==
  /\ \A i \in Nat \ {0} : <<"scope", i>> \in Key /\ <<"todo", i>> \in Key /\ <<"carry", i>> \in Key
  /\ \A k \in Key : \E i \in Nat \ {0} : k = <<"scope", i>> \/ k = <<"todo", i>> \/ k = <<"carry", i>>
BY DEF Key

LEMMA KeptAt ==
  ASSUME NEW scopes, NEW stack
  PROVE  \A i \in Nat \ {0} : /\ Kept(scopes, stack)[<<"scope", i>>] = ScopeAt(scopes, i)
                              /\ Kept(scopes, stack)[<<"todo", i>>] = TodoAt(stack, i)
                              /\ Kept(scopes, stack)[<<"carry", i>>] = CarryAt(stack, i)
BY KeyParts DEF Kept

LEMMA KeptNow ==
  ASSUME NEW g
  PROVE  \A i \in Nat \ {0} :
           /\ Now(g)[<<"scope", i>>] = ScopeAt(taskScopes[g], i)
           /\ Now(g)[<<"todo", i>>] = TodoAt(frames[g], i)
           /\ Now(g)[<<"carry", i>>] = CarryAt(frames[g], i)
<1> DEFINE scopes == taskScopes[g]
           stack == frames[g]
<1> HIDE DEF scopes, stack
<1>1. \A i \in Nat \ {0} : /\ Kept(scopes, stack)[<<"scope", i>>] = ScopeAt(scopes, i)
                           /\ Kept(scopes, stack)[<<"todo", i>>] = TodoAt(stack, i)
                           /\ Kept(scopes, stack)[<<"carry", i>>] = CarryAt(stack, i)
  BY KeptAt
<1> QED BY <1>1 DEF Now, scopes, stack

LEMMA KeptType ==
  ASSUME NEW n, NEW scopes \in Seq(ScopeUpTo(n)), NEW stack \in Seq(FrameUpTo(n))
  PROVE  Kept(scopes, stack) \in [Key -> Seq(1 .. n)]
<1>1. <<>> \in Seq(1 .. n)
  BY EmptySeq
<1>2. \A i \in DOMAIN scopes : scopes[i].hs \in Seq(1 .. n)
  <2>1. \A i \in DOMAIN scopes : scopes[i] \in ScopeUpTo(n)
    BY LenProperties, ElementOfSeq
  <2> QED BY <2>1 DEF ScopeUpTo, HandleList
<1>3. \A f \in FrameUpTo(n) : f.todo \in Seq(1 .. n) /\ f.carry \in Seq(1 .. n)
  BY DEF FrameUpTo, FrameRec, HandleList
<1>4. \A i \in DOMAIN stack : stack[i] \in FrameUpTo(n)
  BY LenProperties, ElementOfSeq
<1>5. \A i : /\ ScopeAt(scopes, i) \in Seq(1 .. n)
             /\ TodoAt(stack, i) \in Seq(1 .. n)
             /\ CarryAt(stack, i) \in Seq(1 .. n)
  BY <1>1, <1>2, <1>3, <1>4 DEF ScopeAt, TodoAt, CarryAt, Joining
<1> QED BY <1>5 DEF Kept

\* The top frame is replaced, a frame is pushed, a frame is gone.
LEMMA TopLists ==
  ASSUME NEW S, NEW s \in Seq(S), s # <<>>, NEW f \in S
  PROVE  \A i \in Nat \ {0} :
           /\ TodoAt(Append(Front(s), f), i) = IF i = Len(s) THEN Joining(f) ELSE TodoAt(s, i)
           /\ CarryAt(Append(Front(s), f), i) = IF i = Len(s) THEN f.carry ELSE CarryAt(s, i)
<1> DEFINE t == Append(Front(s), f)
<1>1. /\ Len(s) \in Nat /\ Len(s) >= 1 /\ Front(s) \in Seq(S) /\ Len(Front(s)) = Len(s) - 1
      /\ \A i \in 1 .. Len(s) - 1 : Front(s)[i] = s[i]
  BY StackParts
<1>2. /\ t \in Seq(S) /\ Len(t) = Len(s) /\ t[Len(s)] = f
      /\ \A i \in 1 .. Len(s) - 1 : t[i] = s[i]
  BY <1>1, StackPush
<1>3. DOMAIN t = 1 .. Len(s) /\ DOMAIN s = 1 .. Len(s)
  BY <1>2, LenProperties
<1> HIDE DEF t
<1>4. \A i \in Nat \ {0} : \/ i = Len(s) /\ i \in DOMAIN t
                           \/ i # Len(s) /\ i \in DOMAIN t /\ i \in DOMAIN s /\ t[i] = s[i]
                           \/ i # Len(s) /\ i \notin DOMAIN t /\ i \notin DOMAIN s
  BY <1>1, <1>2, <1>3
<1> QED BY <1>2, <1>4 DEF TodoAt, CarryAt, t

LEMMA PushLists ==
  ASSUME NEW S, NEW s \in Seq(S), NEW f \in S
  PROVE  \A i \in Nat \ {0} :
           /\ TodoAt(Append(s, f), i) = IF i = Len(s) + 1 THEN Joining(f) ELSE TodoAt(s, i)
           /\ CarryAt(Append(s, f), i) = IF i = Len(s) + 1 THEN f.carry ELSE CarryAt(s, i)
<1> DEFINE t == Append(s, f)
<1>1. /\ Len(s) \in Nat /\ t \in Seq(S) /\ Len(t) = Len(s) + 1 /\ t[Len(s) + 1] = f
      /\ \A i \in 1 .. Len(s) : t[i] = s[i]
  BY StackPush
<1>2. DOMAIN t = 1 .. Len(s) + 1 /\ DOMAIN s = 1 .. Len(s)
  BY <1>1, LenProperties
<1> HIDE DEF t
<1>3. \A i \in Nat \ {0} : \/ i = Len(s) + 1 /\ i \in DOMAIN t
                           \/ i # Len(s) + 1 /\ i \in DOMAIN t /\ i \in DOMAIN s /\ t[i] = s[i]
                           \/ i # Len(s) + 1 /\ i \notin DOMAIN t /\ i \notin DOMAIN s
  BY <1>1, <1>2
<1> QED BY <1>1, <1>3 DEF TodoAt, CarryAt, t

LEMMA PopLists ==
  ASSUME NEW S, NEW s \in Seq(S), s # <<>>
  PROVE  \A i \in Nat \ {0} :
           /\ TodoAt(Front(s), i) = IF i = Len(s) THEN <<>> ELSE TodoAt(s, i)
           /\ CarryAt(Front(s), i) = IF i = Len(s) THEN <<>> ELSE CarryAt(s, i)
<1> DEFINE t == Front(s)
<1>1. /\ Len(s) \in Nat /\ Len(s) >= 1 /\ t \in Seq(S) /\ Len(t) = Len(s) - 1
      /\ \A i \in 1 .. Len(s) - 1 : t[i] = s[i]
  BY StackParts
<1>2. DOMAIN t = 1 .. Len(s) - 1 /\ DOMAIN s = 1 .. Len(s)
  BY <1>1, LenProperties
<1> HIDE DEF t
<1>3. \A i \in Nat \ {0} : \/ i = Len(s) /\ i \notin DOMAIN t
                           \/ i # Len(s) /\ i \in DOMAIN t /\ i \in DOMAIN s /\ t[i] = s[i]
                           \/ i # Len(s) /\ i \notin DOMAIN t /\ i \notin DOMAIN s
  BY <1>1, <1>2
<1> QED BY <1>1, <1>3 DEF TodoAt, CarryAt, t

\* A scope is pushed, popped, or given more handles.
LEMMA PushScopeLists ==
  ASSUME NEW S, NEW s \in Seq(S), NEW sc \in S
  PROVE  \A i \in Nat \ {0} :
           ScopeAt(Append(s, sc), i) = IF i = Len(s) + 1 THEN sc.hs ELSE ScopeAt(s, i)
<1> DEFINE t == Append(s, sc)
<1>1. /\ Len(s) \in Nat /\ t \in Seq(S) /\ Len(t) = Len(s) + 1 /\ t[Len(s) + 1] = sc
      /\ \A i \in 1 .. Len(s) : t[i] = s[i]
  BY StackPush
<1>2. DOMAIN t = 1 .. Len(s) + 1 /\ DOMAIN s = 1 .. Len(s)
  BY <1>1, LenProperties
<1> HIDE DEF t
<1>3. \A i \in Nat \ {0} : \/ i = Len(s) + 1 /\ i \in DOMAIN t
                           \/ i # Len(s) + 1 /\ i \in DOMAIN t /\ i \in DOMAIN s /\ t[i] = s[i]
                           \/ i # Len(s) + 1 /\ i \notin DOMAIN t /\ i \notin DOMAIN s
  BY <1>1, <1>2
<1> QED BY <1>1, <1>3 DEF ScopeAt, t

LEMMA PopScopeLists ==
  ASSUME NEW S, NEW s \in Seq(S)
  PROVE  /\ \A i \in Nat \ {0} :
              ScopeAt(Popped(s), i) = IF i = Len(s) THEN <<>> ELSE ScopeAt(s, i)
         /\ TopOr(s, NoScope).hs = IF s = <<>> THEN <<>> ELSE ScopeAt(s, Len(s))
         /\ s # <<>> => Len(s) \in Nat \ {0}
<1>1. CASE s = <<>>
  <2>1. DOMAIN s = {} /\ Popped(s) = s /\ TopOr(s, NoScope) = NoScope
    BY <1>1, EmptySeq, LenProperties DEF Popped, TopOr
  <2> QED BY <1>1, <2>1 DEF ScopeAt, NoScope
<1>2. CASE s # <<>>
  <2> DEFINE t == Front(s)
  <2>1. /\ Len(s) \in Nat /\ Len(s) >= 1 /\ t \in Seq(S) /\ Len(t) = Len(s) - 1
        /\ Last(s) = s[Len(s)]
        /\ \A i \in 1 .. Len(s) - 1 : t[i] = s[i]
    BY <1>2, StackParts
  <2>2. DOMAIN t = 1 .. Len(s) - 1 /\ DOMAIN s = 1 .. Len(s)
    BY <2>1, LenProperties
  <2>3. Popped(s) = t /\ TopOr(s, NoScope) = s[Len(s)] /\ Len(s) \in DOMAIN s
    BY <1>2, <2>1, <2>2 DEF Popped, TopOr
  <2> HIDE DEF t
  <2>4. \A i \in Nat \ {0} : \/ i = Len(s) /\ i \notin DOMAIN t
                             \/ i # Len(s) /\ i \in DOMAIN t /\ i \in DOMAIN s /\ t[i] = s[i]
                             \/ i # Len(s) /\ i \notin DOMAIN t /\ i \notin DOMAIN s
    BY <2>1, <2>2
  <2> QED BY <1>2, <2>1, <2>3, <2>4 DEF ScopeAt
<1> QED BY <1>1, <1>2

LEMMA AdoptLists ==
  ASSUME NEW n, NEW s \in Seq(ScopeUpTo(n)), NEW hs
  PROVE  \A i \in Nat \ {0} :
           ScopeAt(AdoptAll(s, hs), i) =
             IF i = ownerIdx(s) THEN ScopeAt(s, i) \o hs ELSE ScopeAt(s, i)
<1> DEFINE o == ownerIdx(s)
           new == [s[o] EXCEPT !.hs = @ \o hs]
           t == [s EXCEPT ![o] = new]
<1>1. o \in 0 .. Len(s) /\ Len(s) \in Nat /\ DOMAIN s = 1 .. Len(s)
  BY OwnerIdx, LenProperties
<1>2. CASE o = 0
  BY <1>2 DEF AdoptAll
<1>3. CASE o # 0
  <2>1. AdoptAll(s, hs) = t
    BY <1>3 DEF AdoptAll
  <2> HIDE DEF o
  <2>2. o \in DOMAIN s
    BY <1>1, <1>3
  <2>3. s[o] \in ScopeUpTo(n)
    BY <1>1, <2>2, ElementOfSeq
  <2>4. new.hs = s[o].hs \o hs
    BY <2>3 DEF ScopeUpTo
  <2> HIDE DEF new
  <2>5. DOMAIN t = DOMAIN s /\ t[o] = new /\ \A i \in DOMAIN s : i # o => t[i] = s[i]
    BY <2>2
  <2> HIDE DEF t
  <2>6. \A i \in Nat \ {0} : ScopeAt(t, i) = IF i = o THEN ScopeAt(s, i) \o hs ELSE ScopeAt(s, i)
    BY <2>2, <2>4, <2>5 DEF ScopeAt
  <2> QED BY <2>1, <2>6 DEF o
<1> QED BY <1>2, <1>3

----------------------------------------------------------------------------
(* The shapes of a step *)

\* A step of goroutine g that starts no task.
LEMMA KeepStep ==
  ASSUME IInv, KeepInv, NEW g \in Goroutine, NEW stack, NEW scopes,
         Distinct(Kept(scopes, stack)),
         frames' = [frames EXCEPT ![g] = stack],
         taskScopes' = [taskScopes EXCEPT ![g] = scopes]
  PROVE  KeepInv'
<1> SUFFICES ASSUME NEW k \in Goroutine PROVE Distinct(Kept(taskScopes'[k], frames'[k]))
  BY DEF KeepInv, Now, Distinct, Kept, ScopeAt, TodoAt, CarryAt, Joining
<1>1. /\ frames'[k] = IF k = g THEN stack ELSE frames[k]
      /\ taskScopes'[k] = IF k = g THEN scopes ELSE taskScopes[k]
  BY DEF IInv, FramesOK, ScopesOK
<1> QED BY <1>1 DEF KeepInv, Now

\* The lists of a running goroutine.
LEMMA ListsNow ==
  ASSUME IInv, NEW g \in Goroutine, Running(g)
  PROVE  /\ Depth(g) \in Nat \ {0} /\ Now(g) \in [Key -> Seq(1 .. spawned)]
         /\ Now(g)[<<"todo", Depth(g)>>] = Joining(Top(g))
         /\ Now(g)[<<"carry", Depth(g)>>] = Top(g).carry
         /\ \A i \in Nat \ {0} : Now(g)[<<"scope", i>>] = ScopeAt(taskScopes[g], i)
<1>1. frames[g] \in Seq(FrameUpTo(spawned)) /\ frames[g] # <<>> /\ taskScopes[g] \in Seq(ScopeUpTo(spawned))
  BY DEF IInv, FramesOK, ScopesOK, Running
<1>2. /\ Depth(g) \in Nat \ {0} /\ Top(g) = frames[g][Depth(g)]
      /\ Depth(g) \in DOMAIN frames[g]
  <2>1. Len(frames[g]) \in Nat /\ Len(frames[g]) >= 1 /\ Top(g) = frames[g][Len(frames[g])]
    BY <1>1, StackParts DEF Top
  <2>2. DOMAIN frames[g] = 1 .. Len(frames[g])
    BY <1>1, LenProperties
  <2> QED BY <2>1, <2>2 DEF Depth
<1>3. Now(g) \in [Key -> Seq(1 .. spawned)]
  BY <1>1, KeptType DEF Now
<1>4. TodoAt(frames[g], Depth(g)) = Joining(Top(g)) /\ CarryAt(frames[g], Depth(g)) = Top(g).carry
  BY <1>2 DEF TodoAt, CarryAt
<1>5. \A i \in Nat \ {0} : /\ Now(g)[<<"scope", i>>] = ScopeAt(taskScopes[g], i)
                           /\ Now(g)[<<"todo", i>>] = TodoAt(frames[g], i)
                           /\ Now(g)[<<"carry", i>>] = CarryAt(frames[g], i)
  BY KeptNow
<1> QED BY <1>2, <1>3, <1>4, <1>5

\* The lists after the top frame and the task scopes of g have changed.
LEMMA ListsAfter ==
  ASSUME IInv, NEW g \in Goroutine, Running(g), NEW f, NEW scopes
  PROVE  /\ After(g, f, scopes)[<<"todo", Depth(g)>>] = Joining(f)
         /\ After(g, f, scopes)[<<"carry", Depth(g)>>] = f.carry
         /\ \A i \in Nat \ {0} : After(g, f, scopes)[<<"scope", i>>] = ScopeAt(scopes, i)
         /\ \A i \in Nat \ {0} :
              i # Depth(g) => /\ After(g, f, scopes)[<<"todo", i>>] = Now(g)[<<"todo", i>>]
                              /\ After(g, f, scopes)[<<"carry", i>>] = Now(g)[<<"carry", i>>]
<1> DEFINE S == FrameUpTo(spawned) \cup {f}
           stack == Append(Front(frames[g]), f)
<1>1. frames[g] # <<>> /\ frames[g] \in Seq(FrameUpTo(spawned)) /\ Depth(g) \in Nat \ {0}
  BY ListsNow DEF IInv, FramesOK, Running
<1>2. frames[g] \in Seq(S) /\ f \in S
  BY <1>1, SeqMonotonic
<1> HIDE DEF S
<1>3. \A i \in Nat \ {0} :
        /\ TodoAt(stack, i) = IF i = Depth(g) THEN Joining(f) ELSE TodoAt(frames[g], i)
        /\ CarryAt(stack, i) = IF i = Depth(g) THEN f.carry ELSE CarryAt(frames[g], i)
  BY <1>1, <1>2, TopLists DEF Depth
<1> HIDE DEF stack
<1>4. \A i \in Nat \ {0} : /\ Kept(scopes, stack)[<<"scope", i>>] = ScopeAt(scopes, i)
                           /\ Kept(scopes, stack)[<<"todo", i>>] = TodoAt(stack, i)
                           /\ Kept(scopes, stack)[<<"carry", i>>] = CarryAt(stack, i)
  BY KeptAt
<1>5. Kept(scopes, stack) = After(g, f, scopes)
  BY DEF After, stack
<1>6. \A i \in Nat \ {0} : /\ Now(g)[<<"todo", i>>] = TodoAt(frames[g], i)
                           /\ Now(g)[<<"carry", i>>] = CarryAt(frames[g], i)
  BY KeptNow
<1> QED BY <1>1, <1>3, <1>4, <1>5, <1>6

\* Both together, list by list.
Changed(g, f, scopes) ==
  /\ \A i \in Nat \ {0} : /\ After(g, f, scopes)[<<"scope", i>>] = ScopeAt(scopes, i)
                         /\ Now(g)[<<"scope", i>>] = ScopeAt(taskScopes[g], i)
  /\ \A k \in Key : \/ \E i \in Nat \ {0} : k = <<"scope", i>>
                    \/ k = <<"todo", Depth(g)>>
                    \/ k = <<"carry", Depth(g)>>
                    \/ After(g, f, scopes)[k] = Now(g)[k]
  /\ After(g, f, scopes)[<<"todo", Depth(g)>>] = Joining(f)
  /\ Now(g)[<<"todo", Depth(g)>>] = Joining(Top(g))
  /\ After(g, f, scopes)[<<"carry", Depth(g)>>] = f.carry
  /\ Now(g)[<<"carry", Depth(g)>>] = Top(g).carry
  /\ Depth(g) \in Nat \ {0}
  /\ <<"todo", Depth(g)>> \in Key /\ <<"carry", Depth(g)>> \in Key
  /\ Now(g) \in [Key -> Seq(1 .. spawned)]

LEMMA ListsChange ==
  ASSUME IInv, NEW g \in Goroutine, Running(g), NEW f, NEW scopes
  PROVE  Changed(g, f, scopes)
<1>1. /\ Depth(g) \in Nat \ {0} /\ Now(g) \in [Key -> Seq(1 .. spawned)]
      /\ Now(g)[<<"todo", Depth(g)>>] = Joining(Top(g))
      /\ Now(g)[<<"carry", Depth(g)>>] = Top(g).carry
      /\ \A i \in Nat \ {0} : Now(g)[<<"scope", i>>] = ScopeAt(taskScopes[g], i)
  BY ListsNow
<1>2. /\ After(g, f, scopes)[<<"todo", Depth(g)>>] = Joining(f)
      /\ After(g, f, scopes)[<<"carry", Depth(g)>>] = f.carry
      /\ \A i \in Nat \ {0} : After(g, f, scopes)[<<"scope", i>>] = ScopeAt(scopes, i)
      /\ \A i \in Nat \ {0} :
           i # Depth(g) => /\ After(g, f, scopes)[<<"todo", i>>] = Now(g)[<<"todo", i>>]
                           /\ After(g, f, scopes)[<<"carry", i>>] = Now(g)[<<"carry", i>>]
  BY ListsAfter
<1>3. ASSUME NEW k \in Key
      PROVE  \/ \E i \in Nat \ {0} : k = <<"scope", i>>
             \/ k = <<"todo", Depth(g)>>
             \/ k = <<"carry", Depth(g)>>
             \/ After(g, f, scopes)[k] = Now(g)[k]
  <2>1. PICK i \in Nat \ {0} : k = <<"scope", i>> \/ k = <<"todo", i>> \/ k = <<"carry", i>>
    BY KeyParts
  <2> DEFINE d == Depth(g)
             L == Now(g)
             M == After(g, f, scopes)
  <2>2. i # d => M[<<"todo", i>>] = L[<<"todo", i>>] /\ M[<<"carry", i>>] = L[<<"carry", i>>]
    BY <1>2
  <2> HIDE DEF d, L, M
  <2>3. \/ \E x \in Nat \ {0} : k = <<"scope", x>>
        \/ k = <<"todo", d>> \/ k = <<"carry", d>> \/ M[k] = L[k]
    BY ONLY <2>1, <2>2
  <2> QED BY <2>3 DEF d, L, M
<1>4. <<"todo", Depth(g)>> \in Key /\ <<"carry", Depth(g)>> \in Key
  BY <1>1, KeyParts
<1> QED BY <1>1, <1>2, <1>3, <1>4 DEF Changed

LEMMA KeepAfter ==
  ASSUME IInv, KeepInv, NEW g \in Goroutine, NEW f, NEW scopes, SetTop(g, f),
         taskScopes' = [taskScopes EXCEPT ![g] = scopes], Distinct(After(g, f, scopes))
  PROVE  KeepInv'
<1>1. frames' = [frames EXCEPT ![g] = Append(Front(frames[g]), f)]
  BY DEF SetTop
<1> QED BY <1>1, KeepStep DEF After

\* The top frame's lists stay, or the one it joins is done.
LEMMA KeepSame ==
  ASSUME IInv, KeepInv, NEW g \in Goroutine, Running(g), NEW f, NEW scopes, SetTop(g, f),
         taskScopes' = [taskScopes EXCEPT ![g] = scopes],
         f.carry = Top(g).carry, Joining(f) \in {Joining(Top(g)), <<>>},
         \A i \in Nat \ {0} : ScopeAt(scopes, i) = ScopeAt(taskScopes[g], i)
  PROVE  KeepInv'
<1> DEFINE L == Now(g)
           M == After(g, f, scopes)
           d == Depth(g)
<1>1. /\ \A i \in Nat \ {0} : M[<<"scope", i>>] = ScopeAt(scopes, i)
                             /\ L[<<"scope", i>>] = ScopeAt(taskScopes[g], i)
      /\ \A k \in Key : \/ \E i \in Nat \ {0} : k = <<"scope", i>>
                        \/ k = <<"todo", d>> \/ k = <<"carry", d>> \/ M[k] = L[k]
      /\ M[<<"todo", d>>] = Joining(f) /\ L[<<"todo", d>>] = Joining(Top(g))
      /\ M[<<"carry", d>>] = f.carry /\ L[<<"carry", d>>] = Top(g).carry
  <2>1. Changed(g, f, scopes)
    BY ListsChange
  <2> QED BY ONLY <2>1 DEF Changed
<1>2. Distinct(L)
  BY DEF KeepInv
<1> HIDE DEF L, M, d
<1>3. \A i \in Nat \ {0} : M[<<"scope", i>>] = L[<<"scope", i>>]
  BY <1>1
<1>4. /\ M[<<"todo", d>>] = L[<<"todo", d>>] \/ M[<<"todo", d>>] = <<>>
      /\ M[<<"carry", d>>] = L[<<"carry", d>>]
  BY <1>1
<1>5. \A k \in Key : M[k] = L[k] \/ M[k] = <<>>
  BY ONLY <1>1, <1>3, <1>4
<1>6. Distinct(M)
  BY <1>2, <1>5, DropDistinct
<1> QED BY <1>6, KeepAfter DEF M

LEMMA KeepTop ==
  ASSUME IInv, KeepInv, NEW g \in Goroutine, Running(g), NEW f, SetTop(g, f),
         f.carry = Top(g).carry, Joining(f) \in {Joining(Top(g)), <<>>},
         UNCHANGED taskScopes
  PROVE  KeepInv'
<1>1. taskScopes' = [taskScopes EXCEPT ![g] = taskScopes[g]]
  BY DEF IInv, ScopesOK
<1> QED BY <1>1, KeepSame

----------------------------------------------------------------------------
(* Steps that leave the lists alone *)

LEMMA InstructionKeep ==
  ASSUME IInv, LinkInv, KeepInv, NEW g \in Goroutine, Running(g), Top(g).st = "run",
         NEW f, SetTop(g, f), UNCHANGED taskScopes,
         f.carry = Top(g).carry, f.goal = Top(g).goal
  PROVE  KeepInv'
<1>1. Top(g).goal = "none"
  BY TopGood DEF FrameSt
<1> QED BY <1>1, KeepTop DEF Joining

LEMMA QuietInstructionKeep ==
  ASSUME IInv, LinkInv, KeepInv, NEW g \in Goroutine,
         \/ \E mode \in Mode : Defer(g, mode)
         \/ Spawn(g) \/ Throw(g) \/ CallFails(g) \/ Return(g)
         \/ \E h \in Handle : Await(g, h)
  PROVE  KeepInv'
<1> DEFINE f == Top(g)
<1>1. Running(g) /\ f.st = "run" /\ UNCHANGED taskScopes
  BY DEF Defer, Spawn, Throw, CallFails, Return, Await, Instr, Step, StartUnwind, stackVars
<1>2. f \in FrameRec(spawned)
  BY <1>1, TopType
<1>3. ASSUME NEW mode \in Mode, Defer(g, mode) PROVE KeepInv'
  <2>1. PICK defers : SetTop(g, [f EXCEPT !.defers = defers])
    BY <1>3 DEF Defer
  <2>2. [f EXCEPT !.defers = defers].carry = f.carry /\ [f EXCEPT !.defers = defers].goal = f.goal
    BY <1>2 DEF FrameRec
  <2> QED BY <1>1, <2>1, <2>2, InstructionKeep
<1>4. CASE Spawn(g)
  <2>1. SetTop(g, [f EXCEPT !.st = "spawn"])
    BY <1>4 DEF Spawn
  <2>2. [f EXCEPT !.st = "spawn"].carry = f.carry /\ [f EXCEPT !.st = "spawn"].goal = f.goal
    BY <1>2 DEF FrameRec
  <2> QED BY <1>1, <2>1, <2>2, InstructionKeep
<1>5. ASSUME NEW cur, StartUnwind(g, cur) PROVE KeepInv'
  <2> DEFINE new == [f EXCEPT !.st = "unwind", !.cur = cur]
  <2>1. SetTop(g, new)
    BY <1>5 DEF StartUnwind
  <2>2. new.carry = f.carry /\ new.goal = f.goal
    BY <1>2 DEF FrameRec
  <2> HIDE DEF new
  <2> QED BY <1>1, <2>1, <2>2, InstructionKeep
<1>6. ASSUME NEW h \in Handle, Await(g, h) PROVE KeepInv'
  <2> PICK ms : SetTop(g, [f EXCEPT !.st = "await", !.todo = <<h>>, !.timeout = ms])
    BY <1>6 DEF Await
  <2> DEFINE new == [f EXCEPT !.st = "await", !.todo = <<h>>, !.timeout = ms]
  <2>1. SetTop(g, new)
    OBVIOUS
  <2>2. new.carry = f.carry /\ new.goal = f.goal
    BY <1>2 DEF FrameRec
  <2> HIDE DEF new
  <2> QED BY <1>1, <2>1, <2>2, InstructionKeep
<1> QED BY <1>3, <1>4, <1>5, <1>6 DEF Throw, CallFails, Return

LEMMA AwaitReturnsKeep ==
  ASSUME IInv, LinkInv, KeepInv, NEW g \in Goroutine, AwaitReturns(g) \/ AwaitTimesOut(g)
  PROVE  KeepInv'
<1> DEFINE f == Top(g)
<1>1. Running(g) /\ f.st = "await" /\ UNCHANGED taskScopes
  BY DEF AwaitReturns, AwaitTimesOut, Step, stackVars
<1>2. f \in FrameRec(spawned) /\ f.goal = "none"
  BY <1>1, TopGood DEF FrameSt
<1>3. PICK st, cur : SetTop(g, [f EXCEPT !.todo = <<>>, !.timeout = 0, !.st = st, !.cur = cur])
  BY DEF AwaitReturns, AwaitTimesOut
<1> DEFINE new == [f EXCEPT !.todo = <<>>, !.timeout = 0, !.st = st, !.cur = cur]
<1>4. new.carry = f.carry /\ new.goal = "none" /\ SetTop(g, new)
  BY <1>2, <1>3 DEF FrameRec
<1> HIDE DEF new
<1> QED BY <1>1, <1>4, KeepTop DEF Joining

\* Joining is over, or goes on.
LEMMA JoiningKeep ==
  ASSUME IInv, LinkInv, KeepInv, NEW g \in Goroutine,
         \/ CancelSibling(g) \/ Joined(g) \/ ScopeLeft(g) \/ ScopeUnwound(g)
  PROVE  KeepInv'
<1> DEFINE f == Top(g)
<1>1. Running(g) /\ UNCHANGED taskScopes
  BY DEF CancelSibling, Joined, ScopeLeft, ScopeUnwound, Step, stackVars
<1>2. f \in FrameRec(spawned)
  BY <1>1, TopGood
<1>3. CASE CancelSibling(g)
  <2>1. PICK st, doomed : SetTop(g, [f EXCEPT !.st = st, !.doomed = doomed])
    <3>1. CASE SetTop(g, [f EXCEPT !.st = "join"])
      <4>1. [f EXCEPT !.st = "join"] = [f EXCEPT !.st = "join", !.doomed = f.doomed]
        BY <1>2 DEF FrameRec
      <4> QED BY <3>1, <4>1
    <3>2. CASE SetTop(g, [f EXCEPT !.doomed = Tail(f.doomed)])
      <4>1. [f EXCEPT !.doomed = Tail(f.doomed)] = [f EXCEPT !.st = f.st, !.doomed = Tail(f.doomed)]
        BY <1>2 DEF FrameRec
      <4> QED BY <3>2, <4>1
    <3> QED BY <1>3, <3>1, <3>2 DEF CancelSibling
  <2> DEFINE new == [f EXCEPT !.st = st, !.doomed = doomed]
  <2>2. SetTop(g, new) /\ new.carry = f.carry /\ new.goal = f.goal /\ new.todo = f.todo
    BY <1>2, <2>1 DEF FrameRec
  <2> HIDE DEF new
  <2> QED BY <1>1, <2>2, KeepTop DEF Joining
<1>4. CASE Joined(g)
  <2>1. PICK entries, defers :
          SetTop(g, [f EXCEPT !.st = "defers", !.entries = entries, !.defers = defers])
    BY <1>4 DEF Joined
  <2> DEFINE new == [f EXCEPT !.st = "defers", !.entries = entries, !.defers = defers]
  <2>2. SetTop(g, new) /\ new.carry = f.carry /\ new.goal = f.goal /\ new.todo = f.todo
    BY <1>2, <2>1 DEF FrameRec
  <2> HIDE DEF new
  <2> QED BY <1>1, <2>2, KeepTop DEF Joining
<1>5. CASE ScopeUnwound(g)
  <2> DEFINE new == [f EXCEPT !.st = "unwind", !.goal = "none"]
  <2>1. SetTop(g, new) /\ new.carry = f.carry /\ new.goal = "none"
    BY <1>2, <1>5 DEF FrameRec, ScopeUnwound
  <2> HIDE DEF new
  <2> QED BY <1>1, <2>1, KeepTop DEF Joining
<1>6. CASE ScopeLeft(g)
  <2> DEFINE open == f.open - 1
             env == f.env - 1
             less == [f EXCEPT !.open = open, !.env = env]
  <2>1. PICK new \in AfterPop(less, f.cur) : SetTop(g, new)
    BY <1>6 DEF ScopeLeft
  <2>2. PICK st, cur : new = [less EXCEPT !.goal = "none", !.cur = cur, !.st = st]
    BY <2>1 DEF AfterPop
  <2> HIDE DEF open, env
  <2>3. new.carry = f.carry /\ new.goal = "none"
    BY <1>2, <2>2 DEF FrameRec
  <2> QED BY <1>1, <2>1, <2>3, KeepTop DEF Joining
<1> QED BY <1>3, <1>4, <1>5, <1>6

----------------------------------------------------------------------------
(* Steps that move handles *)

LEMMA JoinHandleKeep ==
  ASSUME IInv, LinkInv, KeepInv, NEW g \in Goroutine, JoinHandle(g)
  PROVE  KeepInv'
<1> DEFINE f == Top(g)
           n == Depth(g)
           new == JoinedOne(f, result[Head(f.todo)])
           L == Now(g)
           M == After(g, new, taskScopes[g])
<1>1. Running(g) /\ f.st = "join" /\ f.todo # <<>> /\ SetTop(g, new) /\ UNCHANGED taskScopes
  BY DEF JoinHandle, Done, Step, stackVars
<1>2. f \in FrameRec(spawned) /\ f.goal # "none"
  BY <1>1, TopGood DEF FrameSt
<1>3. new.todo = Tail(f.todo) /\ new.goal = f.goal /\ new.carry = f.carry
  BY <1>2 DEF JoinedOne, FrameRec
<1> HIDE DEF new
<1>4. Joining(new) = Tail(f.todo) /\ Joining(f) = f.todo
  BY <1>2, <1>3 DEF Joining
<1>5. Distinct(L) /\ L \in [Key -> Seq(1 .. spawned)]
  BY <1>1, ListsNow DEF KeepInv
<1>6. /\ \A i \in Nat \ {0} : M[<<"scope", i>>] = ScopeAt(taskScopes[g], i)
                             /\ L[<<"scope", i>>] = ScopeAt(taskScopes[g], i)
      /\ \A k \in Key : \/ \E i \in Nat \ {0} : k = <<"scope", i>>
                        \/ k = <<"todo", n>> \/ k = <<"carry", n>> \/ M[k] = L[k]
      /\ M[<<"todo", n>>] = Joining(new) /\ L[<<"todo", n>>] = Joining(Top(g))
      /\ M[<<"carry", n>>] = new.carry /\ L[<<"carry", n>>] = Top(g).carry
      /\ <<"todo", n>> \in Key
  <2>1. Changed(g, new, taskScopes[g])
    BY <1>1, ListsChange
  <2> QED BY ONLY <2>1 DEF Changed
<1> HIDE DEF L, M, n
<1>7. L[<<"todo", n>>] # <<>> /\ M[<<"todo", n>>] = Tail(L[<<"todo", n>>])
  BY <1>1, <1>4, <1>6
<1>8. \A k \in Key \ {<<"todo", n>>} : M[k] = L[k]
  <2>1. M[<<"carry", n>>] = L[<<"carry", n>>]
    BY <1>3, <1>6
  <2>2. \A i \in Nat \ {0} : M[<<"scope", i>>] = L[<<"scope", i>>]
    BY <1>6
  <2> QED BY ONLY <1>6, <2>1, <2>2
<1>9. Distinct(M)
  BY <1>5, <1>6, <1>7, <1>8, TailDistinct
<1>10. taskScopes' = [taskScopes EXCEPT ![g] = taskScopes[g]]
  BY <1>1 DEF IInv, ScopesOK
<1> QED BY <1>1, <1>9, <1>10, KeepAfter DEF M

\* A frame takes the handles of the top scope over, to join them.
LEMMA BeginJoinKeep ==
  ASSUME IInv, LinkInv, KeepInv, NEW g \in Goroutine, Running(g),
         Top(g).st \in {"run", "tail", "unwind"},
         NEW goal \in {"pop", "unwind"}, NEW cur, BeginJoin(g, Top(g), goal, cur)
  PROVE  KeepInv'
<1> DEFINE f == Top(g)
           s == taskScopes[g]
           hs == TopOr(s, NoScope).hs
           scopes == Popped(s)
           new == [f EXCEPT !.st = "join", !.goal = goal, !.cur = cur, !.todo = hs]
<1>1. SetTop(g, new) /\ taskScopes' = [taskScopes EXCEPT ![g] = scopes]
  BY DEF BeginJoin
<1>2. f \in FrameRec(spawned) /\ f.goal = "none" /\ s \in Seq(ScopeUpTo(spawned))
  BY TopGood, TopType DEF FrameSt
<1>3. /\ \A i \in Nat \ {0} : ScopeAt(scopes, i) = IF i = Len(s) THEN <<>> ELSE ScopeAt(s, i)
      /\ hs = IF s = <<>> THEN <<>> ELSE ScopeAt(s, Len(s))
      /\ s # <<>> => Len(s) \in Nat \ {0}
  BY <1>2, PopScopeLists
<1> HIDE DEF hs
<1>4. Joining(new) = hs /\ Joining(f) = <<>> /\ new.carry = f.carry
  BY <1>2 DEF Joining, FrameRec
<1> HIDE DEF new, scopes
<1>5. CASE s = <<>>
  <2>1. Len(s) = 0 /\ Joining(new) = Joining(f)
    BY <1>3, <1>4, <1>5, EmptySeq
  <2>2. \A i \in Nat \ {0} : ScopeAt(scopes, i) = ScopeAt(s, i)
    BY <1>3, <2>1
  <2> QED BY <1>1, <1>4, <2>1, <2>2, KeepSame
<1>6. CASE s # <<>>
  <2> DEFINE n == Depth(g)
             m == Len(s)
             L == Now(g)
             M == After(g, new, scopes)
             a == <<"scope", m>>
             b == <<"todo", n>>
  <2>1. /\ \A i \in Nat \ {0} : M[<<"scope", i>>] = ScopeAt(scopes, i)
                               /\ L[<<"scope", i>>] = ScopeAt(s, i)
        /\ \A k \in Key : \/ \E i \in Nat \ {0} : k = <<"scope", i>>
                          \/ k = <<"todo", n>> \/ k = <<"carry", n>> \/ M[k] = L[k]
        /\ M[<<"todo", n>>] = Joining(new) /\ L[<<"todo", n>>] = Joining(f)
        /\ M[<<"carry", n>>] = new.carry /\ L[<<"carry", n>>] = f.carry
        /\ <<"todo", n>> \in Key /\ L \in [Key -> Seq(1 .. spawned)]
    <3>1. Changed(g, new, scopes)
      BY ListsChange
    <3> QED BY ONLY <3>1 DEF Changed
  <2> HIDE DEF L, M, n
  <2>2. m \in Nat \ {0} /\ hs = ScopeAt(s, m) /\ ScopeAt(scopes, m) = <<>>
    BY <1>3, <1>6
  <2>3. a \in Key /\ b \in Key /\ a # b /\ L[a] \in Seq(1 .. spawned)
    BY <2>1, <2>2, KeyParts
  <2>4. M[a] = <<>> /\ M[b] = L[a] /\ L[b] = <<>>
    BY <1>4, <2>1, <2>2
  <2>5. M[b] = L[b] \o L[a]
    BY <2>3, <2>4, ConcatEmptySeq
  <2>6. \A i \in Nat \ {0} : i # m => M[<<"scope", i>>] = L[<<"scope", i>>]
    BY <1>3, <2>1
  <2>7. M[<<"carry", n>>] = L[<<"carry", n>>]
    BY <1>4, <2>1
  <2>8. \A k \in Key \ {a, b} : M[k] = L[k]
    BY ONLY <2>1, <2>6, <2>7
  <2> HIDE DEF a, b
  <2>9. Distinct(L) /\ L \in [Key -> Seq(1 .. spawned)]
    BY <2>1 DEF KeepInv, L
  <2>10. Distinct(M)
    <3>1. Moved(L, M, a, b)
      BY ONLY <2>4, <2>5, <2>8 DEF Moved
    <3> QED BY ONLY <2>3, <2>9, <3>1, MoveDistinct
  <2> QED BY <1>1, <2>10, KeepAfter DEF M
<1> QED BY <1>5, <1>6

\* A nursery adopts the handles carried over a recur.
LEMMA EnterScopeKeep ==
  ASSUME IInv, LinkInv, KeepInv, NEW g \in Goroutine, Running(g),
         NEW arg, EnterScope(g, Top(g), arg)
  PROVE  KeepInv'
<1> DEFINE f == Top(g)
           s == taskScopes[g]
           open == f.open + 1
           env == f.env + 1
           defers == Append(f.defers, <<>>)
           carry == IF arg = 0 THEN f.carry ELSE <<>>
           new == [f EXCEPT !.st = "run", !.open = open, !.env = env, !.defers = defers,
                            !.carry = carry]
           hs == IF arg = 0 THEN <<>> ELSE f.carry
           scope == [nursery |-> arg # 0, hs |-> hs]
           scopes == Append(s, scope)
           m == Len(s) + 1
<1>1. SetTop(g, new) /\ taskScopes' = [taskScopes EXCEPT ![g] = scopes]
  BY DEF EnterScope, Entered
<1>2. f \in FrameRec(spawned) /\ s \in Seq(ScopeUpTo(spawned)) /\ f.carry \in HandleList(spawned)
  BY TopType DEF FrameRec
<1>3. scope.hs = hs
  OBVIOUS
<1>4. m \in Nat \ {0} /\ ScopeAt(s, m) = <<>>
  <2>1. Len(s) \in Nat /\ DOMAIN s = 1 .. Len(s)
    BY <1>2, LenProperties
  <2> QED BY <2>1 DEF ScopeAt
<1>5. \A i \in Nat \ {0} : ScopeAt(scopes, i) = IF i = m THEN hs ELSE ScopeAt(s, i)
  <2> HIDE DEF scope
  <2>1. s \in Seq(ScopeUpTo(spawned) \cup {scope})
    BY <1>2, SeqMonotonic
  <2> QED BY <1>3, <2>1, PushScopeLists
<1> HIDE DEF open, env, defers, scopes, m
<1>6. Joining(new) = Joining(f) /\ new.carry = carry
  <2> HIDE DEF carry
  <2> QED BY <1>2 DEF Joining, FrameRec
<1> HIDE DEF new
<1>7. CASE arg = 0
  <2>1. \A i \in Nat \ {0} : ScopeAt(scopes, i) = ScopeAt(s, i)
    BY <1>4, <1>5, <1>7
  <2> QED BY <1>1, <1>6, <1>7, <2>1, KeepSame
<1>8. CASE arg # 0
  <2> DEFINE n == Depth(g)
             L == Now(g)
             M == After(g, new, scopes)
             a == <<"carry", n>>
             b == <<"scope", m>>
  <2>1. /\ \A i \in Nat \ {0} : M[<<"scope", i>>] = ScopeAt(scopes, i)
                               /\ L[<<"scope", i>>] = ScopeAt(s, i)
        /\ \A k \in Key : \/ \E i \in Nat \ {0} : k = <<"scope", i>>
                          \/ k = <<"todo", n>> \/ k = <<"carry", n>> \/ M[k] = L[k]
        /\ M[<<"todo", n>>] = Joining(new) /\ L[<<"todo", n>>] = Joining(f)
        /\ M[<<"carry", n>>] = new.carry /\ L[<<"carry", n>>] = f.carry
        /\ <<"carry", n>> \in Key /\ L \in [Key -> Seq(1 .. spawned)]
    <3>1. Changed(g, new, scopes)
      BY ListsChange
    <3> QED BY ONLY <3>1 DEF Changed
  <2> HIDE DEF L, M, n
  <2>2. hs = f.carry /\ carry = <<>> /\ ScopeAt(scopes, m) = hs
    BY <1>4, <1>5, <1>8
  <2>3. a \in Key /\ b \in Key /\ a # b /\ L[a] \in Seq(1 .. spawned)
    BY <1>4, <2>1, KeyParts
  <2>4. M[a] = <<>> /\ M[b] = L[a] /\ L[b] = <<>>
    BY <1>4, <1>6, <2>1, <2>2
  <2>5. M[b] = L[b] \o L[a]
    BY <2>3, <2>4, ConcatEmptySeq
  <2>6. \A i \in Nat \ {0} : i # m => M[<<"scope", i>>] = L[<<"scope", i>>]
    BY <1>5, <2>1
  <2>7. M[<<"todo", n>>] = L[<<"todo", n>>]
    BY <1>6, <2>1
  <2>8. \A k \in Key \ {a, b} : M[k] = L[k]
    BY ONLY <2>1, <2>6, <2>7
  <2> HIDE DEF a, b
  <2>9. Distinct(L) /\ L \in [Key -> Seq(1 .. spawned)]
    BY <2>1 DEF KeepInv, L
  <2>10. Distinct(M)
    <3>1. Moved(L, M, a, b)
      BY ONLY <2>4, <2>5, <2>8 DEF Moved
    <3> QED BY ONLY <2>3, <2>9, <3>1, MoveDistinct
  <2> QED BY <1>1, <2>10, KeepAfter DEF M
<1> QED BY <1>7, <1>8

\* The handles of the scope that a recur leaves move to the innermost nursery
\* that is left, or are carried.
LEMMA MigrateKeep ==
  ASSUME IInv, LinkInv, KeepInv, NEW g \in Goroutine, Running(g), NEW f \in FrameRec(spawned),
         f.carry = Top(g).carry, Joining(Top(g)) = <<>>, Migrate(g, f)
  PROVE  KeepInv'
<1> DEFINE s == taskScopes[g]
           rest == Popped(s)
           hs == TopOr(s, NoScope).hs
           o == ownerIdx(rest)
           carry == Carried(f, rest, hs)
           scopes == AdoptAll(rest, hs)
           st == IF f.open = 1 THEN "unwind" ELSE "tail"
           open == f.open - 1
           env == f.env - 1
           new == [f EXCEPT !.st = st, !.goal = "none", !.open = open, !.env = env, !.carry = carry]
           m == Len(s)
<1>1. SetTop(g, new) /\ taskScopes' = [taskScopes EXCEPT ![g] = scopes]
  BY DEF Migrate
<1>2. s \in Seq(ScopeUpTo(spawned)) /\ f.carry \in HandleList(spawned)
  BY TopType DEF FrameRec
<1>3. /\ \A i \in Nat \ {0} : ScopeAt(rest, i) = IF i = m THEN <<>> ELSE ScopeAt(s, i)
      /\ hs = IF s = <<>> THEN <<>> ELSE ScopeAt(s, m)
      /\ s # <<>> => m \in Nat \ {0}
  BY <1>2, PopScopeLists
<1>4. /\ rest \in Seq(ScopeUpTo(spawned)) /\ o \in 0 .. Len(rest)
      /\ Len(rest) = IF s = <<>> THEN 0 ELSE m - 1
  <2>1. rest \in Seq(ScopeUpTo(spawned)) /\ Len(rest) = IF s = <<>> THEN 0 ELSE m - 1
    BY <1>2, StackParts, EmptySeq DEF Popped
  <2> HIDE DEF rest
  <2> QED BY <2>1, OwnerIdx
<1> HIDE DEF rest, hs, o, st, open, env
<1>5. carry = IF o = 0 THEN f.carry \o hs ELSE f.carry
  BY DEF Carried, o
<1>6. \A i \in Nat \ {0} : ScopeAt(scopes, i) = IF i = o THEN ScopeAt(rest, i) \o hs ELSE ScopeAt(rest, i)
  BY <1>4, AdoptLists DEF o
<1> HIDE DEF carry, scopes
<1>7. Joining(new) = <<>> /\ new.carry = carry
  BY DEF Joining, FrameRec
<1> HIDE DEF new
<1>8. CASE s = <<>>
  <2>1. o = 0 /\ hs = <<>> /\ m = 0
    BY <1>3, <1>4, <1>8, EmptySeq
  <2>2. carry = f.carry
    BY <1>2, <1>5, <2>1, ConcatEmptySeq DEF HandleList
  <2>3. \A i \in Nat \ {0} : ScopeAt(scopes, i) = ScopeAt(s, i)
    BY <1>3, <1>6, <2>1
  <2> HIDE DEF m
  <2> QED BY <1>1, <1>7, <2>2, <2>3, KeepSame
<1>9. CASE s # <<>>
  <2> DEFINE n == Depth(g)
             L == Now(g)
             M == After(g, new, scopes)
             a == <<"scope", m>>
             b == IF o = 0 THEN <<"carry", n>> ELSE <<"scope", o>>
  <2>1. /\ \A i \in Nat \ {0} : M[<<"scope", i>>] = ScopeAt(scopes, i)
                               /\ L[<<"scope", i>>] = ScopeAt(s, i)
        /\ \A k \in Key : \/ \E i \in Nat \ {0} : k = <<"scope", i>>
                          \/ k = <<"todo", n>> \/ k = <<"carry", n>> \/ M[k] = L[k]
        /\ M[<<"todo", n>>] = Joining(new) /\ L[<<"todo", n>>] = Joining(Top(g))
        /\ M[<<"carry", n>>] = new.carry /\ L[<<"carry", n>>] = Top(g).carry
        /\ <<"carry", n>> \in Key /\ L \in [Key -> Seq(1 .. spawned)]
    <3>1. Changed(g, new, scopes)
      BY ListsChange
    <3> QED BY ONLY <3>1 DEF Changed
  <2>2. Distinct(L)
    BY DEF KeepInv
  <2> HIDE DEF L, M, n
  <2>3. m \in Nat \ {0} /\ hs = ScopeAt(s, m) /\ ScopeAt(rest, m) = <<>> /\ o # m /\ o \in Nat
    BY <1>3, <1>4, <1>9
  <2> HIDE DEF m
  <2>4. a \in Key /\ b \in Key /\ a # b
    <3>1. a \in Key /\ (o # 0 => <<"scope", o>> \in Key) /\ o # m
      BY <2>3, KeyParts
    <3> QED BY ONLY <2>1, <3>1
  <2>5. M[a] = <<>>
    BY <1>6, <2>1, <2>3
  <2>6. M[b] = L[b] \o L[a]
    <3>1. L[a] = hs
      BY <2>1, <2>3
    <3>2. CASE o = 0
      BY <1>5, <1>7, <2>1, <3>1, <3>2
    <3>3. CASE o # 0
      <4>1. o \in Nat \ {0} /\ ScopeAt(rest, o) = ScopeAt(s, o)
        BY <1>3, <2>3, <3>3 DEF m
      <4>2. M[<<"scope", o>>] = ScopeAt(s, o) \o hs /\ L[<<"scope", o>>] = ScopeAt(s, o)
        BY <1>6, <2>1, <4>1
      <4> QED BY <3>1, <3>3, <4>2
    <3> QED BY <3>2, <3>3
  <2>7. \A k \in Key \ {a, b} : M[k] = L[k]
    <3>1. \A i \in Nat \ {0} : i # m /\ i # o => M[<<"scope", i>>] = L[<<"scope", i>>]
      BY <1>3, <1>6, <2>1 DEF m
    <3>2. M[<<"todo", n>>] = L[<<"todo", n>>] /\ (o # 0 => M[<<"carry", n>>] = L[<<"carry", n>>])
      BY <1>5, <1>7, <2>1
    <3>3. \A i \in Nat \ {0} : i # 0
      OBVIOUS
    <3> QED BY ONLY <2>1, <3>1, <3>2, <3>3
  <2> HIDE DEF a, b
  <2>8. Distinct(M)
    <3>1. L \in [Key -> Seq(1 .. spawned)]
      BY <2>1
    <3>2. Moved(L, M, a, b)
      BY ONLY <2>5, <2>6, <2>7 DEF Moved
    <3> QED BY ONLY <2>2, <2>4, <3>1, <3>2, MoveDistinct
  <2> QED BY <1>1, <2>8, KeepAfter DEF M
<1> QED BY <1>8, <1>9

LEMMA RecurPopKeep ==
  ASSUME IInv, LinkInv, KeepInv, NEW g \in Goroutine, Running(g),
         Top(g).st \in {"run", "tail"}, RecurPop(g, Top(g))
  PROVE  KeepInv'
<1> DEFINE f == Top(g)
           defers == Popped(f.defers)
<1>1. f \in FrameRec(spawned) /\ f.goal = "none" /\ f.todo = <<>> /\ Joining(f) = <<>>
      /\ defers \in Seq(Seq(Mode))
  <2>1. f \in FrameRec(spawned) /\ FrameSt(f)
    BY TopGood
  <2>2. spawned \in Nat
    BY TopType
  <2>3. defers \in Seq(Seq(Mode))
    BY <2>1, <2>2, DefersType
  <2> QED BY <2>1, <2>3 DEF FrameSt, Joining
<1> HIDE DEF defers
<1>2. CASE f.open = 1
  <2> DEFINE g1 == [f EXCEPT !.cur = "recur", !.defers = defers]
  <2>1. Migrate(g, g1)
    BY <1>2 DEF RecurPop, defers
  <2>2. g1 \in FrameRec(spawned) /\ g1.carry = f.carry
    BY <1>1 DEF FrameRec, Result
  <2> HIDE DEF g1
  <2> QED BY <1>1, <2>1, <2>2, MigrateKeep
<1>3. CASE f.open # 1
  <2> DEFINE entries == TopOr(f.defers, <<>>)
             new == [f EXCEPT !.st = "defers", !.goal = "recur", !.cur = "recur",
                              !.entries = entries, !.defers = defers]
  <2>1. SetTop(g, new) /\ UNCHANGED taskScopes
    BY <1>3 DEF RecurPop, stackVars, defers
  <2> HIDE DEF entries
  <2>2. new.carry = f.carry /\ Joining(new) = <<>>
    BY <1>1 DEF FrameRec, Joining
  <2> HIDE DEF new
  <2> QED BY <1>1, <2>1, <2>2, KeepTop
<1> QED BY <1>2, <1>3

LEMMA PopScopeKeep ==
  ASSUME IInv, LinkInv, KeepInv, NEW g \in Goroutine, PopScope(g)
  PROVE  KeepInv'
<1>1. Running(g)
  BY DEF PopScope
<1>2. CASE Top(g).st \in {"run", "tail"} /\ RecurPop(g, Top(g))
  BY <1>1, <1>2, RecurPopKeep
<1>3. ASSUME Top(g).st \in {"run", "tail"}, NEW cur, BeginJoin(g, Top(g), "pop", cur) PROVE KeepInv'
  BY <1>1, <1>3, BeginJoinKeep
<1> QED BY <1>2, <1>3 DEF PopScope, Step, Instr

LEMMA RecurScopeLeftKeep ==
  ASSUME IInv, LinkInv, KeepInv, NEW g \in Goroutine, RecurScopeLeft(g)
  PROVE  KeepInv'
<1> DEFINE f == Top(g)
<1>1. Running(g) /\ f.st = "defers"
  BY DEF RecurScopeLeft, Step
<1>2. f \in FrameRec(spawned) /\ f.todo = <<>> /\ Joining(f) = <<>>
  BY <1>1, TopGood DEF FrameSt, Joining
<1>3. CASE f.cur = "recur"
  <2>1. Migrate(g, f)
    BY <1>3 DEF RecurScopeLeft
  <2> QED BY <1>1, <1>2, <2>1, MigrateKeep
<1>4. CASE f.cur # "recur"
  <2> DEFINE open == f.open - 1
             new == [f EXCEPT !.st = "tail", !.goal = "none", !.open = open]
  <2>1. SetTop(g, new) /\ UNCHANGED taskScopes
    BY <1>4 DEF RecurScopeLeft, stackVars
  <2> HIDE DEF open
  <2>2. new.carry = f.carry /\ Joining(new) = <<>>
    BY <1>2 DEF FrameRec, Joining
  <2> HIDE DEF new
  <2> QED BY <1>1, <2>1, <2>2, KeepTop
<1> QED BY <1>3, <1>4

LEMMA UnwindScopeKeep ==
  ASSUME IInv, LinkInv, KeepInv, NEW g \in Goroutine, UnwindScope(g)
  PROVE  KeepInv'
<1> DEFINE f == Top(g)
<1>1. Running(g) /\ f.st = "unwind"
  BY DEF UnwindScope, Step
<1>2. CASE BeginJoin(g, f, "unwind", f.cur)
  BY <1>1, <1>2, BeginJoinKeep
<1>3. CASE SetTop(g, [f EXCEPT !.st = "join", !.goal = "unwind"]) /\ UNCHANGED stackVars
  <2> DEFINE new == [f EXCEPT !.st = "join", !.goal = "unwind"]
  <2>1. f \in FrameRec(spawned) /\ f.todo = <<>>
    BY <1>1, TopGood DEF FrameSt
  <2>2. new.carry = f.carry /\ Joining(new) = <<>> /\ SetTop(g, new) /\ UNCHANGED taskScopes
    BY <1>3, <2>1 DEF FrameRec, Joining, stackVars
  <2> HIDE DEF new
  <2> QED BY <1>1, <2>2, KeepTop
<1> QED BY <1>2, <1>3 DEF UnwindScope

LEMMA PushScopeKeep ==
  ASSUME IInv, LinkInv, KeepInv, NEW g \in Goroutine, PushScope(g) \/ EnterFunction(g)
  PROVE  KeepInv'
<1>1. Running(g)
  BY DEF PushScope, EnterFunction, Instr, Step
<1>2. PICK arg : EnterScope(g, Top(g), arg)
  BY DEF PushScope, EnterFunction
<1> QED BY <1>1, <1>2, EnterScopeKeep

----------------------------------------------------------------------------
(* Calls and returns *)

\* Stack t has the lists of stack s, or empty ones.
Fewer(t, s) ==
  \A i \in Nat \ {0} : /\ TodoAt(t, i) = TodoAt(s, i) \/ TodoAt(t, i) = <<>>
                       /\ CarryAt(t, i) = CarryAt(s, i) \/ CarryAt(t, i) = <<>>

LEMMA FewerLists ==
  ASSUME NEW scopes, NEW s, NEW t, Fewer(t, s), Distinct(Kept(scopes, s))
  PROVE  Distinct(Kept(scopes, t))
<1> DEFINE L == Kept(scopes, s)
           M == Kept(scopes, t)
<1>1. \A i \in Nat \ {0} : /\ L[<<"scope", i>>] = ScopeAt(scopes, i)
                           /\ L[<<"todo", i>>] = TodoAt(s, i)
                           /\ L[<<"carry", i>>] = CarryAt(s, i)
  BY KeptAt
<1>2. \A i \in Nat \ {0} : /\ M[<<"scope", i>>] = ScopeAt(scopes, i)
                           /\ M[<<"todo", i>>] = TodoAt(t, i)
                           /\ M[<<"carry", i>>] = CarryAt(t, i)
  BY KeptAt
<1> HIDE DEF L, M
<1>3. \A i \in Nat \ {0} : /\ M[<<"scope", i>>] = L[<<"scope", i>>]
                           /\ M[<<"todo", i>>] = L[<<"todo", i>>] \/ M[<<"todo", i>>] = <<>>
                           /\ M[<<"carry", i>>] = L[<<"carry", i>>] \/ M[<<"carry", i>>] = <<>>
  BY <1>1, <1>2 DEF Fewer
<1>4. \A k \in Key : M[k] = L[k] \/ M[k] = <<>>
  <2> SUFFICES ASSUME NEW k \in Key PROVE M[k] = L[k] \/ M[k] = <<>>
    OBVIOUS
  <2>1. PICK i \in Nat \ {0} : k = <<"scope", i>> \/ k = <<"todo", i>> \/ k = <<"carry", i>>
    BY KeyParts
  <2> QED BY <1>3, <2>1
<1>5. Distinct(M)
  BY <1>4, DropDistinct DEF L
<1> QED BY <1>5 DEF M

LEMMA FewerTrans ==
  ASSUME NEW s, NEW t, NEW u, Fewer(u, t), Fewer(t, s)
  PROVE  Fewer(u, s)
BY DEF Fewer

LEMMA FewerPush ==
  ASSUME NEW S, NEW s \in Seq(S), NEW f \in S, Joining(f) = <<>>, f.carry = <<>>
  PROVE  Fewer(Append(s, f), s)
<1>1. \A i \in Nat \ {0} :
        /\ TodoAt(Append(s, f), i) = IF i = Len(s) + 1 THEN Joining(f) ELSE TodoAt(s, i)
        /\ CarryAt(Append(s, f), i) = IF i = Len(s) + 1 THEN f.carry ELSE CarryAt(s, i)
  BY PushLists
<1> QED BY <1>1 DEF Fewer

LEMMA FewerPop ==
  ASSUME NEW S, NEW s \in Seq(S), s # <<>>
  PROVE  Fewer(Front(s), s)
<1>1. \A i \in Nat \ {0} :
        /\ TodoAt(Front(s), i) = IF i = Len(s) THEN <<>> ELSE TodoAt(s, i)
        /\ CarryAt(Front(s), i) = IF i = Len(s) THEN <<>> ELSE CarryAt(s, i)
  BY PopLists
<1> QED BY <1>1 DEF Fewer

LEMMA FewerTop ==
  ASSUME NEW S, NEW s \in Seq(S), s # <<>>, NEW f \in S,
         Joining(f) = Joining(Last(s)) \/ Joining(f) = <<>>, f.carry = Last(s).carry
  PROVE  Fewer(Append(Front(s), f), s)
<1>1. \A i \in Nat \ {0} :
        /\ TodoAt(Append(Front(s), f), i) = IF i = Len(s) THEN Joining(f) ELSE TodoAt(s, i)
        /\ CarryAt(Append(Front(s), f), i) = IF i = Len(s) THEN f.carry ELSE CarryAt(s, i)
  BY TopLists
<1>2. TodoAt(s, Len(s)) = Joining(Last(s)) /\ CarryAt(s, Len(s)) = Last(s).carry
  <2>1. Len(s) \in DOMAIN s /\ Last(s) = s[Len(s)]
    <3>1. Len(s) \in Nat /\ Len(s) >= 1 /\ Last(s) = s[Len(s)]
      BY StackParts
    <3>2. DOMAIN s = 1 .. Len(s)
      BY LenProperties
    <3> QED BY <3>1, <3>2
  <2> QED BY <2>1 DEF TodoAt, CarryAt
<1> QED BY <1>1, <1>2 DEF Fewer

\* Frames come and go, the scopes stay.
LEMMA KeepFewer ==
  ASSUME IInv, KeepInv, NEW g \in Goroutine, NEW stack, Fewer(stack, frames[g]),
         frames' = [frames EXCEPT ![g] = stack], UNCHANGED taskScopes
  PROVE  KeepInv'
<1>1. taskScopes' = [taskScopes EXCEPT ![g] = taskScopes[g]]
  BY DEF IInv, ScopesOK
<1>2. Distinct(Kept(taskScopes[g], frames[g]))
  BY DEF KeepInv, Now
<1>3. Distinct(Kept(taskScopes[g], stack))
  BY <1>2, FewerLists
<1> QED BY <1>1, <1>3, KeepStep

LEMMA NewFrameLists ==
  ASSUME NEW kind, NEW mode, NEW arg, NEW i, NEW j
  PROVE  /\ Joining(NewFrame(kind, mode, arg, i, j)) = <<>>
         /\ NewFrame(kind, mode, arg, i, j).carry = <<>>
BY DEF NewFrame, Joining

LEMMA CallKeep ==
  ASSUME IInv, LinkInv, KeepInv, NEW g \in Goroutine, Call(g)
  PROVE  KeepInv'
<1>1. UNCHANGED taskScopes
  BY DEF Call, stackVars
<1>2. PICK arg : PushFrame(g, Callee(g, "fn", "always", arg))
  BY DEF Call
<1> DEFINE callee == Callee(g, "fn", "always", arg)
           stack == Append(frames[g], callee)
           S == FrameUpTo(spawned) \cup {callee}
<1>3. Joining(callee) = <<>> /\ callee.carry = <<>>
  BY NewFrameLists DEF Callee
<1>4. frames[g] \in Seq(S) /\ callee \in S
  BY SeqMonotonic DEF IInv, FramesOK
<1>5. frames' = [frames EXCEPT ![g] = stack]
  BY <1>2 DEF PushFrame
<1> HIDE DEF callee, S
<1>6. Fewer(stack, frames[g])
  BY <1>3, <1>4, FewerPush
<1> HIDE DEF stack
<1> QED BY <1>1, <1>5, <1>6, KeepFewer

LEMMA RunDeferredKeep ==
  ASSUME IInv, LinkInv, KeepInv, NEW g \in Goroutine, RunDeferred(g)
  PROVE  KeepInv'
<1> DEFINE f == Top(g)
           mode == Last(f.entries)
           front == Front(f.entries)
           rest == [f EXCEPT !.entries = front]
           callee == Callee(g, "defer", mode, 0)
           below == Append(Front(frames[g]), rest)
           stack == Append(below, callee)
<1>1. Running(g) /\ UNCHANGED taskScopes
  BY DEF RunDeferred, Step, stackVars
<1>2. f \in FrameRec(spawned)
  BY <1>1, TopType
<1> HIDE DEF front, mode
<1>3. rest.carry = f.carry /\ Joining(rest) = Joining(f)
  BY <1>2 DEF FrameRec, Joining
<1> HIDE DEF rest
<1>4. CASE SetTop(g, rest)
  BY <1>1, <1>3, <1>4, KeepTop
<1>5. CASE frames' = [frames EXCEPT ![g] = stack]
  <2> DEFINE S == FrameUpTo(spawned) \cup {rest, callee}
  <2>1. frames[g] \in Seq(S) /\ frames[g] # <<>> /\ rest \in S /\ callee \in S
    BY <1>1, SeqMonotonic DEF IInv, FramesOK, Running
  <2>2. Joining(callee) = <<>> /\ callee.carry = <<>>
    BY NewFrameLists DEF Callee
  <2> HIDE DEF callee, S
  <2>3. Fewer(below, frames[g])
    BY <1>3, <2>1, FewerTop DEF Top
  <2>4. below \in Seq(S)
    BY <2>1, StackTop, StackPush
  <2> HIDE DEF below
  <2>5. Fewer(stack, below)
    BY <2>1, <2>2, <2>4, FewerPush
  <2> HIDE DEF stack
  <2>6. Fewer(stack, frames[g])
    BY <2>3, <2>5, FewerTrans
  <2> QED BY <1>1, <1>5, <2>6, KeepFewer
<1> QED BY <1>4, <1>5 DEF RunDeferred, rest, front, mode

LEMMA LeaveKeep ==
  ASSUME IInv, LinkInv, KeepInv, NEW g \in Goroutine, Running(g), NEW r, Leave(g, r),
         UNCHANGED taskScopes
  PROVE  KeepInv'
<1> DEFINE s == frames[g]
           rest == Front(s)
           S == FrameUpTo(spawned)
<1>1. s # <<>> /\ s \in Seq(S) /\ rest \in Seq(S)
  BY StackTop DEF IInv, FramesOK, Running
<1>2. Fewer(rest, s)
  BY <1>1, FewerPop
<1>3. CASE rest = <<>>
  <2>1. frames' = [frames EXCEPT ![g] = <<>>]
    BY <1>3 DEF Leave
  <2>2. Fewer(<<>>, s)
    BY <1>2, <1>3
  <2> HIDE DEF rest
  <2> QED BY <2>1, <2>2, KeepFewer
<1>4. CASE rest # <<>>
  <2> DEFINE c == Last(rest)
             f == Top(g)
             new == Returned(c, f, r)
             stack == Append(Front(rest), new)
  <2>1. frames' = [frames EXCEPT ![g] = stack]
    BY <1>4 DEF Leave
  <2> HIDE DEF rest
  <2>2. c \in FrameUpTo(spawned)
    BY <1>1, <1>4, StackTop
  <2>3. new.carry = c.carry /\ (Joining(new) = Joining(c) \/ Joining(new) = <<>>)
    <3> DEFINE cur == DeferOutcome(c.cur, f.mode, r)
    <3>1. PICK st, cur1 : new = [c EXCEPT !.st = st, !.cur = cur1]
      <4>1. [c EXCEPT !.cur = cur] = [c EXCEPT !.st = c.st, !.cur = cur]
        <5> HIDE DEF c, cur
        <5> QED BY <2>2 DEF FrameUpTo, FrameRec
      <4>2. c = [c EXCEPT !.st = c.st, !.cur = c.cur]
        <5> HIDE DEF c
        <5> QED BY <2>2 DEF FrameUpTo, FrameRec
      <4> QED BY <4>1, <4>2 DEF Returned
    <3> HIDE DEF c, new
    <3> QED BY <2>2, <3>1 DEF FrameUpTo, FrameRec, Joining
  <2> DEFINE T == S \cup {new}
  <2> HIDE DEF new
  <2>4. rest \in Seq(T) /\ new \in T
    BY <1>1, SeqMonotonic
  <2> HIDE DEF T
  <2>5. Fewer(stack, rest)
    BY <1>4, <2>3, <2>4, FewerTop
  <2> HIDE DEF stack
  <2>6. Fewer(stack, s)
    BY <1>2, <2>5, FewerTrans
  <2> QED BY <2>1, <2>6, KeepFewer
<1> QED BY <1>3, <1>4

LEMMA FrameReturnsKeep ==
  ASSUME IInv, LinkInv, KeepInv, NEW g \in Goroutine, FrameReturns(g) \/ Fault(g)
  PROVE  KeepInv'
<1> DEFINE f == Top(g)
<1>1. Running(g) /\ UNCHANGED taskScopes
  BY DEF FrameReturns, Fault, Instr, Step, stackVars
<1>2. CASE FrameReturns(g) /\ f.kind = "fn" /\ f.cur = "recur"
  <2> DEFINE iter == f.iter + 1
             open == 0
             new == [f EXCEPT !.st = "enter", !.cur = "val", !.open = open, !.iter = iter]
  <2>1. SetTop(g, new)
    BY <1>2 DEF FrameReturns
  <2>2. f \in FrameRec(spawned)
    BY <1>1, TopType
  <2> HIDE DEF iter, open
  <2>3. new.carry = f.carry /\ Joining(new) = Joining(f)
    BY <2>2 DEF FrameRec, Joining
  <2> HIDE DEF new
  <2> QED BY <1>1, <2>1, <2>3, KeepTop
<1>3. ASSUME NEW r, Leave(g, r) PROVE KeepInv'
  BY <1>1, <1>3, LeaveKeep
<1> QED BY <1>2, <1>3 DEF FrameReturns, Fault

----------------------------------------------------------------------------
(* Tasks start and end *)

\* The innermost nursery, if there is one, gets a new handle.
LEMMA AdoptedOnce ==
  ASSUME NEW n \in Nat, NEW s \in Seq(ScopeUpTo(n)), NEW stack \in Seq(FrameUpTo(n)),
         Distinct(Kept(s, stack))
  PROVE  Distinct(Kept(AdoptAll(s, <<n + 1>>), stack))
<1> DEFINE h == n + 1
           scopes == AdoptAll(s, <<h>>)
           o == ownerIdx(s)
<1>1. CASE o = 0
  <2>1. scopes = s
    BY <1>1 DEF AdoptAll
  <2> QED BY <2>1
<1>2. CASE o # 0
  <2> DEFINE L == Kept(s, stack)
             M == Kept(scopes, stack)
             b == <<"scope", o>>
  <2>1. \A i \in Nat \ {0} :
          ScopeAt(scopes, i) = IF i = o THEN ScopeAt(s, i) \o <<h>> ELSE ScopeAt(s, i)
    <3> HIDE DEF h
    <3> QED BY AdoptLists
  <2>2. o \in Nat \ {0}
    BY <1>2, OwnerIdx, LenProperties
  <2>3. L \in [Key -> Seq(1 .. n)] /\ h \notin 1 .. n
    <3>1. Kept(s, stack) \in [Key -> Seq(1 .. n)]
      BY KeptType
    <3> QED BY <3>1
  <2> HIDE DEF scopes, o
  <2>4. \A i \in Nat \ {0} : /\ L[<<"scope", i>>] = ScopeAt(s, i)
                             /\ L[<<"todo", i>>] = TodoAt(stack, i)
                             /\ L[<<"carry", i>>] = CarryAt(stack, i)
    BY KeptAt
  <2>5. \A i \in Nat \ {0} : /\ M[<<"scope", i>>] = ScopeAt(scopes, i)
                             /\ M[<<"todo", i>>] = TodoAt(stack, i)
                             /\ M[<<"carry", i>>] = CarryAt(stack, i)
    BY KeptAt
  <2>6. Distinct(L)
    OBVIOUS
  <2> HIDE DEF L, M, h
  <2>7. b \in Key /\ M[b] = L[b] \o <<h>>
    BY <2>1, <2>2, <2>4, <2>5, KeyParts
  <2>8. \A i \in Nat \ {0} : /\ i # o => M[<<"scope", i>>] = L[<<"scope", i>>]
                             /\ M[<<"todo", i>>] = L[<<"todo", i>>]
                             /\ M[<<"carry", i>>] = L[<<"carry", i>>]
    BY <2>1, <2>4, <2>5
  <2>9. \A k \in Key \ {b} : M[k] = L[k]
    <3> SUFFICES ASSUME NEW k \in Key, k # b PROVE M[k] = L[k]
      OBVIOUS
    <3>1. PICK i \in Nat \ {0} : k = <<"scope", i>> \/ k = <<"todo", i>> \/ k = <<"carry", i>>
      BY KeyParts
    <3> QED BY <2>8, <3>1
  <2> HIDE DEF b
  <2>10. Distinct(M)
    <3>1. Added(L, M, b, h)
      BY ONLY <2>7, <2>9 DEF Added
    <3>2. b \in Key
      BY <2>7
    <3> QED BY ONLY <2>3, <2>6, <3>1, <3>2, AddDistinct
  <2> QED BY <2>10 DEF M, scopes, h
<1> QED BY <1>1, <1>2

LEMMA StartTaskKeep ==
  ASSUME IInv, LinkInv, KeepInv, NEW g \in Goroutine, StartTask(g)
  PROVE  KeepInv'
<1> DEFINE h == spawned + 1
           old == Last(frames[g])
           top == [old EXCEPT !.st = "run"]
           caller == Append(Front(frames[g]), top)
           scopes == AdoptAll(taskScopes[g], <<h>>)
<1>1. /\ Running(g) /\ Top(g).st = "spawn" /\ spawned < MaxTask
      /\ taskScopes' = [taskScopes EXCEPT ![g] = scopes]
  BY DEF StartTask, Step
<1>2. PICK kind : frames' = [frames EXCEPT ![g] = caller, ![h] = << NewFrame(kind, "always", 0, 0, 0) >>]
  BY DEF StartTask
<1> DEFINE body == NewFrame(kind, "always", 0, 0, 0)
<1>3. spawned \in Nat /\ h \in Goroutine /\ h # g
  <2>1. spawned \in Nat /\ h \in Handle /\ h \in Goroutine
    BY <1>1, TopType, ExecutorAssumption DEF Handle, Goroutine
  <2>2. h # g
    BY <1>1, <2>1 DEF IInv, TasksOK, Running
  <2> QED BY <2>1, <2>2
<1> HIDE DEF body
<1>4. Distinct(Kept(scopes, caller))
  <2> DEFINE s == frames[g]
             S == FrameUpTo(spawned)
  <2>1. s # <<>> /\ s \in Seq(S) /\ taskScopes[g] \in Seq(ScopeUpTo(spawned))
    BY <1>1 DEF IInv, FramesOK, ScopesOK, Running
  <2>2. old \in FrameRec(spawned) /\ old \in FrameUpTo(spawned)
    BY <1>1, TopType DEF Top
  <2>3. top \in S /\ top.carry = old.carry /\ Joining(top) = Joining(old)
    <3> HIDE DEF old
    <3> QED BY <2>2 DEF FrameUpTo, FrameRec, State, Joining
  <2> HIDE DEF top, S
  <2>4. Fewer(caller, s) /\ caller \in Seq(S)
    BY <2>1, <2>3, FewerTop, StackTop, StackPush
  <2>5. Distinct(Kept(taskScopes[g], s))
    BY DEF KeepInv, Now
  <2> HIDE DEF caller
  <2>6. Distinct(Kept(taskScopes[g], caller))
    BY <2>4, <2>5, FewerLists
  <2> QED BY <1>3, <2>1, <2>4, <2>6, AdoptedOnce DEF S
<1>5. Distinct(Kept(taskScopes[h], <<body>>))
  <2>1. Joining(body) = <<>> /\ body.carry = <<>>
    BY NewFrameLists DEF body
  <2>2. Fewer(<<body>>, frames[h])
    <3>1. DOMAIN <<body>> = 1 .. 1 /\ <<body>>[1] = body
      OBVIOUS
    <3>2. \A i \in DOMAIN <<body>> : <<body>>[i] = body
      BY <3>1
    <3> DEFINE t == <<body>>
    <3> HIDE DEF t
    <3>3. \A i \in DOMAIN t : t[i] = body
      BY <3>2 DEF t
    <3>4. Fewer(t, frames[h])
      BY <2>1, <3>3 DEF Fewer, TodoAt, CarryAt
    <3> QED BY <3>4 DEF t
  <2>3. Distinct(Kept(taskScopes[h], frames[h]))
    BY <1>3 DEF KeepInv, Now
  <2> QED BY <2>2, <2>3, FewerLists
<1> HIDE DEF caller, scopes, h
<1> SUFFICES ASSUME NEW k \in Goroutine PROVE Distinct(Kept(taskScopes'[k], frames'[k]))
  BY DEF KeepInv, Now, Distinct, Kept, ScopeAt, TodoAt, CarryAt, Joining
<1>6. /\ frames'[k] = IF k = h THEN <<body>> ELSE IF k = g THEN caller ELSE frames[k]
      /\ taskScopes'[k] = IF k = g THEN scopes ELSE taskScopes[k]
  BY <1>1, <1>2, <1>3 DEF IInv, FramesOK, ScopesOK, body
<1>7. Distinct(Kept(taskScopes[k], frames[k]))
  BY DEF KeepInv, Now
<1> QED BY <1>3, <1>4, <1>5, <1>6, <1>7

LEMMA StutterKeep == KeepInv /\ UNCHANGED <<frames, taskScopes>> => KeepInv'
BY DEF KeepInv, Now, Distinct, Kept, ScopeAt, TodoAt, CarryAt, Joining

LEMMA InitKeep == Init => KeepInv
<1> SUFFICES ASSUME Init, NEW g \in Goroutine PROVE Distinct(Now(g))
  BY DEF KeepInv
<1> DEFINE body == NewFrame("body", "always", 0, 0, 0)
<1>1. (frames[g] = <<body>> \/ frames[g] = <<>>) /\ taskScopes[g] = <<>>
  BY DEF Init
<1>2. \A i \in DOMAIN frames[g] : frames[g][i] = body
  BY <1>1
<1>3. Joining(body) = <<>> /\ body.carry = <<>>
  BY NewFrameLists
<1> HIDE DEF body
<1>4. \A i \in Nat \ {0} : /\ Now(g)[<<"scope", i>>] = <<>>
                           /\ Now(g)[<<"todo", i>>] = <<>>
                           /\ Now(g)[<<"carry", i>>] = <<>>
  <2>1. \A i \in Nat \ {0} : /\ Now(g)[<<"scope", i>>] = ScopeAt(taskScopes[g], i)
                             /\ Now(g)[<<"todo", i>>] = TodoAt(frames[g], i)
                             /\ Now(g)[<<"carry", i>>] = CarryAt(frames[g], i)
    BY KeptNow
  <2>2. \A i : ScopeAt(taskScopes[g], i) = <<>>
    BY <1>1, EmptySeq DEF ScopeAt
  <2>3. \A i : TodoAt(frames[g], i) = <<>> /\ CarryAt(frames[g], i) = <<>>
    BY <1>2, <1>3 DEF TodoAt, CarryAt
  <2> QED BY <2>1, <2>2, <2>3
<1>5. \A k \in Key : Now(g)[k] = <<>>
  <2> SUFFICES ASSUME NEW k \in Key PROVE Now(g)[k] = <<>>
    OBVIOUS
  <2>1. PICK i \in Nat \ {0} : k = <<"scope", i>> \/ k = <<"todo", i>> \/ k = <<"carry", i>>
    BY KeyParts
  <2> QED BY <1>4, <2>1
<1> QED BY <1>5, EmptySeq DEF Distinct

LEMMA NextKeep == IInv /\ LinkInv /\ KeepInv /\ [Next]_vars => KeepInv'
<1> SUFFICES ASSUME IInv, LinkInv, KeepInv, [Next]_vars PROVE KeepInv'
  OBVIOUS
<1>1. ASSUME NEW g \in Goroutine, Instruction(g) PROVE KeepInv'
  BY <1>1, PushScopeKeep, QuietInstructionKeep, CallKeep, FrameReturnsKeep DEF Instruction
<1>2. ASSUME NEW g \in Goroutine, Progress(g) PROVE KeepInv'
  BY <1>2, PushScopeKeep, StartTaskKeep, AwaitReturnsKeep, PopScopeKeep, JoinHandleKeep,
     JoiningKeep, RunDeferredKeep, RecurScopeLeftKeep, UnwindScopeKeep, FrameReturnsKeep DEF Progress
<1>3. ASSUME NEW h \in Handle, TaskEnds(h) PROVE KeepInv'
  <2>1. UNCHANGED <<frames, taskScopes>>
    BY <1>3 DEF TaskEnds, TaskCompletes, TaskReleases, stackVars
  <2> QED BY <2>1, StutterKeep
<1>4. CASE Exited \/ UNCHANGED vars
  BY <1>4, StutterKeep DEF Exited, vars
<1> QED BY <1>1, <1>2, <1>3, <1>4 DEF Next

----------------------------------------------------------------------------
(* Handles are kept once *)

\* The lists of a goroutine, and nothing else, are where its handles are.
LEMMA PlaceOf ==
  ASSUME IInv, NEW h, NEW p \in Places(h)
  PROVE  \E g \in Goroutine, k \in Key :
           \E j \in DOMAIN Now(g)[k] : Now(g)[k][j] = h /\ p = <<k[1], g, k[2], j>>
<1>1. PICK g \in Goroutine : p \in InScopes(g, h) \cup InFrames(g, h)
  BY DEF Places
<1>2. \A i \in Nat \ {0} : /\ Now(g)[<<"scope", i>>] = ScopeAt(taskScopes[g], i)
                           /\ Now(g)[<<"todo", i>>] = TodoAt(frames[g], i)
                           /\ Now(g)[<<"carry", i>>] = CarryAt(frames[g], i)
  BY KeptNow
<1>3. /\ \A i \in DOMAIN taskScopes[g] : i \in Nat \ {0}
      /\ \A i \in DOMAIN frames[g] : i \in Nat \ {0}
  <2>1. DOMAIN taskScopes[g] = 1 .. Len(taskScopes[g]) /\ DOMAIN frames[g] = 1 .. Len(frames[g])
    BY LenProperties DEF IInv, FramesOK, ScopesOK
  <2> QED BY <2>1
<1> DEFINE Found(kind, i, j) == /\ <<kind, i>> \in Key /\ j \in DOMAIN Now(g)[<<kind, i>>]
                                /\ Now(g)[<<kind, i>>][j] = h /\ p = <<kind, g, i, j>>
<1>4. \E kind, i, j : Found(kind, i, j)
  <2>1. CASE p \in InScopes(g, h)
    <3>1. PICK i \in DOMAIN taskScopes[g] : p \in Listed("scope", g, i, taskScopes[g][i].hs, h)
      BY <2>1 DEF InScopes
    <3>2. PICK j \in DOMAIN taskScopes[g][i].hs :
            taskScopes[g][i].hs[j] = h /\ p = <<"scope", g, i, j>>
      BY <3>1 DEF Listed
    <3>3. i \in Nat \ {0} /\ <<"scope", i>> \in Key /\ Now(g)[<<"scope", i>>] = taskScopes[g][i].hs
      BY <1>2, <1>3, <3>1, KeyParts DEF ScopeAt
    <3>4. Found("scope", i, j)
      BY <3>2, <3>3
    <3> QED BY <3>4
  <2>2. CASE p \in InFrames(g, h)
    <3>1. PICK i \in DOMAIN frames[g] : \/ p \in Listed("todo", g, i, Joining(frames[g][i]), h)
                                        \/ p \in Listed("carry", g, i, frames[g][i].carry, h)
      BY <2>2 DEF InFrames
    <3>2. /\ i \in Nat \ {0} /\ <<"todo", i>> \in Key /\ <<"carry", i>> \in Key
          /\ Now(g)[<<"todo", i>>] = Joining(frames[g][i])
          /\ Now(g)[<<"carry", i>>] = frames[g][i].carry
      BY <1>2, <1>3, <3>1, KeyParts DEF TodoAt, CarryAt
    <3>3. CASE p \in Listed("todo", g, i, Joining(frames[g][i]), h)
      <4>1. PICK j \in DOMAIN Joining(frames[g][i]) :
              Joining(frames[g][i])[j] = h /\ p = <<"todo", g, i, j>>
        BY <3>3 DEF Listed
      <4>2. Found("todo", i, j)
        BY <3>2, <4>1
      <4> QED BY <4>2
    <3>4. CASE p \in Listed("carry", g, i, frames[g][i].carry, h)
      <4>1. PICK j \in DOMAIN frames[g][i].carry :
              frames[g][i].carry[j] = h /\ p = <<"carry", g, i, j>>
        BY <3>4 DEF Listed
      <4>2. Found("carry", i, j)
        BY <3>2, <4>1
      <4> QED BY <4>2
    <3> QED BY <3>1, <3>3, <3>4
  <2> QED BY <1>1, <2>1, <2>2
<1>5. PICK kind, i, j : Found(kind, i, j)
  BY <1>4
<1>6. <<kind, i>>[1] = kind /\ <<kind, i>>[2] = i
  OBVIOUS
<1> QED BY <1>5, <1>6

\* A goroutine keeps only the handles of tasks it spawned.
LEMMA KeptIsMine ==
  ASSUME IInv, LinkInv, NEW g \in Goroutine, NEW k \in Key
  PROVE  Now(g)[k] \in Seq(Mine(g))
<1>1. frames[g] \in Seq(GoodFrame(g)) /\ taskScopes[g] \in Seq(ScopeHeld(g))
  BY DEF LinkInv, StackGood
<1>2. \A i \in DOMAIN taskScopes[g] : taskScopes[g][i].hs \in Seq(Mine(g))
  <2>1. \A i \in DOMAIN taskScopes[g] : taskScopes[g][i] \in ScopeHeld(g)
    BY <1>1, LenProperties, ElementOfSeq
  <2> QED BY <2>1 DEF ScopeHeld
<1>3. \A i \in DOMAIN frames[g] : /\ Joining(frames[g][i]) \in Seq(Mine(g))
                                  /\ frames[g][i].carry \in Seq(Mine(g))
  <2>1. \A i \in DOMAIN frames[g] : frames[g][i] \in GoodFrame(g)
    BY <1>1, LenProperties, ElementOfSeq
  <2> QED BY <2>1, EmptySeq DEF GoodFrame, Held, Joining
<1>4. \A i : /\ ScopeAt(taskScopes[g], i) \in Seq(Mine(g)) /\ TodoAt(frames[g], i) \in Seq(Mine(g))
             /\ CarryAt(frames[g], i) \in Seq(Mine(g))
  BY <1>2, <1>3, EmptySeq DEF ScopeAt, TodoAt, CarryAt
<1>5. PICK i \in Nat \ {0} : k = <<"scope", i>> \/ k = <<"todo", i>> \/ k = <<"carry", i>>
  BY KeyParts
<1>6. /\ Now(g)[<<"scope", i>>] = ScopeAt(taskScopes[g], i)
      /\ Now(g)[<<"todo", i>>] = TodoAt(frames[g], i)
      /\ Now(g)[<<"carry", i>>] = CarryAt(frames[g], i)
  BY KeptNow
<1> QED BY <1>4, <1>5, <1>6

LEMMA KeptOnce == IInv /\ LinkInv /\ KeepInv => OwnedOnce
<1> SUFFICES ASSUME IInv, LinkInv, KeepInv, NEW h \in Handle
             PROVE  Cardinality(Places(h)) <= 1 /\ \A p \in Places(h) : p[2] = spawner[h]
  BY DEF OwnedOnce
<1> DEFINE Found(p, g, k, j) == /\ g \in Goroutine /\ k \in Key /\ j \in 1 .. Len(Now(g)[k])
                                /\ Now(g)[k][j] = h /\ p = <<k[1], g, k[2], j>> /\ spawner[h] = g
<1>1. ASSUME NEW p \in Places(h)
      PROVE  \E g, k, j : Found(p, g, k, j)
  <2>0. PICK g \in Goroutine, k \in Key :
          \E j \in DOMAIN Now(g)[k] : Now(g)[k][j] = h /\ p = <<k[1], g, k[2], j>>
    BY PlaceOf
  <2>1. PICK j \in DOMAIN Now(g)[k] : Now(g)[k][j] = h /\ p = <<k[1], g, k[2], j>>
    BY <2>0
  <2>2. Now(g)[k] \in Seq(Mine(g))
    BY KeptIsMine
  <2>3. j \in 1 .. Len(Now(g)[k]) /\ h \in Mine(g)
    BY <2>1, <2>2, LenProperties, ElementOfSeq
  <2>4. spawner[h] = g
    BY <2>3 DEF Mine
  <2>5. Found(p, g, k, j)
    BY <2>1, <2>3, <2>4
  <2> QED BY <2>5
<1>2. ASSUME NEW p \in Places(h), NEW q \in Places(h)
      PROVE  p = q
  <2>1. PICK g, k, j : Found(p, g, k, j)
    BY <1>1
  <2>2. PICK g2, k2, j2 : Found(q, g2, k2, j2)
    BY <1>1
  <2>3. g2 = g /\ Distinct(Now(g))
    BY <2>1, <2>2 DEF KeepInv
  <2>4. k = k2 /\ j = j2
    <3> DEFINE L == Now(g)
    <3>1. /\ k \in Key /\ k2 \in Key /\ j \in 1 .. Len(L[k]) /\ j2 \in 1 .. Len(L[k2])
          /\ L[k][j] = L[k2][j2] /\ Distinct(L)
      BY <2>1, <2>2, <2>3
    <3> HIDE DEF L
    <3> QED BY ONLY <3>1 DEF Distinct
  <2> QED BY <2>1, <2>2, <2>3, <2>4
<1>3. \A p \in Places(h) : p[2] = spawner[h]
  <2> SUFFICES ASSUME NEW p \in Places(h) PROVE p[2] = spawner[h]
    OBVIOUS
  <2>1. PICK g, k, j : Found(p, g, k, j)
    BY <1>1
  <2> QED BY <2>1
<1>4. Cardinality(Places(h)) <= 1
  <2>1. CASE Places(h) = {}
    BY <2>1, FS_EmptySet
  <2>2. CASE Places(h) # {}
    <3>1. PICK p : p \in Places(h)
      BY <2>2
    <3>2. Places(h) = {p}
      BY <1>2, <3>1
    <3>3. Cardinality({p}) = 1
      BY FS_Singleton
    <3> QED BY <3>2, <3>3
  <2> QED BY <2>1, <2>2
<1> QED BY <1>3, <1>4

\* Whatever the program does, no two positions of the lists of a goroutine's
\* executor have the same handle.
THEOREM ListsStayDistinct == Spec => [](IInv /\ LinkInv /\ KeepInv)
<1>1. Init => IInv /\ LinkInv /\ KeepInv
  BY InitIInv, InitLink, InitKeep
<1>2. IInv /\ LinkInv /\ KeepInv /\ [Next]_vars => (IInv /\ LinkInv /\ KeepInv)'
  BY NextIInv, NextLink, NextKeep
<1> QED BY <1>1, <1>2, PTL DEF Spec

\* OpSpawn gives a handle to one task scope; popTaskScope, the recur branch of
\* OpPopScope with recurCarryHandles, and OpPushScope only ever move it: at
\* every moment a handle is in at most one list, once, and that list belongs to
\* the goroutine that spawned the task.  This holds for every program, also for
\* one that faults in the middle of a nursery.
THEOREM HandlesKeptOnce == Spec => []OwnedOnce
BY ListsStayDistinct, KeptOnce, PTL

----------------------------------------------------------------------------
(* Waiting: who has the slots of a limiter *)

LimitsOf(g) == {taskLimits[g][i] : i \in DOMAIN taskLimits[g]} \ {0}

\* A task is spawned after its spawner, a limiter is on the stack of one
\* goroutine, and its slots are with tasks that this goroutine spawned.
SlotInv ==
  /\ \A h \in 1 .. spawned : spawner[h] < h
  /\ \A g, k \in Goroutine : LimitsOf(g) \cap LimitsOf(k) # {} => g = k
  /\ \A g \in Goroutine, h \in Handle : holds[h] \in LimitsOf(g) => spawner[h] = g

----------------------------------------------------------------------------
(* Steps that make no limiter and take no slot *)

LEMMA SlotsKept ==
  ASSUME IInv, SlotInv, UNCHANGED <<spawned, spawner>>,
         \A k \in Goroutine : LimitsOf(k)' \subseteq LimitsOf(k),
         \A h \in Handle : holds'[h] \in {0, holds[h]}
  PROVE  SlotInv'
<1>1. \A g \in Goroutine : 0 \notin LimitsOf(g)
  BY DEF LimitsOf
<1>2. ASSUME NEW g \in Goroutine, NEW h \in Handle, holds'[h] \in LimitsOf(g)'
      PROVE  spawner'[h] = g
  <2>1. holds'[h] \in LimitsOf(g) /\ holds'[h] = holds[h]
    BY <1>1, <1>2
  <2> QED BY <2>1 DEF SlotInv
<1>3. ASSUME NEW g \in Goroutine, NEW k \in Goroutine, LimitsOf(g)' \cap LimitsOf(k)' # {}
      PROVE  g = k
  <2>1. LimitsOf(g) \cap LimitsOf(k) # {}
    BY <1>3
  <2> QED BY <2>1 DEF SlotInv
<1>4. \A h \in 1 .. spawned' : spawner'[h] < h
  BY DEF SlotInv
<1> QED BY <1>2, <1>3, <1>4 DEF SlotInv

LEMMA SlotsSame ==
  ASSUME IInv, SlotInv, UNCHANGED <<taskLimits, spawned, spawner, holds>>
  PROVE  SlotInv'
<1>1. \A k \in Goroutine : LimitsOf(k)' = LimitsOf(k)
  BY DEF LimitsOf
<1> QED BY <1>1, SlotsKept

\* The limit on top goes.
LEMMA SlotsPopped ==
  ASSUME IInv, SlotInv, NEW g \in Goroutine, UNCHANGED <<spawned, spawner, holds>>,
         taskLimits' = LimitPopped(g) \/ taskLimits' = LimitUnwound(g)
  PROVE  SlotInv'
<1> DEFINE s == taskLimits[g]
           S == 0 .. Len(limiter)
<1>1. s \in Seq(S) /\ taskLimits \in [Goroutine -> Seq(S)]
  BY DEF IInv, LimitersOK
<1>2. taskLimits'[g] = s \/ (s # <<>> /\ taskLimits'[g] = Front(s))
  BY <1>1 DEF LimitPopped, LimitUnwound, Popped
<1>3. \A k \in Goroutine : k # g => taskLimits'[k] = taskLimits[k]
  BY <1>1 DEF LimitPopped, LimitUnwound
<1>4. LimitsOf(g)' \subseteq LimitsOf(g)
  <2>1. CASE taskLimits'[g] = s
    BY <2>1 DEF LimitsOf
  <2>2. CASE s # <<>> /\ taskLimits'[g] = Front(s)
    <3> HIDE DEF S
    <3> DEFINE t == Front(s)
    <3>1. /\ Len(s) \in Nat /\ Len(s) >= 1 /\ t \in Seq(S) /\ Len(t) = Len(s) - 1
          /\ \A i \in 1 .. Len(s) - 1 : t[i] = s[i]
      BY <1>1, <2>2, StackParts
    <3>2. DOMAIN t = 1 .. Len(s) - 1 /\ DOMAIN s = 1 .. Len(s)
      BY <1>1, <3>1, LenProperties
    <3>3. \A i \in DOMAIN t : i \in DOMAIN s /\ t[i] = s[i]
      BY <3>1, <3>2
    <3> HIDE DEF t
    <3>4. taskLimits'[g] = t
      BY <2>2 DEF t
    <3> QED BY <3>3, <3>4 DEF LimitsOf
  <2> QED BY <1>2, <2>1, <2>2
<1>5. \A k \in Goroutine : LimitsOf(k)' \subseteq LimitsOf(k)
  BY <1>3, <1>4 DEF LimitsOf
<1> QED BY <1>5, SlotsKept

----------------------------------------------------------------------------
(* Nursery scopes and spawned tasks *)

\* A new limiter is on no other stack, and nobody has a slot of it.
LEMMA EnterScopeSlots ==
  ASSUME IInv, SlotInv, NEW g \in Goroutine, NEW f, NEW arg, EnterScope(g, f, arg)
  PROVE  SlotInv'
<1> DEFINE l == IF arg = 0 THEN 0 ELSE Len(limiter) + 1
           S == 0 .. Len(limiter)
           s == taskLimits[g]
           t == Append(s, l)
<1>1. /\ taskLimits \in [Goroutine -> Seq(S)] /\ holds \in [Goroutine -> S]
      /\ Len(limiter) \in Nat
  BY LenProperties DEF IInv, LimitersOK
<1>2. /\ taskLimits' = [taskLimits EXCEPT ![g] = t]
      /\ UNCHANGED <<spawned, spawner, holds>>
  BY DEF EnterScope, taskVars
<1>3. l = 0 \/ l \notin S
  BY <1>1
<1>4. s \in Seq(Nat) /\ l \in Nat
  <2>1. S \subseteq Nat
    BY <1>1
  <2>2. Seq(S) \subseteq Seq(Nat)
    BY <2>1, SeqMonotonic
  <2> QED BY <1>1, <2>2
<1>5. \A k \in Goroutine : LimitsOf(k) \subseteq S
  <2> SUFFICES ASSUME NEW k \in Goroutine, NEW i \in DOMAIN taskLimits[k]
               PROVE  taskLimits[k][i] \in S
    BY DEF LimitsOf
  <2> QED BY <1>1, ElementOfSeq, LenProperties
<1> HIDE DEF l, S
<1>6. LimitsOf(g)' \subseteq LimitsOf(g) \cup ({l} \ {0})
  <2>1. taskLimits'[g] = t
    BY <1>1, <1>2
  <2>2. /\ Len(s) \in Nat /\ Len(t) = Len(s) + 1 /\ t \in Seq(Nat)
        /\ t[Len(s) + 1] = l /\ \A i \in 1 .. Len(s) : t[i] = s[i]
    BY <1>4, StackPush
  <2>3. DOMAIN t = 1 .. Len(s) + 1 /\ DOMAIN s = 1 .. Len(s)
    BY <1>4, <2>2, LenProperties
  <2>4. \A i \in DOMAIN t : t[i] = l \/ (i \in DOMAIN s /\ t[i] = s[i])
    BY <2>2, <2>3
  <2> HIDE DEF t
  <2> QED BY <2>1, <2>4 DEF LimitsOf
<1>7. \A k \in Goroutine : k # g => LimitsOf(k)' = LimitsOf(k)
  BY <1>1, <1>2 DEF LimitsOf
<1>8. \A k \in Goroutine, h \in Handle : holds'[h] \in LimitsOf(k)' => spawner'[h] = k
  <2> SUFFICES ASSUME NEW k \in Goroutine, NEW h \in Handle, holds[h] \in LimitsOf(k)'
               PROVE  holds[h] \in LimitsOf(k)
    BY <1>2 DEF SlotInv
  <2>1. holds[h] \in S
    BY <1>1 DEF Handle, Goroutine
  <2> QED BY <1>3, <1>6, <1>7, <2>1
<1>9. ASSUME NEW k \in Goroutine, NEW m \in Goroutine, LimitsOf(k)' \cap LimitsOf(m)' # {}
      PROVE  k = m
  <2>1. PICK x : x \in LimitsOf(k)' /\ x \in LimitsOf(m)'
    BY <1>9
  <2>2. CASE x \in LimitsOf(k) /\ x \in LimitsOf(m)
    BY <2>2 DEF SlotInv
  <2>3. CASE x \notin LimitsOf(k)
    BY <1>3, <1>5, <1>6, <1>7, <2>1, <2>3
  <2>4. CASE x \notin LimitsOf(m)
    BY <1>3, <1>5, <1>6, <1>7, <2>1, <2>4
  <2> QED BY <2>2, <2>3, <2>4
<1>10. \A h \in 1 .. spawned' : spawner'[h] < h
  BY <1>2 DEF SlotInv
<1> QED BY <1>8, <1>9, <1>10 DEF SlotInv

\* The limiter a spawn uses is on the spawner's stack.
LEMMA SpawnLimiterIsOwn ==
  ASSUME IInv, NEW g \in Goroutine, spawnLimiter(g) # 0
  PROVE  spawnLimiter(g) \in LimitsOf(g)
<1> DEFINE s == taskLimits[g]
           S == 0 .. Len(limiter)
<1>1. s \in Seq(S) /\ s # <<>> /\ spawnLimiter(g) = Last(s)
  BY DEF IInv, LimitersOK, spawnLimiter, TopOr
<1> HIDE DEF S
<1>2. Len(s) \in Nat /\ Len(s) >= 1 /\ Last(s) = s[Len(s)] /\ DOMAIN s = 1 .. Len(s)
  BY <1>1, StackParts, LenProperties
<1> QED BY <1>1, <1>2 DEF LimitsOf

\* A running goroutine is the main one or a spawned task.
LEMMA RunningSpawned ==
  ASSUME IInv, NEW g \in Goroutine, Running(g)
  PROVE  spawned \in Nat /\ g \in 0 .. spawned
<1>1. spawned \in Nat /\ MaxTask \in Nat
  BY ExecutorAssumption DEF IInv, TasksOK
<1>2. g > spawned => g \in Handle
  BY <1>1 DEF Goroutine, Handle
<1>3. ~(g > spawned)
  BY <1>2 DEF IInv, TasksOK, Running
<1> QED BY <1>1, <1>3 DEF Goroutine

LEMMA StartTaskSlots ==
  ASSUME IInv, SlotInv, NEW g \in Goroutine, StartTask(g)
  PROVE  SlotInv'
<1> DEFINE h == spawned + 1
           l == spawnLimiter(g)
<1>1. /\ Running(g) /\ spawned < MaxTask /\ spawned' = h /\ UNCHANGED taskLimits
      /\ holds' = [holds EXCEPT ![h] = l] /\ spawner' = [spawner EXCEPT ![h] = g]
  BY DEF StartTask, Step
<1>2. spawned \in Nat /\ g \in 0 .. spawned
  BY <1>1, RunningSpawned
<1>3. h \in Handle /\ h \in Goroutine /\ MaxTask \in Nat
  BY <1>1, <1>2, ExecutorAssumption DEF Handle, Goroutine
<1>4. holds \in [Goroutine -> 0 .. Len(limiter)] /\ spawner \in [Handle -> Goroutine]
  BY DEF IInv, LimitersOK, TasksOK
<1>5. \A k \in Goroutine : LimitsOf(k)' = LimitsOf(k) /\ 0 \notin LimitsOf(k)
  BY <1>1 DEF LimitsOf
<1>6. \A i \in Handle \ {h} : holds'[i] = holds[i] /\ spawner'[i] = spawner[i]
  BY <1>1, <1>4 DEF Handle, Goroutine
<1>7. holds'[h] = l /\ spawner'[h] = g
  BY <1>1, <1>3, <1>4
<1>8. l = 0 \/ l \in LimitsOf(g)
  BY SpawnLimiterIsOwn
<1> HIDE DEF l
<1>9. ASSUME NEW k \in Goroutine, NEW i \in Handle, holds'[i] \in LimitsOf(k)'
      PROVE  spawner'[i] = k
  <2>1. CASE i = h
    <3>1. l \in LimitsOf(k) /\ l \in LimitsOf(g)
      BY <1>5, <1>7, <1>8, <1>9, <2>1
    <3>2. LimitsOf(g) \cap LimitsOf(k) # {}
      BY <3>1
    <3> QED BY <1>7, <2>1, <3>2 DEF SlotInv
  <2>2. CASE i # h
    BY <1>5, <1>6, <1>9, <2>2 DEF SlotInv
  <2> QED BY <2>1, <2>2
<1>10. ASSUME NEW i \in 1 .. spawned' PROVE spawner'[i] < i
  <2>1. CASE i = h
    BY <1>2, <1>7, <2>1
  <2>2. CASE i # h
    <3>1. i \in 1 .. spawned /\ i \in Handle
      BY <1>1, <1>2, <1>3, <2>2 DEF Handle
    <3> QED BY <1>6, <2>2, <3>1 DEF SlotInv
  <2> QED BY <2>1, <2>2
<1>11. ASSUME NEW k \in Goroutine, NEW m \in Goroutine, LimitsOf(k)' \cap LimitsOf(m)' # {}
       PROVE  k = m
  <2>1. LimitsOf(k) \cap LimitsOf(m) # {}
    BY <1>5, <1>11
  <2> QED BY <2>1 DEF SlotInv
<1> QED BY <1>9, <1>10, <1>11 DEF SlotInv

LEMMA InstructionSlots ==
  ASSUME IInv, SlotInv, NEW g \in Goroutine, Instruction(g)
  PROVE  SlotInv'
<1>1. CASE PushScope(g)
  BY <1>1, EnterScopeSlots DEF PushScope
<1>2. ASSUME UNCHANGED stackVars, UNCHANGED <<spawned, holds, spawner>> PROVE SlotInv'
  BY <1>2, SlotsSame DEF stackVars
<1>3. CASE \/ \E mode \in Mode : Defer(g, mode)
           \/ Call(g)
           \/ Spawn(g)
           \/ \E h \in Handle : Await(g, h)
  BY <1>2, <1>3 DEF Defer, Call, Spawn, Await, taskVars
<1>4. CASE Throw(g) \/ CallFails(g) \/ Return(g)
  BY <1>2, <1>4 DEF Throw, CallFails, Return, StartUnwind, taskVars
<1>5. CASE Fault(g)
  BY <1>2, <1>5 DEF Fault
<1> QED BY <1>1, <1>3, <1>4, <1>5 DEF Instruction

LEMMA ProgressSlots ==
  ASSUME IInv, SlotInv, NEW g \in Goroutine, Progress(g)
  PROVE  SlotInv'
<1>1. ASSUME UNCHANGED <<taskLimits, spawned, holds, spawner>> PROVE SlotInv'
  BY <1>1, SlotsSame
<1>2. ASSUME UNCHANGED <<spawned, holds, spawner>>,
             \/ UNCHANGED taskLimits
             \/ taskLimits' = LimitPopped(g)
             \/ taskLimits' = LimitUnwound(g)
      PROVE  SlotInv'
  BY <1>1, <1>2, SlotsPopped
<1>3. CASE EnterFunction(g)
  BY <1>3, EnterScopeSlots DEF EnterFunction
<1>4. CASE StartTask(g)
  BY <1>4, StartTaskSlots
<1>5. CASE AwaitReturns(g) \/ AwaitTimesOut(g) \/ JoinHandle(g) \/ CancelSibling(g)
  BY <1>1, <1>5 DEF AwaitReturns, AwaitTimesOut, JoinHandle, CancelSibling, stackVars, taskVars
<1>6. CASE Joined(g) \/ RunDeferred(g) \/ FrameReturns(g)
  BY <1>1, <1>6 DEF Joined, RunDeferred, FrameReturns, stackVars, taskVars
<1>7. CASE PopScope(g)
  <2>1. UNCHANGED taskLimits \/ taskLimits' = LimitPopped(g)
    BY <1>7 DEF PopScope, RecurPop, Migrate, BeginJoin, stackVars
  <2>2. UNCHANGED <<spawned, holds, spawner>>
    BY <1>7 DEF PopScope, taskVars
  <2> QED BY <1>2, <2>1, <2>2
<1>8. CASE RecurScopeLeft(g)
  <2>1. UNCHANGED taskLimits \/ taskLimits' = LimitPopped(g)
    BY <1>8 DEF RecurScopeLeft, Migrate, stackVars
  <2>2. UNCHANGED <<spawned, holds, spawner>>
    BY <1>8 DEF RecurScopeLeft, taskVars
  <2> QED BY <1>2, <2>1, <2>2
<1>9. CASE ScopeLeft(g) \/ ScopeUnwound(g)
  BY <1>2, <1>9 DEF ScopeLeft, ScopeUnwound, taskVars
<1>10. CASE UnwindScope(g)
  <2>1. UNCHANGED taskLimits
    BY <1>10 DEF UnwindScope, BeginJoin, stackVars
  <2>2. UNCHANGED <<spawned, holds, spawner>>
    BY <1>10 DEF UnwindScope, taskVars
  <2> QED BY <1>1, <2>1, <2>2
<1> QED BY <1>3, <1>4, <1>5, <1>6, <1>7, <1>8, <1>9, <1>10 DEF Progress

LEMMA NextSlots == IInv /\ SlotInv /\ [Next]_vars => SlotInv'
<1> SUFFICES ASSUME IInv, SlotInv, [Next]_vars PROVE SlotInv'
  OBVIOUS
<1>1. CASE Exited \/ UNCHANGED vars
  BY <1>1, SlotsSame DEF Exited, vars
<1>2. ASSUME NEW h \in Handle, TaskEnds(h) PROVE SlotInv'
  <2>1. CASE TaskCompletes(h)
    BY <2>1, SlotsSame DEF TaskCompletes, stackVars
  <2>2. CASE TaskReleases(h)
    <3>1. UNCHANGED <<taskLimits, spawned, spawner>> /\ holds' = [holds EXCEPT ![h] = 0]
      BY <2>2 DEF TaskReleases, stackVars
    <3>2. \A i \in Handle : holds'[i] \in {0, holds[i]}
      BY <3>1 DEF IInv, LimitersOK, Handle, Goroutine
    <3>3. \A k \in Goroutine : LimitsOf(k)' = LimitsOf(k)
      BY <3>1 DEF LimitsOf
    <3> QED BY <3>1, <3>2, <3>3, SlotsKept
  <2> QED BY <1>2, <2>1, <2>2 DEF TaskEnds
<1> QED BY <1>1, <1>2, InstructionSlots, ProgressSlots DEF Next

LEMMA InitSlots == Init => SlotInv
<1> SUFFICES ASSUME Init PROVE SlotInv
  OBVIOUS
<1>1. \A g \in Goroutine : LimitsOf(g) = {}
  <2> SUFFICES ASSUME NEW g \in Goroutine PROVE DOMAIN taskLimits[g] = {}
    BY DEF LimitsOf
  <2>1. taskLimits[g] = <<>>
    BY DEF Init
  <2>2. DOMAIN <<>> = {}
    BY EmptySeq, LenProperties
  <2> QED BY <2>1, <2>2
<1>2. 1 .. spawned = {}
  BY DEF Init
<1> QED BY <1>1, <1>2 DEF SlotInv

\* The invariants of handles together with the one of slots.
THEOREM SlotsAreLocal == Spec => [](IInv /\ LinkInv /\ SlotInv)
<1>1. Init => SlotInv
  BY InitSlots
<1>2. IInv /\ SlotInv /\ [Next]_vars => SlotInv'
  BY NextSlots
<1> QED BY <1>1, <1>2, ListsAreLocal, PTL DEF Spec

----------------------------------------------------------------------------
(* Deadlocks *)

\* A set of naturals has a least element.
LEMMA LeastOf ==
  ASSUME NEW T, T \subseteq Nat, T # {}
  PROVE  \E m \in T : \A i \in T : m <= i
<1> DEFINE R == OpToRel(<, Nat)
<1>1. IsWellFoundedOn(R, Nat)
  BY NatLessThanWellFounded
<1>2. \A x, y \in Nat : x < y => <<x, y>> \in R
  BY DEF OpToRel
<1> HIDE DEF R
<1>3. PICK m \in T : \A i \in T : ~(<<i, m>> \in R)
  BY <1>1, WFMin
<1>4. \A i \in T : i \in Nat /\ m \in Nat /\ ~(i < m)
  BY <1>2, <1>3
<1> QED BY <1>4

LEMMA GreatestOf ==
  ASSUME NEW N \in Nat, NEW T, \A x \in T : x \in 0 .. N, T # {}
  PROVE  \E m \in T : \A i \in T : i <= m
<1> DEFINE U == {N - x : x \in T}
<1>1. \A y \in U : y \in Nat
  OBVIOUS
<1>2. U # {}
  OBVIOUS
<1>3. \A x \in T : N - x \in U
  OBVIOUS
<1>4. \A y \in U : \E x \in T : y = N - x
  OBVIOUS
<1> HIDE DEF U
<1>5. PICK u \in U : \A y \in U : u <= y
  BY <1>1, <1>2, LeastOf
<1>6. PICK m \in T : u = N - m
  BY <1>4
<1>7. ASSUME NEW i \in T PROVE i <= m
  <2>1. N - m <= N - i
    BY <1>3, <1>5, <1>6
  <2> QED BY <2>1
<1> QED BY <1>7

\* A goroutine waits for tasks that exist, and, unless it is an await out of
\* order, for tasks it spawned or for an older sibling.
LEMMA WaitsInOrder ==
  ASSUME IInv, LinkInv, SlotInv, NEW g \in Goroutine, NEW h \in WaitsFor(g),
         Awaits(g, h) => InOrder(g, h)
  PROVE  h \in 1 .. spawned /\ Running(g) /\ InOrder(g, h)
<1> DEFINE f == Top(g)
<1>1. Running(g) /\ h \in Handle
  BY DEF WaitsFor, Awaits, Joins, NeedsSlotOf, Step
<1>2. spawned \in Nat
  BY <1>1, RunningSpawned
<1>3. CASE Awaits(g, h)
  <2>1. f \in FrameRec(spawned) /\ f.todo # <<>> /\ h = Head(f.todo)
    BY <1>1, <1>3, TopType DEF FrameUpTo, Awaits, Step
  <2>2. h \in 1 .. spawned
    BY <2>1, HeadTailProperties DEF FrameRec, HandleList
  <2> QED BY <1>1, <1>3, <2>2
<1>4. CASE Joins(g, h)
  <2>1. f.todo # <<>> /\ h = Head(f.todo) /\ f.todo \in Seq(Mine(g))
    BY <1>1, <1>4, TopGood DEF Joins, Step, FrameSt, Held
  <2>2. h \in Mine(g)
    BY <2>1, HeadTailProperties
  <2> QED BY <1>1, <2>2 DEF Mine, LinkInv, InOrder
<1>5. CASE NeedsSlotOf(g, h)
  <2>1. holds[h] \in LimitsOf(g) /\ holds[h] # 0
    BY <1>5, SpawnLimiterIsOwn DEF NeedsSlotOf
  <2>2. h \in 1 .. spawned
    BY <1>1, <1>2, <2>1, ExecutorAssumption DEF IInv, LimitersOK, Handle
  <2> QED BY <1>1, <2>1, <2>2 DEF SlotInv, InOrder
<1> QED BY <1>3, <1>4, <1>5 DEF WaitsFor

\* Among goroutines that wait in order, take those whose spawner is the latest,
\* and of these the oldest.  It waits neither for a task of its own, whose
\* spawner would be later, nor for an older sibling.
LEMMA NoDeadlockInOrder ==
  ASSUME IInv, LinkInv, SlotInv, NEW S \in Deadlocks,
         \A g \in S, h \in S : Awaits(g, h) => InOrder(g, h)
  PROVE  FALSE
<1>1. S # {} /\ S \subseteq Goroutine
  BY DEF Deadlocks, Waiting
<1>2. \A g \in S : WaitsFor(g) # {} /\ WaitsFor(g) \subseteq S
  BY DEF Deadlocks, Waiting
<1>3. \A g \in S : \E h \in S : h \in 1 .. spawned /\ Running(g) /\ InOrder(g, h)
  BY <1>1, <1>2, WaitsInOrder
<1> DEFINE T == S \cap (1 .. spawned)
           P == {spawner[h] : h \in T}
<1>4. /\ spawned \in Nat /\ MaxTask \in Nat /\ spawned <= MaxTask
      /\ spawner \in [Handle -> Goroutine]
  BY ExecutorAssumption DEF IInv, TasksOK
<1>5. T \subseteq Handle /\ \A h \in T : spawner[h] \in 0 .. MaxTask /\ spawner[h] < h
  BY <1>4 DEF Handle, Goroutine, SlotInv
<1>6. T # {}
  BY <1>1, <1>3
<1>7. PICK p \in P : \A x \in P : x <= p
  <2>1. \A x \in P : x \in 0 .. MaxTask
    BY <1>5
  <2>2. P # {}
    BY <1>6
  <2> HIDE DEF P
  <2> QED BY <1>4, <2>1, <2>2, GreatestOf
<1> DEFINE Q == {h \in T : spawner[h] = p}
<1>8. PICK q \in Q : \A h \in Q : q <= h
  <2>1. Q # {} /\ Q \subseteq Nat
    BY <1>4, <1>7
  <2> HIDE DEF Q
  <2> QED BY <2>1, LeastOf
<1>9. PICK h \in S : h \in 1 .. spawned /\ InOrder(q, h)
  BY <1>3, <1>8
<1>10. h \in T /\ h \in Nat /\ q \in Nat /\ q \in T /\ spawner[q] = p /\ p < q
  BY <1>4, <1>5, <1>8, <1>9
<1>11. CASE spawner[h] = q
  <2>1. q \in P
    BY <1>10, <1>11
  <2>2. q <= p /\ p \in Nat
    BY <1>5, <1>7, <1>10, <2>1
  <2> QED BY <1>10, <2>2
<1>12. CASE q > h /\ spawner[q] = spawner[h]
  <2>1. h \in Q
    BY <1>10, <1>12
  <2> QED BY <1>8, <1>10, <1>12, <2>1
<1> QED BY <1>9, <1>11, <1>12 DEF InOrder

\* Joins, limiter slots and awaits of own tasks or older siblings never make a
\* deadlock, whatever the program, the limits and the number of tasks: the
\* nursery discipline of OpSpawn and OpPopScope.  Where goroutines wait for each
\* other for good, the program has awaited a younger task or an ancestor.
THEOREM OnlyAwaitsDeadlock == Spec => []DeadlocksAreAwaits
<1>1. IInv /\ LinkInv /\ SlotInv => DeadlocksAreAwaits
  BY NoDeadlockInOrder DEF DeadlocksAreAwaits
<1> QED BY <1>1, SlotsAreLocal, PTL
=============================================================================
