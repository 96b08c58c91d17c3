------------------------------ MODULE Executor ------------------------------
(***************************************************************************)
(* The control of Slug's bytecode executor: call frames, block scopes,     *)
(* defers, spawned tasks, nursery joins, spawn limits, throw, fault and    *)
(* recur, for every goroutine of a running program.                        *)
(*                                                                         *)
(* The program itself is not fixed: at each instruction boundary a frame   *)
(* may execute any instruction of Ops that the compiler could have placed  *)
(* there, so a behaviour of this specification is a run of some Slug       *)
(* program of at most MaxSteps instructions.  Goroutine 0 runs the main    *)
(* program; goroutine h > 0 is the h-th spawned task and h is also the     *)
(* identity of its VMTaskHandle.                                           *)
(*                                                                         *)
(* invokeVMFunction lends taskScopes and taskLimits to the callee and      *)
(* copies them back, so each goroutine has one stack of each, shared by    *)
(* all its frames; deferScopes and recurCarryHandles belong to a frame.    *)
(***************************************************************************)
EXTENDS Integers, Sequences, FiniteSets, SequencesExt

CONSTANTS
  MaxTask,      \* bound: number of tasks a program spawns
  MaxSteps,     \* bound: number of instructions the program executes
  MaxFrames,    \* bound: call depth of a goroutine
  MaxIter,      \* bound: recur iterations of one call
  Limits,       \* the n of the nursery [limit n] forms in the program
  RootLimit,    \* Config.DefaultLimit, the Limit of the main environment
  Ops           \* the instructions the program uses

\* "timeout", "share", "inherit" and "spawnBlock" are forms of other
\* instructions: an await with a timeout, an await of a handle that was shared
\* with other tasks, a nursery without a limit, a spawned block.
AllOps == {"block", "nursery", "call", "callNursery", "defer", "spawn",
           "await", "timeout", "share", "throw", "return", "recur",
           "returnRecur", "fault", "inherit", "spawnBlock", "badCall",
           "mismatch"}

ASSUME ExecutorAssumption ==
  /\ MaxTask \in Nat /\ MaxSteps \in Nat /\ MaxFrames \in Nat /\ MaxIter \in Nat
  /\ Limits \subseteq Nat \ {0}
  /\ RootLimit \in Nat \ {0}
  /\ Ops \subseteq AllOps

VARIABLES
  frames,      \* per goroutine: its call frames, innermost last
  taskScopes,  \* per goroutine: Executor.taskScopes (nursery = slice not nil)
  taskLimits,  \* per goroutine: Executor.taskLimits (0 = nil)
  limiter,     \* the limiter channels made so far: capacity and tokens in it
  spawned,     \* number of tasks spawned
  result,      \* VMTaskHandle.result, "open" until done is closed
  phase,       \* where each goroutine is in its life
  out,         \* the value a goroutine's body evaluated to
  holds,       \* the limiter a task holds a token of (0 = none)
  spawner,     \* the goroutine that spawned a task
  owned,       \* handles that some task scope adopted at spawn
  awaited,     \* handles some await has returned for
  fuel         \* instructions the program may still execute

vars == <<frames, taskScopes, taskLimits, limiter, spawned, result, phase,
          out, holds, spawner, owned, awaited, fuel>>

Goroutine == 0 .. MaxTask
Handle == 1 .. MaxTask
Mode == {"always", "onsuccess", "onerror"}

\* Evaluation results, told apart as the executor tells them apart: a value, a
\* thrown RuntimeError, the RuntimeError of VMTaskHandle.Cancel, an
\* object.Error of errorAt, and the vmRecurSignal.
Result == {"val", "err", "cancel", "fault", "recur"}
IsError(r) == r \in {"err", "cancel", "fault"}
IsRuntimeError(r) == r \in {"err", "cancel"}

ScopeArg == {0, -1} \cup Limits
NurseryArg == Limits \cup (IF "inherit" \in Ops THEN {-1} ELSE {})
State == {"enter", "run", "tail", "spawn", "await", "join", "cancel", "defers", "unwind"}
Goal == {"none", "pop", "unwind", "recur"}

TaskScope == [nursery : BOOLEAN, hs : Seq(Handle)]
Frame == [kind : {"body", "fn", "defer"}, mode : Mode, arg : ScopeArg,
          st : State, goal : Goal, cur : Result, open : Int,
          taskBase : Nat, limBase : Nat, defers : Seq(Seq(Mode)),
          todo : Seq(Handle), timeout : Nat, doomed : Seq(Handle),
          entries : Seq(Mode), carry : Seq(Handle), env : Int, iter : Nat]

----------------------------------------------------------------------------
(* Frames *)

NewFrame(kind, mode, arg, taskDepth, limitDepth) ==
  [kind |-> kind, mode |-> mode, arg |-> arg,
   st |-> IF kind = "fn" THEN "enter" ELSE "run",
   goal |-> "none", cur |-> "val", open |-> 0,
   taskBase |-> taskDepth, limBase |-> limitDepth,
   defers |-> <<>>, todo |-> <<>>, timeout |-> 0, doomed |-> <<>>,
   entries |-> <<>>, carry |-> <<>>, env |-> 0, iter |-> 0]

\* A callee of g borrows the task scopes and limits g has now.
Callee(g, kind, mode, arg) ==
  NewFrame(kind, mode, arg, Len(taskScopes[g]), Len(taskLimits[g]))

Top(g) == Last(frames[g])
Running(g) == phase[0] = "run" /\ phase[g] = "run" /\ frames[g] # <<>>
Step(g, st) == Running(g) /\ Top(g).st = st
\* The stacks are popped only when they are not empty.
Popped(s) == IF s = <<>> THEN s ELSE Front(s)
TopOr(s, default) == IF s = <<>> THEN default ELSE Last(s)
SetTop(g, f) == frames' = [frames EXCEPT ![g] = Append(Front(@), f)]
PushFrame(g, f) == frames' = [frames EXCEPT ![g] = Append(@, f)]

\* One instruction of the program.
Instr(g, op) == /\ Step(g, "run")
                /\ op \in Ops
                /\ fuel > 0
                /\ fuel' = fuel - 1

Init ==
  /\ frames = [g \in Goroutine |->
       IF g = 0 THEN << NewFrame("body", "always", 0, 0, 0) >> ELSE <<>>]
  /\ taskScopes = [g \in Goroutine |-> <<>>]
  /\ taskLimits = [g \in Goroutine |-> <<>>]
  /\ limiter = <<>>
  /\ spawned = 0
  /\ result = [h \in Handle |-> "open"]
  /\ phase = [g \in Goroutine |-> IF g = 0 THEN "run" ELSE "idle"]
  /\ out = [g \in Goroutine |-> "val"]
  /\ holds = [g \in Goroutine |-> 0]
  /\ spawner = [h \in Handle |-> 0]
  /\ owned = {}
  /\ awaited = {}
  /\ fuel = MaxSteps

stackVars == <<taskScopes, taskLimits>>
taskVars == <<spawned, result, phase, out, holds, spawner, owned>>

----------------------------------------------------------------------------
(* Scopes: OpPushScope, OpDefer *)

\* The capacity of the limiter a nursery scope makes; envLimit is the Limit of
\* the environment the scope is entered in.
resolveScopeLimit(g, arg, envLimit) ==
  LET inherited == TopOr(taskLimits[g], 0)
  IN  IF arg > 0 THEN arg
      ELSE IF envLimit > 0 THEN envLimit
      ELSE IF inherited # 0 THEN limiter[inherited].cap
      ELSE 4

\* Mutant: the carried handles are adopted and stay carried.
EnteredStillCarrying(f, arg) ==
  [f EXCEPT !.st = "run", !.open = @ + 1, !.env = @ + 1, !.defers = Append(@, <<>>)]

\* Mutant: the scope runs in the enclosing environment.
EnteredWithoutEnv(f, arg) ==
  [f EXCEPT !.st = "run", !.open = @ + 1, !.defers = Append(@, <<>>),
            !.carry = IF arg = 0 THEN @ ELSE <<>>]

Entered(f, arg) ==
  [f EXCEPT !.st = "run", !.open = @ + 1, !.env = @ + 1, !.defers = Append(@, <<>>),
            !.carry = IF arg = 0 THEN @ ELSE <<>>]

\* A nursery scope adopts the handles carried over a recur; a plain one has
\* no handle list and no limiter.
EnterScope(g, f, arg) ==
  /\ SetTop(g, Entered(f, arg))
  /\ taskScopes' = [taskScopes EXCEPT ![g] =
       Append(@, [nursery |-> arg # 0, hs |-> IF arg = 0 THEN <<>> ELSE f.carry])]
  /\ IF arg = 0
     THEN /\ taskLimits' = [taskLimits EXCEPT ![g] = Append(@, 0)]
          /\ UNCHANGED limiter
     ELSE /\ taskLimits' = [taskLimits EXCEPT ![g] = Append(@, Len(limiter) + 1)]
          /\ \E envLimit \in {0, RootLimit} :
               limiter' = Append(limiter, [cap |-> resolveScopeLimit(g, arg, envLimit),
                                           used |-> 0])
  /\ UNCHANGED <<taskVars, awaited>>

\* The fnroot OpPushScope, the first instruction of every function chunk.
EnterFunction(g) == /\ Step(g, "enter")
                    /\ EnterScope(g, Top(g), Top(g).arg)
                    /\ UNCHANGED fuel

PushScope(g) == \/ /\ Instr(g, "block")
                   /\ EnterScope(g, Top(g), 0)
                \/ /\ Instr(g, "nursery")
                   /\ \E arg \in NurseryArg : EnterScope(g, Top(g), arg)

Defer(g, mode) ==
  LET f == Top(g)
      scopes == IF f.defers = <<>> THEN << <<>> >> ELSE f.defers
  IN  /\ Instr(g, "defer")
      /\ SetTop(g, [f EXCEPT !.defers =
                      Append(Front(scopes), Append(Last(scopes), mode))])
      /\ UNCHANGED <<stackVars, limiter, taskVars, awaited>>

----------------------------------------------------------------------------
(* Calls and tasks: OpCall, OpSpawn, await *)

Call(g) ==
  /\ \/ /\ Instr(g, "call")
        /\ PushFrame(g, Callee(g, "fn", "always", 0))
     \/ /\ Instr(g, "callNursery")
        /\ \E arg \in NurseryArg : PushFrame(g, Callee(g, "fn", "always", arg))
  /\ Len(frames[g]) < MaxFrames
  /\ UNCHANGED <<stackVars, limiter, taskVars, awaited>>

\* The innermost enclosing nursery, 0 when there is none.
ownerIdx(scopes) == SelectLastInSeq(scopes, LAMBDA sc : sc.nursery)

AdoptAll(scopes, hs) == LET i == ownerIdx(scopes)
                        IN  IF i = 0 THEN scopes
                            ELSE [scopes EXCEPT ![i].hs = @ \o hs]

\* Mutant: a task has the limits of the goroutine that spawned it.
InheritedLimiter(g) == TopOr(taskLimits[g], holds[g])

\* Only the top entry of taskLimits is consulted for the limiter.
spawnLimiter(g) == TopOr(taskLimits[g], 0)

\* Goroutines that are about to start a task; MaxTask bounds them too.
Spawning == {g \in Goroutine : frames[g] # <<>> /\ Top(g).st = "spawn"}

Spawn(g) == /\ Instr(g, "spawn")
            /\ spawned + Cardinality(Spawning) < MaxTask
            /\ SetTop(g, [Top(g) EXCEPT !.st = "spawn"])
            /\ UNCHANGED <<stackVars, limiter, taskVars, awaited>>

\* The rest of OpSpawn, once the limiter has room: the token is taken, the
\* goroutine started and the handle given to the innermost nursery.  The task
\* is an expression ("body") or a block or function literal ("fn").
StartTask(g) ==
  LET h == spawned + 1
      l == spawnLimiter(g)
  IN  /\ Step(g, "spawn") /\ spawned < MaxTask
      /\ l # 0 => limiter[l].used < limiter[l].cap
      /\ \E kind \in {"body"} \cup (IF "spawnBlock" \in Ops THEN {"fn"} ELSE {}) :
           frames' = [frames EXCEPT
             ![g] = Append(Front(@), [Last(@) EXCEPT !.st = "run"]),
             ![h] = << NewFrame(kind, "always", 0, 0, 0) >>]
      /\ limiter' = IF l = 0 THEN limiter ELSE [limiter EXCEPT ![l].used = @ + 1]
      /\ taskScopes' = [taskScopes EXCEPT ![g] = AdoptAll(@, <<h>>)]
      /\ spawned' = h
      /\ phase' = [phase EXCEPT ![h] = "run"]
      /\ holds' = [holds EXCEPT ![h] = l]
      /\ spawner' = [spawner EXCEPT ![h] = g]
      /\ owned' = IF ownerIdx(taskScopes[g]) = 0 THEN owned ELSE owned \cup {h}
      /\ UNCHANGED <<taskLimits, result, out, awaited, fuel>>

\* The tasks a goroutine spawned, and the older siblings whose handle it got
\* when it was spawned: awaits of these follow the order of spawning.
InOrder(g, h) == spawner[h] = g \/ (g > h /\ spawner[g] = spawner[h])

\* A handle kept in a variable may be awaited by any task, itself included.
MayAwait(g, h) == h <= spawned /\ ("share" \in Ops \/ InOrder(g, h))

\* The timeout of await is 0 unless the program gives one.
AwaitTimeout == {0} \cup (IF "timeout" \in Ops THEN {1} ELSE {})

Await(g, h) == /\ Instr(g, "await")
               /\ MayAwait(g, h)
               /\ \E ms \in AwaitTimeout :
                    SetTop(g, [Top(g) EXCEPT !.st = "await", !.todo = <<h>>,
                                             !.timeout = ms])
               /\ UNCHANGED <<stackVars, limiter, taskVars, awaited>>

\* Mutant: Cancel gives the handle a result and leaves its channel open.
DoneUncancelled(h) == result[h] \notin {"open", "cancel"}

\* The done channel of a handle is closed.
Done(h) == result[h] # "open"

\* The library's await: a failed task's error is the result of the call, which
\* evalCall unwinds with.
AwaitReturns(g) ==
  LET f == Top(g)
      h == Head(f.todo)
  IN  /\ Step(g, "await")
      /\ Done(h)
      /\ SetTop(g, [f EXCEPT !.todo = <<>>, !.timeout = 0,
                             !.st = IF IsError(result[h]) THEN "unwind" ELSE "run",
                             !.cur = IF IsError(result[h]) THEN result[h] ELSE "val"])
      /\ awaited' = awaited \cup {h}
      /\ UNCHANGED <<stackVars, limiter, taskVars, fuel>>

\* Only a timeout above 0 has a timer.
AwaitTimesOut(g) ==
  /\ Step(g, "await") /\ Top(g).timeout > 0
  /\ SetTop(g, [Top(g) EXCEPT !.todo = <<>>, !.timeout = 0, !.st = "unwind", !.cur = "err"])
  /\ UNCHANGED <<stackVars, limiter, taskVars, awaited, fuel>>

----------------------------------------------------------------------------
(* Leaving a scope: OpPopScope *)

\* Takes the top task scope off to join its handles.
NoScope == [nursery |-> FALSE, hs |-> <<>>]
BeginJoin(g, f, goal, cur) ==
  /\ SetTop(g, [f EXCEPT !.st = "join", !.goal = goal, !.cur = cur,
                         !.todo = TopOr(taskScopes[g], NoScope).hs])
  /\ taskScopes' = [taskScopes EXCEPT ![g] = Popped(@)]
  /\ UNCHANGED taskLimits

\* Mutant: the limit stays.
LimitKept(g) == taskLimits

LimitPopped(g) == [taskLimits EXCEPT ![g] = Popped(@)]

Carried(f, rest, hs) == IF ownerIdx(rest) = 0 THEN f.carry \o hs ELSE f.carry

\* A recur leaves fnroot without running its defers and without joining; the
\* handles move to the innermost remaining nursery, or are carried.
Migrate(g, f) ==
  LET rest == Popped(taskScopes[g])
      hs == TopOr(taskScopes[g], NoScope).hs
  IN  /\ SetTop(g, [f EXCEPT
           !.st = IF f.open = 1 THEN "unwind" ELSE "tail", !.goal = "none",
           !.open = @ - 1, !.env = @ - 1,
           !.carry = Carried(f, rest, hs)])
      /\ taskScopes' = [taskScopes EXCEPT ![g] = AdoptAll(rest, hs)]
      /\ taskLimits' = LimitPopped(g)

\* A recur leaves an inner block after running the block's defers.
RecurPop(g, f) ==
  IF f.open = 1
  THEN Migrate(g, [f EXCEPT !.cur = "recur", !.defers = Popped(@)])
  ELSE /\ SetTop(g, [f EXCEPT !.st = "defers", !.goal = "recur", !.cur = "recur",
                              !.entries = TopOr(f.defers, <<>>), !.defers = Popped(@)])
       /\ UNCHANGED stackVars

PopScope(g) ==
  LET f == Top(g)
  IN  /\ Running(g) /\ f.open > 0
      /\ \/ /\ Step(g, "run")
            /\ BeginJoin(g, f, "pop", "val")
            /\ UNCHANGED fuel
         \/ /\ Step(g, "tail") /\ f.cur # "recur"
            /\ BeginJoin(g, f, "pop", f.cur)
            /\ UNCHANGED fuel
         \/ /\ Step(g, "tail") /\ f.cur = "recur"
            /\ RecurPop(g, f)
            /\ UNCHANGED fuel
         \/ /\ f.kind = "fn" /\ f.iter < MaxIter
            /\ Instr(g, "recur")
            /\ RecurPop(g, f)
      /\ UNCHANGED <<limiter, taskVars, awaited>>

----------------------------------------------------------------------------
(* Joining: executeTaskHandlesInCurrentScope, VMTaskHandle *)

\* Mutant: every completion writes the result.
CompleteAgain(h, r) == result' = [result EXCEPT ![h] = r]

\* VMTaskHandle.Complete: the first completion wins.
Complete(h, r) == result' = [result EXCEPT ![h] = IF @ = "open" THEN r ELSE @]

\* Mutant: the scope is left at the first failure, the siblings unjoined.
JoinedUntilFailure(f, r) ==
  IF IsError(r) /\ ~IsError(f.cur) THEN [f EXCEPT !.todo = <<>>, !.cur = r]
  ELSE [f EXCEPT !.todo = Tail(@)]

\* Mutant: siblings are cancelled whenever the scope ends in an error.
JoinedCancelling(f, r) ==
  IF IsError(r) \/ IsError(f.cur)
  THEN [f EXCEPT !.todo = Tail(@), !.doomed = Tail(f.todo), !.st = "cancel",
                 !.cur = IF IsError(f.cur) THEN @ ELSE r]
  ELSE [f EXCEPT !.todo = Tail(@)]

\* The first failure replaces a result that is not an error and dooms the
\* later siblings.
JoinedOne(f, r) ==
  IF IsError(r) /\ ~IsError(f.cur)
  THEN [f EXCEPT !.todo = Tail(@), !.doomed = Tail(f.todo), !.st = "cancel", !.cur = r]
  ELSE [f EXCEPT !.todo = Tail(@)]

\* Handles are waited for in the order they were spawned.
JoinHandle(g) ==
  LET f == Top(g)
      r == result[Head(f.todo)]
  IN  /\ Step(g, "join") /\ f.todo # <<>>
      /\ Done(Head(f.todo))
      /\ SetTop(g, JoinedOne(f, r))
      /\ UNCHANGED <<stackVars, limiter, taskVars, awaited, fuel>>

CancelSibling(g) ==
  LET f == Top(g)
  IN  /\ Step(g, "cancel")
      /\ IF f.doomed = <<>>
         THEN /\ SetTop(g, [f EXCEPT !.st = "join"])
              /\ UNCHANGED result
         ELSE /\ SetTop(g, [f EXCEPT !.doomed = Tail(@)])
              /\ Complete(Head(f.doomed), "cancel")
      /\ UNCHANGED <<stackVars, limiter, spawned, phase, out, holds, spawner,
                     owned, awaited, fuel>>

Joined(g) ==
  LET f == Top(g)
  IN  /\ Step(g, "join") /\ f.todo = <<>>
      /\ SetTop(g, [f EXCEPT !.st = "defers",
           !.entries = TopOr(f.defers, <<>>), !.defers = Popped(@)])
      /\ UNCHANGED <<stackVars, limiter, taskVars, awaited, fuel>>

----------------------------------------------------------------------------
(* Deferred entries: executeDeferredEntries *)

ShouldRun(mode, cur) == \/ mode = "always"
                        \/ mode = "onsuccess" /\ ~IsError(cur)
                        \/ mode = "onerror" /\ IsError(cur)

\* What a deferred function's result r does to the scope's result.
DeferOutcome(cur, mode, r) ==
  IF IsRuntimeError(r) THEN r
  ELSE IF IsError(cur) /\ mode = "onerror" THEN r
  ELSE cur

RunDeferred(g) ==
  LET f == Top(g)
      mode == Last(f.entries)
      rest == [f EXCEPT !.entries = Front(@)]
  IN  /\ Step(g, "defers") /\ f.entries # <<>>
      /\ IF ShouldRun(mode, f.cur)
         THEN frames' = [frames EXCEPT ![g] =
                Append(Append(Front(@), rest), Callee(g, "defer", mode, 0))]
         ELSE SetTop(g, rest)
      /\ UNCHANGED <<stackVars, limiter, taskVars, awaited, fuel>>

\* The value a block left on the stack: dropped by OpPop, or handed on as the
\* value of the enclosing block or chunk.  At the end of a function it is what
\* OpReturn returns.
AfterPop(f, cur) ==
  LET handedOn == [f EXCEPT !.goal = "none", !.cur = cur,
                            !.st = IF f.open = 0 THEN "unwind" ELSE "tail"]
      dropped == [f EXCEPT !.goal = "none", !.cur = "val", !.st = "run"]
  IN  IF f.kind = "fn" /\ f.open = 0 THEN {handedOn}
      ELSE IF cur = "val" THEN {dropped} ELSE {handedOn, dropped}

\* The end of a normal OpPopScope.
ScopeLeft(g) ==
  LET f == Top(g)
  IN  /\ Step(g, "defers") /\ f.entries = <<>> /\ f.goal = "pop"
      /\ \E next \in AfterPop([f EXCEPT !.open = @ - 1, !.env = @ - 1], f.cur) :
           SetTop(g, next)
      /\ taskLimits' = LimitPopped(g)
      /\ UNCHANGED <<taskScopes, limiter, taskVars, awaited, fuel>>

\* The end of the recur branch of OpPopScope for an inner block.  When a
\* deferred function replaced the recur signal, the value is pushed and
\* neither the task scope, nor the limit, nor the environment is popped.
RecurScopeLeft(g) ==
  LET f == Top(g)
  IN  /\ Step(g, "defers") /\ f.entries = <<>> /\ f.goal = "recur"
      /\ IF f.cur = "recur"
         THEN Migrate(g, f)
         ELSE /\ SetTop(g, [f EXCEPT !.st = "tail", !.goal = "none", !.open = @ - 1])
              /\ UNCHANGED stackVars
      /\ UNCHANGED <<limiter, taskVars, awaited, fuel>>

----------------------------------------------------------------------------
(* Unwinding: OpThrow, OpReturn, unwindDeferredScopes, and frame exit *)

StartUnwind(g, cur) ==
  /\ SetTop(g, [Top(g) EXCEPT !.st = "unwind", !.cur = cur])
  /\ UNCHANGED <<stackVars, limiter, taskVars, awaited>>

Throw(g) == Instr(g, "throw") /\ StartUnwind(g, "err")

\* The arguments of a call do not bind to the callee's parameters.
CallFails(g) == Instr(g, "badCall") /\ StartUnwind(g, "fault")

\* An early return from anywhere in the frame; the end of a body or of a
\* deferred function needs no budget, so that programs always end.
Return(g) == \/ /\ Instr(g, "return")
                /\ StartUnwind(g, "val")
             \/ /\ Step(g, "run") /\ Top(g).kind # "fn" /\ Top(g).open = 0
                /\ StartUnwind(g, "val")
                /\ UNCHANGED fuel
             \/ /\ Instr(g, "returnRecur")
                /\ Top(g).kind = "fn" /\ Top(g).iter < MaxIter
                /\ StartUnwind(g, "recur")

\* Mutant: a frame ends with its defers, whatever task scopes are left.
UnwoundDefers(g) == Top(g).defers = <<>>

Unwound(g) == Top(g).defers = <<>> /\ Len(taskScopes[g]) <= Top(g).taskBase

UnwindScope(g) ==
  LET f == Top(g)
  IN  /\ Step(g, "unwind") /\ ~Unwound(g)
      /\ IF Len(taskScopes[g]) > f.taskBase
         THEN BeginJoin(g, f, "unwind", f.cur)
         ELSE /\ SetTop(g, [f EXCEPT !.st = "join", !.goal = "unwind"])
              /\ UNCHANGED stackVars
      /\ UNCHANGED <<limiter, taskVars, awaited, fuel>>

LimitUnwound(g) == [taskLimits EXCEPT ![g] =
                      IF Len(@) > Top(g).limBase THEN Popped(@) ELSE @]

ScopeUnwound(g) ==
  LET f == Top(g)
  IN  /\ Step(g, "defers") /\ f.entries = <<>> /\ f.goal = "unwind"
      /\ SetTop(g, [f EXCEPT !.st = "unwind", !.goal = "none"])
      /\ taskLimits' = LimitUnwound(g)
      /\ UNCHANGED <<taskScopes, limiter, taskVars, awaited, fuel>>

\* The caller c gets the result r of its callee f.
Returned(c, f, r) ==
  IF f.kind = "defer" THEN [c EXCEPT !.cur = DeferOutcome(@, f.mode, r)]
  ELSE IF IsError(r) THEN [c EXCEPT !.st = "unwind", !.cur = r]
  ELSE c

\* The frame on top of g is gone, with result r.
Leave(g, r) ==
  LET rest == Front(frames[g])
  IN  IF rest = <<>>
      THEN /\ frames' = [frames EXCEPT ![g] = <<>>]
           /\ phase' = [phase EXCEPT ![g] = IF g = 0 THEN "exit" ELSE "complete"]
           /\ out' = [out EXCEPT ![g] = r]
      ELSE /\ frames' = [frames EXCEPT ![g] =
                Append(Front(rest), Returned(Last(rest), Top(g), r))]
           /\ UNCHANGED <<phase, out>>

\* The result of a function may not be of its declared return type.
Results(f) == IF f.kind = "fn" /\ ~IsError(f.cur) /\ "mismatch" \in Ops
              THEN {f.cur, "fault"} ELSE {f.cur}

FrameReturns(g) ==
  LET f == Top(g)
  IN  /\ Step(g, "unwind") /\ Unwound(g)
      /\ IF f.kind = "fn" /\ f.cur = "recur"
         THEN /\ SetTop(g, [f EXCEPT !.st = "enter", !.cur = "val", !.open = 0,
                                   !.iter = @ + 1])
              /\ UNCHANGED <<phase, out>>
         ELSE \E r \in Results(f) : Leave(g, r)
      /\ UNCHANGED <<stackVars, limiter, spawned, result, holds, spawner, owned,
                     awaited, fuel>>

\* errorAt returns from run at once: nothing of the frame is unwound.
Fault(g) ==
  /\ \/ Instr(g, "fault")
     \/ \* binding the arguments of a recur fails
        /\ Step(g, "enter") /\ Top(g).iter > 0 /\ "fault" \in Ops
        /\ UNCHANGED fuel
  /\ Leave(g, "fault")
  /\ UNCHANGED <<stackVars, limiter, spawned, result, holds, spawner, owned, awaited>>

----------------------------------------------------------------------------
(* The end of a task's goroutine *)

TaskCompletes(h) ==
  /\ phase[0] = "run" /\ phase[h] = "complete"
  /\ Complete(h, out[h])
  /\ phase' = [phase EXCEPT ![h] = "release"]
  /\ UNCHANGED <<frames, stackVars, limiter, spawned, out, holds, spawner, owned,
                 awaited, fuel>>

\* Mutant: the limiter is drained twice.
TokensReturned(h) == IF holds[h] = 0 THEN limiter
                     ELSE [limiter EXCEPT ![holds[h]].used = @ - 2]

\* Mutant: the token is never given back.
TokenKept(h) == limiter

TokenReturned(h) == IF holds[h] = 0 THEN limiter
                    ELSE [limiter EXCEPT ![holds[h]].used = @ - 1]

TaskReleases(h) ==
  /\ phase[0] = "run" /\ phase[h] = "release"
  /\ phase' = [phase EXCEPT ![h] = "exit"]
  /\ holds' = [holds EXCEPT ![h] = 0]
  /\ limiter' = TokenReturned(h)
  /\ UNCHANGED <<frames, stackVars, spawned, result, out, spawner, owned, awaited, fuel>>

----------------------------------------------------------------------------

Instruction(g) == \/ PushScope(g)
                  \/ \E mode \in Mode : Defer(g, mode)
                  \/ Call(g)
                  \/ Spawn(g)
                  \/ \E h \in Handle : Await(g, h)
                  \/ Throw(g)
                  \/ CallFails(g)
                  \/ Return(g)
                  \/ Fault(g)

Progress(g) == \/ EnterFunction(g)
               \/ StartTask(g)
               \/ AwaitReturns(g)
               \/ AwaitTimesOut(g)
               \/ PopScope(g)
               \/ JoinHandle(g)
               \/ CancelSibling(g)
               \/ Joined(g)
               \/ RunDeferred(g)
               \/ ScopeLeft(g)
               \/ RecurScopeLeft(g)
               \/ UnwindScope(g)
               \/ ScopeUnwound(g)
               \/ FrameReturns(g)

TaskEnds(h) == TaskCompletes(h) \/ TaskReleases(h)

\* The main goroutine has returned and the process is gone.
Exited == phase[0] = "exit" /\ UNCHANGED vars

Next == \/ \E g \in Goroutine : Instruction(g) \/ Progress(g)
        \/ \E h \in Handle : TaskEnds(h)
        \/ Exited

Spec == Init /\ [][Next]_vars

\* The Go scheduler runs every goroutine that can run.
Fairness == /\ \A g \in Goroutine : WF_vars(Instruction(g) \/ Progress(g))
            /\ \A h \in Handle : WF_vars(TaskEnds(h))

LiveSpec == Spec /\ Fairness

----------------------------------------------------------------------------
(* Properties *)

\* The state has the shape the executor's Go declarations give it.
TypeOK ==
  /\ frames \in [Goroutine -> Seq(Frame)]
  /\ taskScopes \in [Goroutine -> Seq(TaskScope)]
  /\ taskLimits \in [Goroutine -> Seq(Nat)]
  /\ limiter \in Seq([cap : Nat, used : Nat])
  /\ spawned \in 0 .. MaxTask
  /\ result \in [Handle -> Result \cup {"open"}]
  /\ phase \in [Goroutine -> {"idle", "run", "complete", "release", "exit"}]
  /\ out \in [Goroutine -> Result]
  /\ holds \in [Goroutine -> Nat]
  /\ spawner \in [Handle -> Goroutine]
  /\ owned \subseteq Handle
  /\ awaited \subseteq Handle
  /\ fuel \in 0 .. MaxSteps

\* Where a handle is kept by an executor: in a task scope, in the list a frame
\* is joining, or carried over a recur.
Joining(f) == IF f.goal = "none" THEN <<>> ELSE f.todo
Listed(kind, g, i, hs, h) == {<<kind, g, i, j>> : j \in {n \in DOMAIN hs : hs[n] = h}}
InScopes(g, h) == UNION {Listed("scope", g, i, taskScopes[g][i].hs, h) : i \in DOMAIN taskScopes[g]}
InFrames(g, h) == UNION {Listed("todo", g, i, Joining(frames[g][i]), h)
                         \cup Listed("carry", g, i, frames[g][i].carry, h) : i \in DOMAIN frames[g]}
Places(h) == UNION {InScopes(g, h) \cup InFrames(g, h) : g \in Goroutine}

\* Over spawns, calls, recur migrations, carries and faults, a handle is kept
\* in at most one place, by the goroutine that spawned it: no task is joined
\* twice and none is joined by a stranger.
OwnedOnce == \A h \in Handle : /\ Cardinality(Places(h)) <= 1
                               /\ \A p \in Places(h) : p[2] = spawner[h]

\* The tokens in a limiter channel are exactly those of the tasks that took one
\* and have not returned it, and never exceed the channel's capacity.
LimiterAccounting ==
  \A l \in DOMAIN limiter :
    /\ limiter[l].used = Cardinality({h \in Goroutine : holds[h] = l})
    /\ limiter[l].used <= limiter[l].cap

\* A handle that a nursery adopted and that has no result yet is still kept by
\* the goroutine that spawned it, and that goroutine is still running: nothing
\* leaves a nursery behind without joining it.
NurseryJoins ==
  \A h \in owned : result[h] = "open" => Places(h) # {} /\ phase[spawner[h]] = "run"

\* A handle is a write-once promise: see TaskPromise.
Promise == INSTANCE TaskPromise WITH
             Result <- Result \ {"recur"}, issued <- 1 .. spawned, value <- result
ImplementsPromise == Promise!Spec

\* Every cancellation goes back to a task of a nursery that failed by itself.
CancelHasCause ==
  \A h \in Handle : result[h] = "cancel" =>
    \E k \in owned \ {h} : result[k] \in {"err", "fault"}

\* OpPopScope always finds the defer scope, the task scope and the environment
\* that the matching OpPushScope made.
NoUnderflow ==
  \A g \in Goroutine : \A i \in DOMAIN frames[g] :
    LET f == frames[g][i]
        inHand == IF f.goal = "none" THEN 0 ELSE 1
        joining == IF f.goal = "pop" THEN 1 ELSE 0
        scopes == IF i = Len(frames[g]) THEN Len(taskScopes[g])
                  ELSE frames[g][i + 1].taskBase
    IN  f.st # "unwind" /\ f.goal # "unwind" =>
          /\ f.env >= f.open
          /\ Len(f.defers) + inHand >= f.open
          /\ scopes + joining >= f.taskBase + f.open

\* Between instructions, the limiters of a goroutine line up with its task
\* scopes: exactly the nursery scopes have one, each at its own depth.
ScopesAligned ==
  \A g \in Goroutine :
    (\A i \in DOMAIN frames[g] : frames[g][i].goal \in {"none", "recur"}) =>
      /\ Len(taskLimits[g]) = Len(taskScopes[g])
      /\ \A i \in DOMAIN taskScopes[g] : (taskLimits[g][i] # 0) = taskScopes[g][i].nursery

FrameLeaves(g) == Len(frames'[g]) < Len(frames[g])

\* A call gives back exactly the task scopes and limits it borrowed, however it
\* ends: what invokeVMFunction copies back is what it lent.
CallsAreBalanced ==
  [][\A g \in Goroutine : FrameLeaves(g) =>
       /\ Len(taskScopes[g]) = Top(g).taskBase
       /\ Len(taskLimits[g]) = Top(g).limBase]_vars

\* What g waits for: the task it awaits without a timeout, the next one of the
\* nursery it leaves, or those that have the slots of its full limiter.
Awaits(g, h) == Step(g, "await") /\ Top(g).timeout = 0 /\ h = Head(Top(g).todo) /\ ~Done(h)
Joins(g, h) == Step(g, "join") /\ Top(g).todo # <<>> /\ h = Head(Top(g).todo) /\ ~Done(h)
NeedsSlotOf(g, h) ==
  /\ Step(g, "spawn") /\ spawnLimiter(g) # 0 /\ holds[h] = spawnLimiter(g)
  /\ limiter[spawnLimiter(g)].used >= limiter[spawnLimiter(g)].cap
WaitsFor(g) == {h \in Handle : Awaits(g, h) \/ Joins(g, h) \/ NeedsSlotOf(g, h)}

\* Sets of goroutines that all wait, and only for each other.
Waiting == {g \in Goroutine : WaitsFor(g) # {}}
Deadlocks == {S \in SUBSET Waiting : S # {} /\ \A g \in S : WaitsFor(g) \subseteq S}

\* Joins, limits and awaits of own tasks or older siblings never block each
\* other for good: in every deadlock some task awaits one that was not spawned
\* before it by the same goroutine or by itself.
DeadlocksAreAwaits ==
  \A S \in Deadlocks : \E g \in S : \E h \in S : Awaits(g, h) /\ ~InOrder(g, h)

\* Every program ends, or its main goroutine ends up in a deadlock (one that
\* awaits make, by DeadlocksAreAwaits): nobody waits forever for a slot, for an
\* await or for the tasks of a nursery when what it waits for goes on.
Terminates == <>[](phase[0] = "exit" \/ \E S \in Deadlocks : 0 \in S)

----------------------------------------------------------------------------
(* What the documents say, where the code does otherwise *)

\* ADR-003, 2: a defer "Always executes when the enclosing scope exits".
DefersAlwaysRun == [][\A g \in Goroutine : FrameLeaves(g) => Top(g).defers = <<>>]_vars

\* ADR-015, 5: "Awaited tasks do not re-propagate errors at nursery exit".
AwaitConsumes ==
  [][\A g \in Goroutine :
       (/\ Len(frames'[g]) = Len(frames[g]) /\ frames[g] # <<>>
        /\ Top(g).st = "join" /\ Top(g)'.st = "cancel")
       => Head(Top(g).todo) \notin awaited]_vars

\* ADR-015, 3: exiting a nursery "Joins all remaining child tasks".
NoTaskOutlivesItsNursery == \A h \in owned : phase[h] = "run" => Places(h) # {}

\* ADR-015, 6: "On nursery exit, that failure is injected unless already
\* handled".
FailureIsInjected ==
  [][\A g \in Goroutine :
       (/\ Len(frames'[g]) = Len(frames[g]) /\ frames[g] # <<>>
        /\ Top(g).goal = "pop" /\ IsError(Top(g).cur) /\ Top(g)'.goal = "none")
       => Top(g)'.st # "run"]_vars

\* SLUG.ai: "limit N caps concurrent child tasks spawned within".
LimitCapsChildren ==
  \A g \in Goroutine :
    (\A i \in DOMAIN frames[g] : frames[g][i].goal = "none") =>
      \A i \in DOMAIN taskScopes[g] : taskScopes[g][i].nursery =>
        Cardinality({h \in ToSet(taskScopes[g][i].hs) : phase[h] = "run"})
          <= limiter[taskLimits[g][i]].cap

\* executor.go, OpPopScope: "function-root defers stay deferred until function
\* exit".
RootDefersStay ==
  [][\A g \in Goroutine :
       (/\ frames[g] # <<>> /\ Len(frames'[g]) = Len(frames[g])
        /\ Len(Top(g)'.defers) < Len(Top(g).defers)
        /\ Last(Top(g).defers) # <<>>)
       => Top(g)'.entries = Last(Top(g).defers)]_vars

\* ADR-015, 8: "In a `recur` loop, defers execute once, when the loop finally
\* exits".
RecurRunsNoFunctionDefers ==
  \A g \in Goroutine : \A i \in DOMAIN frames[g] :
    i < Len(frames[g]) /\ frames[g][i + 1].kind = "defer" /\ frames[g][i].cur = "recur"
    => frames[g][i].goal = "recur"
=============================================================================
