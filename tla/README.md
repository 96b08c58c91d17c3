# Slug, specified

TLA+ specifications of the Slug language implementation: its bytecode executor
with tasks and nurseries, its channels and `select`, its module loader, its
compiler and type checker together with the machine that runs what they let
through, its decimal numbers and its persistent maps. They
are translated from the Go source (and, for `channel.slug`, the Slug source), and
read with its decision records (`docs/_adr`), `SLUG.ai` and its tests. TLC checks
them on small instances; TLAPS proves the executor, `select`, the module loader, the
maps and decimal arithmetic correct for every instance.

| file | what it is |
|---|---|
| `Executor.tla` | frames, scopes, defers, tasks, nurseries, limits, recur, faults (`internal/vm/executor.go`, `task.go`, the chunk shapes of `compiler.go`) |
| `TaskPromise.tla` | what a task handle promises (abstract specification) |
| `Executor_proofs.tla` | theorems and proofs about `Executor`: types, limiter slots, refinement of `TaskPromise`; whose handles a goroutine keeps and what cancels them, and that a handle is kept once; that only awaits deadlock |
| `Scopes_proofs.tla`, `Nursery_proofs.tla` | the parallel stacks of scopes; that nurseries join their tasks |
| `Select_proofs.tla`, `Maps_proofs.tla` | theorems and proofs about `Select` and `Maps` |
| `Modules_proofs.tla`, `References_proofs.tla` | theorems and proofs about `Modules`: loads, exports and overloads; bindings and references |
| `Select.tla`, `MCSelect.tla` | `evalSelect`, `object.Channel`, timers, awaits; the selects of the library as instances |
| `Modules.tla`, `MCModules.tla` | `LoadModule`, the cache, `import`, top-level bindings; families of programs as instances |
| `Ast.tla` | the syntax tree (`ast.go`) |
| `Analyzer.tla` | tail calls, recur, tags: the checks before compilation (`semantic/analyzer.go`) |
| `TypeRules.tla`, `Checker.tla` | the type checker: its types and their relations; inference, narrowing, diagnostics (`semantic/typecheck.go`) |
| `Compiler.tla` | syntax trees to bytecode (`vm/compiler.go`) |
| `Machine.tla` | the executor at the level of values: one action per group of opcodes (`vm/executor.go`) |
| `Values.tla`, `Dec64.tla`, `Dec64Bits.tla` | operators on values; decimal arithmetic on words of any width (`dec64.go`) |
| `Decimals.tla` | what decimal arithmetic promises (abstract specification) |
| `Dec64_proofs.tla` | theorems and proofs about `Dec64`: normal form, comparison, `+ - % * /` |
| `Calls.tla`, `Environments.tla` | argument binding and overload selection; environments and function groups (`call_context.go`, `object.go`, `environment.go`) |
| `RuntimeTypes.tla` | declared types at run time (`declared_type_runtime.go`) |
| `Semantics.tla`, `Typing.tla` | what a program means, and what compiler, machine and checker are held to |
| `MCMachine.tla`, `MCTyping.tla` | families of programs |
| `Hamt.tla`, `Maps.tla`, `MCMaps.tla` | the hash trie; map objects between tasks (`hamt.go`, `map_storage.go`, `object.go`) |
| `PersistentMap.tla` | what maps promise (abstract specification) |
| `*.cfg` | one TLC configuration per run of `PROJECT.json` |

Check a run with `tlc -config ExecTasks.cfg Executor` (the module is the run's
`module` in `PROJECT.json`) and the proofs with `tlapm M.tla` for each of the
`*_proofs` modules.

## The system: inventory

Slug is an expression language with immutable values. A source file is lexed,
parsed, analysed, compiled to bytecode and executed by a stack machine. Functions
and spawned tasks each run in an executor of their own; tasks are goroutines.

| component | state | operations | interacts with |
|---|---|---|---|
| executor (`vm/executor.go`) | operand stack, environment, `deferScopes`, `taskScopes`, `taskLimits`, `recurCarryHandles` per executor | one per opcode; scope push/pop, defer, spawn, call, throw, return, recur; `unwindDeferredScopes` | lends task scopes and limits to callees; shares environments and handles with tasks |
| task handle (`vm/task.go`) | `done` channel, result, completed flag, mutex | `Complete`, `Cancel`, `AwaitResult` | written by the task, by a nursery that cancels it; read by await, join, select |
| channels and select (`object/channel.go`, `evalSelect`, `lib/slug/channel.slug`) | buffer, closed flag | `send`, `recv`, `close`, `trySend`, `tryRecv`, `await`, select cases `recv`, `send`, `after`, `await`, `_` | Go channels and `reflect.Select` |
| module loader (`runtime.go`, `slug_fn_builtin.go`) | `Runtime.Modules`, one environment per module | `LoadModule` (resolve, parse, declare, execute, re-export), `import` | called from any goroutine, without a lock |
| environment (`object/environment.go`) | bindings with value, mutability, export and import flags; outer; limit | `Define`, `DefineConstant`, `Assign`, `Get`, `ShallowCopy`, group merging | shared by closures and tasks |
| function groups (`object.go`, `executor.go`) | signatures to functions, delegates | selection by signature, tags, specificity | extended by `define` and `import` |
| argument binding, foreign bridge (`call_context.go`, `nursery_scope.go`) | call frame | positional, named, spread, variadic, defaults | foreign functions |
| persistent maps (`hamt.go`) | trie | put, remove, get, iterate | values |
| decimals (`dec64.go`) | 64-bit word | arithmetic, rounding, comparison | values |
| lexer, parser, analyser, type checker | tokens, tree, scopes | whole-file passes | compiler, language server |
| language server (`lsp/server.go`) | open documents | open, change, close, queries | parser, analyser, module metadata |
| foreign functions (`foreign/*.go`) | tables of open files, sockets, databases | I/O and conversions | operating system |

What is hard in it, and hard to test: the order in which tasks of a nursery fail,
finish and are cancelled; defers that run during an unwinding and change its
result; recur, which leaves a function's scope without joining it and carries its
handles on; faults, which leave everything at once; limiter slots; a channel
closed around a select; import cycles, and imports from two goroutines; a map
whose first use, by several tasks at once, rebuilds it. In the sequential part: a
pattern that fails half way through a match and has to leave the stack and the
scopes as it found them; recur out of nested scopes; arguments of all kinds in one
call; an overload chosen by walking a Go map; digits that do not fit a word; and a
checker whose narrowing has to agree with what the machine does.
`hazards` in `PROJECT.json` lists each at its line.

## Executor

**State.** Goroutine 0 is the main program; goroutine `h > 0` runs the task whose
handle is `h`. A goroutine has a stack of call frames and one stack each of task
scopes and limiters: `invokeVMFunction` copies the caller's slices into the callee
and back, so the frames of a goroutine really share them, while `deferScopes` and
`recurCarryHandles` belong to a frame. A frame records where it is (`st`), what
OpPopScope or the unwinding is to do after the join and the defers (`goal`), the
current result (`cur`), how many scopes its code has open (`open`), how far its
environment is nested (`env`), and the handles it is joining (`todo`), cancelling
(`doomed`) and carrying (`carry`). Results are told apart as the code tells them
apart: a value, a thrown error, the cancellation error, a fault (`object.Error`
from `errorAt`) and the recur signal.

**Actions.** The program is not fixed: between instructions a frame may execute
any instruction of `Ops` that the compiler could have placed there, so that a run of the
specification is a run of some program of at most `MaxSteps` instructions.
`PushScope`/`EnterFunction`, `Defer`, `Call`, `Spawn`/`StartTask` (before and after
the limiter has room), `Await`/`AwaitReturns`/`AwaitTimesOut`, `PopScope`, `JoinHandle`,
`CancelSibling`, `Joined`, `RunDeferred`, `ScopeLeft`, `RecurScopeLeft`, `Throw`,
`CallFails`, `Return`, `UnwindScope`, `ScopeUnwound`, `FrameReturns`, `Fault`,
`TaskCompletes`, `TaskReleases`. One action ends where another goroutine can
observe or change something (a join, a limiter, a handle's completion).

The timeout of an await is the program's choice. With 0, the default of
`channel.slug`, `evalSelect` sets no timer and the await ends only when the task does;
with another timeout (instruction "timeout") the timer may fire first. Which handles a
task can await depends on where the program keeps them: its own and those of
older siblings are in scope where it was written (`InOrder`); with "share" a variable hands on any
handle, so that siblings await each other, a task its spawner, or itself.

**Properties.** `NurseryJoins`: a task that a nursery adopted and that is open is kept by
the goroutine that spawned it. `OwnedOnce`: over migrations and carries a handle
is kept in one place. `LimiterAccounting`: slots are conserved. `CancelHasCause`:
no cancellation without a failed sibling. `NoUnderflow`, `ScopesAligned`: the
parallel stacks stay in step through nested blocks, recur
and defers that replace the recur signal. `CallsAreBalanced`: a call gives back the task
scopes and limiters of its caller as it got them; it says nothing of defers, which
a recur may have dropped (`RootDefersStay` below). `ImplementsPromise`: the executor
implements `TaskPromise` (refinement mapping: issued handles are `1 .. spawned`,
a handle's value is `result`, and its values exclude the recur signal).
`DeadlocksAreAwaits`: a join waits for its task, an await without an answer for its task, a spawn
for the tasks that have the slots of its limiter; wherever goroutines wait only for each other, some await among
them is out of order. `Terminates`: every program ends, or its main goroutine is in
such a deadlock.

`NurseryJoins` is checked and proved without faults and, where there is recur, with
nurseries on whole functions: a fault skips the joins of its frame, and a recur that
carries handles out of a nursery block into an iteration that ends before it reaches
a nursery drops them (see below).

## Select

A select is three parts with other goroutines in between: evaluating the cases
one by one (a send asks whether the channel is closed), waiting in
`reflect.Select`, and turning the chosen case into a value (a send asks again). `evals` and
`cases` are the code's two slices. Go channels and `reflect.Select` are external:
a receive takes from the buffer, meets a sender or sees the close; a send on a
closed Go channel panics; a timer fires at any moment. `Begin` chooses one of the
program's selects (`Forms`); `Close` and `TaskDone` are the surroundings. There is
no deadlock check, since a select may wait for something that never comes.

`TakenIsDelivered` (a message that left a channel is the value of the select),
`SentIsAccepted`, `AwaitedIsDone` (`AwaitResult` does not wait, so an await case
must be chosen only when the task is done) and `WaitersAreReleased`.

## Modules

A behaviour first chooses the source of every module out of `Programs`. Each
goroutine has a stack of loads in progress because an import executes the module
before it returns; `CheckCache`, parsing, declaring (export names get
`BINDING_UNINITIALIZED`), executing one statement at a time, and re-exporting are
steps, so that another goroutine, or a cycle, sees every intermediate state.
`define` is modelled with its refusals, its merging of function groups and its
warnings' outcomes; imports give live references for values and the group itself
for functions. A concurrent iteration and write of a binding map may end the
process (`MapRace`), as the Go runtime does.

`AtMostOnce` (one environment per module, over cycles and failed loads),
`ExportsComplete`, `RefsResolve`, `LocalsWin`, `ImportsAddOverloads`, `Terminates`.

`RefsResolve` (no reference leads back to itself, so that `Get` comes to an end)
does not hold of every program. A declaration of `var` in a cycle of imports breaks
it, and so do two forms without `var`: a module that imports itself, and a function
that an import adds to a group, which is then an imported binding and gives way to
the next import of that name, be it one that leads back here (see the table below).

## Programs: compiler, machine, checker

**Pipeline.** `Machine` starts with a program of `Programs` (a sequence of syntax
trees), lets `Analyzer` and `Compiler` refuse it or turn it into code, and executes
the code one instruction per step, to a value or an error (`out`). The state is
the program, a stack of frames (code, instruction pointer, operand stack,
environment; one per activation of `Executor.run` or of a parameter default), and
the heap of environments and function groups. Strings, symbols and names are
strings that are never taken apart; declared types, which the code keeps as text,
are sequences of tokens; error messages are their kinds.

The opcodes are those of the code. What Go does in a nondeterministic order (the
walk over a function group, the pairs of a map literal) is fixed in the machine and
varied in the property (`ChoiceOrderFree`) or in the programs. What tasks, defers
and limits do is `Executor`'s; `Machine` has what the same code does to values.
Between them, every opcode of the executor is an action.

`Checker` is an operator of the tree, as in the code: one state record, one
inference per kind of node, constraints solved in order, deferred checks after
them. Go's pointers between type nodes are a function from ids to types.

**The reference.** `Semantics` defines the meaning of a tree directly, with
neither jumps nor operand stack: matching a pattern against a value gives bindings
or nothing, a block is evaluated in an environment of its own, a slice is the set of
its positions. It shares with the machine the environments and the operators
on values. Where the code does otherwise than its documents (see below), the programs
leave the form out.

**Properties.** `ResultAgrees`: every compiled program comes to its end, and ends as its tree says.
`StackDisciplined`: in every chunk, at every instruction, the depth of the stack and
the number of open scopes are the same along all paths, large enough for what the
instruction takes, and back at the start at the end. `BeginsAtHome`: every iteration
of recur begins in the environment of the parameters. `ChoiceOrderFree`: no order of a
group changes the overload chosen. `ArgumentsArrive`: every argument reaches one
parameter, in order, or the call fails for a reason. `ArithmeticIsClose`: results are the
exact ones, with digits dropped at their end where they do not fit; `Decimals` states
what is promised of each operator, of integers without bounds.
`NoFalseAlarm`: a program that runs through has no diagnostic of a kind that means
certain failure. `SumsAreSafe`: where the checker is silent, no program ends at an operand of `+` or
`*` of a wrong type.
`UnreachableNeverRuns`: a branch called unreachable is not taken. `GenericReturns`: the
result check of a generic function accepts what its type parameters were inferred
from. `ResultAgrees` and the three about the checker are stated of the end of a run, as
`<>[](the program has ended and ...)`: under the fairness below they also say that it
ends. The others are invariants.

`ArithmeticIsClose` (`Close` and `Order` of `Decimals`) leaves aside what the code gets
wrong: divisors below zero, negative results that lose digits or keep a positive
exponent, and operands whose digits do not align in one word (see the table below).

## Maps

`Hamt` sees a trie as its buckets, a function from the segments of the hash that lead
to a bucket to the pairs in it; branches are the places above buckets. Promotion
of a full bucket, the missing child, replacement, deletion with the removal of empty
branches and the collapse of an only child are those of `hamt.go`.

`Maps` has the objects: a literal keeps its pairs in a Go map, and whichever
operation comes first converts it (`ensureStorage`). That is a sequence of steps without a
lock: see that storage is nil, read `Pairs`, put them pair by pair into a new trie,
write the two words of the interface, clear `Pairs`, read `storage` again. `put` and `remove` work on a clone that shares the
trie. `Drop` is the garbage collector's view of an object nobody refers to, so that the
set of objects stays small.

`WellFormed`: every pair lies on the way of its key's hash, buckets are neither
empty nor nested nor overfull unless their keys collide, and the count is right.
`ImplementsMap`: `Maps` implements `PersistentMap` (refinement mapping: the content of an object
is its trie's pairs, or `Pairs` before the conversion): no step but `Literal`,
`put` and `remove` makes a map, none changes one, and every answer is right. It holds where
first uses of one object do not overlap (`Overlap = FALSE`): in a program of one task, and
where the task that made a map has used it before it is shared. Uses by other
tasks between the two writes of the conversion are in the model. Where first uses
may overlap, `MapShared` shows `ValuesImmutable` violated.

## Runs

| run | instance | shows |
|---|---|---|
| `ExecTasks` | 3 tasks, limit 1, 5 instructions; nursery functions, spawn, await with and without a timer, throw, return, recur, calls that fail at their ends; 0.8 M states | joins, causes of cancellations, refinement of `TaskPromise` |
| `ExecScopes` | 1 task, 5 instructions; blocks, nurseries (their limit inherited), calls, defers, throw, recur, `return recur`; 2.2 M states | stacks in step |
| `ExecAwaits` | 2 tasks, 5 instructions, limits 1 and 2; nursery functions, spawn, await of any handle with and without a timer, throw, recur, fault; 0.4 M states, with fairness | ownership, slots, deadlocks, termination |
| `SelectAll` | 2 goroutines, an unbuffered and a buffered channel, both closable, one task; all library selects and mixed ones | no message lost or made up; release of waiters |
| `ModImports` | 3 modules, all sources of up to 3 and 2 statements out of 5 and 4 kinds; 0.33 M states | loading and imports of one goroutine |
| `ModTasks` | main and a task | concurrent imports end and are complete |
| `Programs` | 3,301 programs in families: patterns against values with guards; calls of every shape of parameters with every shape of arguments, to the program and to the host; overloads that tie; slices around the ends; guards on parameters of declared types; reassignments; generics; sums around the limits; 89 k states, with fairness | compiler, machine, checker and arithmetic agree |
| `MapOps` | 2 tasks, 2 objects, 4 keys, 2 values, 3 literals; 68 k states up to symmetry | tries well formed; refinement of `PersistentMap` |
| `ExecOutlives`, `SelectEarlyAfter`, `ModTwice`, `MapShared` | as small as possible | the code does otherwise than its documents |

*Bounds.* `MaxTask` 3 has a failing task, a sibling joined before and one after
it; limit 1 makes every second spawn wait. Two frames have a caller and a callee
(deferred functions come on top, they are bounded by the instructions that
register them). Five instructions are enough for nursery, spawn, spawn, throw,
recur, and in `ExecAwaits` for nursery, spawn, spawn and an await in each of the two tasks, which
is the smallest circle of siblings. Deadlocks end behaviours there, so that run has no
deadlock check: `DeadlocksAreAwaits` and `Terminates` say where programs may stop. Defers are left to
`ExecScopes`: they run in their goroutine and wait only by the instructions that are here. Each of the mutants of `PROJECT.json` is found within these bounds. One
iteration of recur has a carried handle, the adoption of it and the next iteration's
end; a second one repeats the first. Two channels suffice for a select over a
full, an empty and a closed one; selects of different goroutines meet pairwise.
Two library modules have every cycle of two, a cycle through main and a diamond;
a third adds only longer cycles of the same steps. One name suffices because the
rules of `define` concern one name at a time.

The programs of `Programs` are closed under one step of composition: every pattern of
the set at the top and inside another, every guard on every type, every call shape
on every parameter shape; deeper nesting repeats the same lowering. Decimals
have 11 bits of coefficient and 5 of exponent (56 and 8 in the code), 3 digits (16) and a
precision of 2 (14), so that every limit is met by small operands. `MaxInt` 9
stands for `math.MaxInt` in the arity of variadic functions. Tries have 1 bit per level (5), 2 levels
(13) and buckets of one pair (4): of four keys two have the same hash, a third shares
its first segment with them and the fourth none, so that buckets are promoted once
and twice, collide at the last level, collapse, and are left under a branch with one
child. Two objects are a map and what is made of it.

*Fairness.* Weak fairness of every goroutine's steps (the Go scheduler is
preemptive and runs what can run), of the completion of an awaited task in
`Select` (in `Executor` it follows from the fairness of the task's own steps), and of a
load in `Modules`; of `Next` in `Machine`, whose loop runs in one goroutine. No fairness is assumed of the choice between instructions: `Terminates`
of the executor relies on the budget `MaxSteps`: it never says that loops end, only that
nobody waits forever for something that goes on. The timer of an await is fair because
the runtime fires it; an await without one gets no such help.

## Proofs

Theorems hold for every value of the constants under the assumption of the module
(`ExecutorAssumption`, ...) and the hypotheses named here. A hypothesis is there where the
code does otherwise without it, and then a run or the table below shows that. Every
inductive invariant was checked with TLC on the runs' instances before it was proved.
The proof modules have one lemma per action; a step that leaves most of the state alone is
dealt with once (`QuietStep`, `FrameStep`, ...).

**Types, slots, promise** (`Executor_proofs`): `TypeCorrect`, `TokensConserved`
(`LimiterAccounting`) and `PromiseKept` (the refinement of `TaskPromise`), from
`Inductive`: `Spec => []IInv`. The type invariant alone is not
inductive: a limiter's count stays in `Nat` when a token is returned only because
`LimiterAccounting` says the returning task is counted; the head of an await's
list is a handle only because an awaiting frame has one; a goroutine's outcome is
not the recur signal only because frames that are not functions never have it as
their result. And a cancellation settles an *issued* handle only because every list of
handles (task scopes, `todo`, `doomed`, `carry`) has handles up to `spawned`. `IInv`
says so: `FramesOK` and `ScopesOK` type frames and scopes by the number of spawned
tasks, `LimitersOK` says that limiters and holders exist, `TasksOK` that a task not
spawned is idle and its handle open.

**Causes of cancellations** (there too): `CancelsAreCaused` (`CancelHasCause`).
That a task was cancelled because a sibling failed is known when the join reads the
sibling's result and used when the others are cancelled, steps later. `LinkInv`
keeps it in between: a list to be cancelled holds handles of nurseries of the
goroutine itself (`ListsAreLocal`), and the failure that caused it stays on record
while the error is handed up through frames, defers and outer nurseries.

**Handles** (there too): `HandlesKeptOnce` (`OwnedOnce`). `KeepInv` says that no two
places of all lists of a goroutine hold the same handle. It has to include
the lists between a recur's leaving of a scope and its adoption by the next iteration.

**Waiting** (there too): `OnlyAwaitsDeadlock` (`DeadlocksAreAwaits`), for every number of tasks and
every limit, with faults and defers. `SlotInv` says that spawners are older than their
tasks, that a limiter is on one goroutine's stack only, and that its slots are with tasks that
goroutine spawned; so a join, a wait for a slot and an await in order
are all for a task of one's own or an older sibling. In a set of goroutines that wait
only for each other take the tasks whose spawner is the latest, and of these the oldest:
a task of its own would have a later spawner, an older sibling would be older.
Whether what is awaited ever ends is liveness and stays with TLC.

**Scopes** (`Scopes_proofs`): `PopsArePushed` (`NoUnderflow`) for every program;
`LimitsAtTheirDepth` (`ScopesAligned`) and `CallsGiveBack` (`CallsAreBalanced`) for programs
without `errorAt` (`Clean`: the instruction "fault" is not in `Ops`), since it leaves a
frame's scopes to its caller. `BalanceInv` says, per frame and per stage of leaving
a scope, how many environments, defer scopes, task scopes and limiters belong to the
scopes its code has open; frames of a goroutine share the last two, so it is stated as
sums over the stack of frames.

**Joins** (`Nursery_proofs`): `NurseriesJoin` (`NurseryJoins`), under `Joinable`: `Clean`, and not
both nursery blocks and recur. `JoinInv` adds to the invariants above where an
adopted handle is (`KeptInv`) and in which stages a frame may carry handles (`ShapeInv`):
a recur that carries any has left all scopes but the function's own.

**Select** (`Select_proofs`): `TypeCorrect` for all forms; `SlicesAligned`,
`ReceivedNotLost` (`TakenIsDelivered`), `SentNotInvented` (`SentIsAccepted`) and `AwaitedWhenDone`
(`AwaitedIsDone`) for forms in which an `after 0` is the last case (`AlignedForms`). The code
drops such a case from one of its two slices and keeps it in the other, so that the
index of the chosen case means another one in the second slice if a case follows;
`SelectEarlyAfter` shows it. The invariant says for every position of the walk which
prefix of the form the two slices stand for.

**Modules** (`Modules_proofs`): for all programs and goroutines `TypeCorrect`,
`ExportsAreComplete` and `OverloadsAreAdded` (`ImportsAddOverloads`); for one goroutine `ExecutedOnce`
(`AtMostOnce`; `ModTwice` shows two). `LoadInv` types the stack of loads by its stages and
says that a cached environment is the module's, that the environments of running
loads are on some stack, and what the declaration pass has left to the execution.

**Bindings and references** (`References_proofs`): `DeclarationsStay` (`LocalsWin`) for modules without `var` (`NoVar`): `FixedInv` says that no
binding is then mutable and that one with a value of its own is not marked as
imported, so that `Environment.define` refuses to replace it.

`ReferencesResolve` and `CyclesResolve` (`RefsResolve`) under two hypotheses, since it fails
without either (`SelfPrograms`, `ThreePrograms` and `VarPrograms` below). Both come down to
`ResolveEnds`: where references lead to bindings of lower rank, a chain of as many
references as there are bindings would pass one twice. `ReferencesResolve` is about any
goroutines and programs whose imports make no cycle (`Acyclic`): the rank is that of
the module, and `GotInv` says that an import has loaded what its statement names. `CyclesResolve`
allows cycles, for one goroutine and modules that declare values, with `val`, and do not
import themselves (`Plain`). There the environment that a reference leads to was
made before the one that holds it, or its binding never changes again: `PlainInv` needs for that
that the loads in progress are in the order of their environments, and that a
declaration which was executed is settled.

**Maps** (`Maps_proofs`): `TriesWellFormed` (`WellFormed`), also for overlapping first uses;
`MapsKeepTheirPromise` (`ImplementsMap`) without overlap. `HashAssumption` says that the
segments of a key have all of its hash (in the code 13 levels of 5 bits hold 64). The
lemmas about `hamtInsert` and `hamtDelete` say that the places of a trie are an antichain
and that its pairs are the mapping with one key put or removed. `KeepInv`
then follows a conversion: one task converts an object at a time, the new trie and
what is left of `Pairs` are the content together, and the interface is torn only while
that task is between its two writes.

**Decimals** (`Dec64_proofs`): what `Decimals` promises of an operator holds of the code's
algorithm, for all operands and for every width of coefficient and exponent that
`WordAssumption` allows. It asks that an exponent can count the digits of a word, and
that a coefficient has two digits or more; the 56 and 8 bits, 16 digits and precision 14
of the code satisfy it, as do the 11 and 5 bits of `Programs`.

- `NormalFormKept`: `normalizeTowardZero` keeps a number that fits and cuts off less than
  the last digit of a full coefficient from one that does not; nothing wraps in `New`.
- `ComparesByValue`, `SumsAreClose`, `RemaindersAreClose`: `Cmp` orders by value; `Add`,
  `Sub` and `Mod` are the exact result in normal form. Hypothesis: the operands, their sum
  and their difference are words at the lower exponent (`InWord`), since `normalizePair` multiplies without a check.
- `ProductsAreClose`: `Mul` loses less than a k-th part, for every k with `1600 * k * k` in a
  word: some 7 digits of a product are certain in 64 bits, whatever the factors. The
  loop shortens the larger factor and stops only when the product is a word, which
  may cost either factor half of the digits of a word.
- `QuotientsAreRounded`: `Div` is within half a unit of the last digit asked for, of
  the last one the dividend has room for, or of the last one of a coefficient.
  Hypothesis: rounding up does not lead out of the coefficient.

All have the hypothesis `InRange` of the number to be normalised: no digit of it has an exponent
beyond the largest. The loop that strips zeros counts the exponent up without a
bound, so without it a number at the end of the range gets an exponent that wraps.
`Close` itself leaves negative operands aside where the code is wrong.

The argument: each loop is written as the least number of iterations after which its condition
fails, so `LeastElement` gives the condition at the end and its negation before.
Powers of ten are a recursive function; what they are (`TenToNext`, `TenToPlus`,
`TenToOverTwo`, and `Pow10Is` for the powers in a word) follows by induction on the set of exponents
for which it holds (`Inductive`), which needs no operator as a parameter. `Iterates`
is the same for the factors of `Mul`. Two numbers are compared as multiples of a power
of ten below both, and `SameAt` and `NearAt` say that it does not matter of which one.

Only model-checked: the liveness properties (liveness and ENABLED are out of the
prover's reach); `RefsResolve` in programs whose imports make a cycle and which have
functions or several goroutines; the properties of `Programs`, which are about
recursive definitions over trees, for which the prover has no induction.

## Where the code does otherwise than its documents

Four runs are expected to violate what a document says; `findings` quotes the
line of each. The modules state more such properties, in their last section. To
see one violated, make it the only property of the configuration named here:

| property | instance | what the code does |
|---|---|---|
| `DefersAlwaysRun` | `ExecScopes` with `Ops` call, defer, fault | a fault returns at once and the frame's defers are dropped (`executor.go:2098`; ADR-003.md:55 "Always executes when the enclosing scope exits.") |
| `RootDefersStay` | `ExecScopes` with `Ops` call, defer, recur | recur pops the iteration's own defer scope without running it (`executor.go:729`, under the comment "function-root defers stay deferred until function exit"): a defer registered before the recur never runs |
| `AwaitConsumes` | `ExecTasks` with `Ops` callNursery, call, defer, spawn, throw, await, `MaxTask` 2 and `MaxSteps` 6 | a failure that an await delivered fails the nursery again |
| `FailureIsInjected` | `ExecScopes` with `Limits` {1} and `Ops` nursery, spawn, throw | the error a nursery block ends with is dropped by the next statement |
| `LimitCapsChildren` | `ExecTasks` with `Ops` callNursery, block, spawn | a spawn from a plain block inside a nursery takes no slot |
| `NurseryJoins` | `ExecTasks` with `Ops` call, nursery, spawn, throw, recur | handles carried over recur are dropped when the next iteration ends early |
| `RecurRunsNoFunctionDefers` | `ExecScopes` with `Ops` call, defer, returnRecur | `return recur(..)` runs the function's defers at every iteration |
| `NoPanic`, `RefusedIsNotSent` | `SelectAll`, `Forms <- SendForms`, `Spec` | a close under a waiting send panics; a close after a send reports it as refused |
| `PartialOnlyInCycle` | `ModTwice` | another goroutine imports a module that is half loaded |
| `ExportsAreSeen`, `UninitNeverRead` | `ModImports`, `Programs <- CyclePrograms` | an executed declaration is not exported until the load ends; a module reads its own uninitialized binding |
| `ViewIsMerged`, `ImportLeavesExporter` | `ModImports`, `Programs <- MergePrograms` | `{*}` of two modules drops the second's functions; the import extends the first exporter's group |
| `Terminates`, `LocalsWin` | `ModImports`, `Programs <- VarPrograms`, with `LiveSpec` and `Spec` | `var` bindings in a cycle refer to each other forever; an import replaces a `var` |
| `OverloadsAreKept` | `ModImports`, `Programs <- TwicePrograms` | a second function of the same signature replaces the first |
| `RefsResolve`, `Terminates` | `ModImports`, `Programs <- SelfPrograms`, with `Spec` and `LiveSpec` | a module that imports itself and reads an exported name before its declaration waits for itself forever |
| `RefsResolve`, `Terminates` | `ModImports`, `Programs <- ThreePrograms` and a third library module `"c"`, with `Spec` and `LiveSpec` | a function that merged with an imported one counts as imported (`environment.go:246`), so the next import replaces both by a reference, in a cycle one to itself |

The translation of the compiler, the machine, the checker and the decimals met more
places where the code and its documents differ, or where it is hard to say that
it does what was meant. The models reproduce the code; the programs of
`Programs` leave these forms out, and no run is about them:

| where | what the code does |
|---|---|
| `compiler.go:160` | `x + [e]` is rewritten to an append whatever `x` is |
| `compiler.go`, `val [a, ...rest] = xs` | binds `rest` to a slice value and leaves an element on the stack |
| `compiler.go:1034` | a map pattern inside a list pattern leaves its element on the stack when it fails; `x @ literal` and `x @ _` drop the binding |
| `compiler.go:277`, `executor.go:236` | of two equal keys of a map literal the first in the code's order wins, since pairs are popped last to first |
| `executor.go:917` | `return recur(..)` keeps the scopes and the stack of the iteration (ADR-002.md:47) |
| `executor.go:1945` | recur overwrites parameters in place, so a closure or a task of the iteration before sees the new ones (ADR-011) |
| `analyzer.go` | recur in an argument or outside a function is not reported (ADR-002.md:53, :69) |
| `executor.go:137` | a function declared in a block joins the group of the same name outside (SLUG.ai:15) |
| `executor.go:1355` | a second function of the same signature replaces the first (ADR-030.md:46 "Do not overwrite an existing implementation for the same signature.") |
| `object.go`, tags | every struct type, type parameter, `any` and `nil` has the tag `@struct`, so overloads on two struct types tie |
| `object.go`, `DispatchToFunction` | functions of the program score 0; a variadic host function is chosen with score -1 |
| `executor.go`, arguments | `f(4, a=1)` is not refused and does not shift; an argument given twice takes the named one (ADR-019) |
| `executor.go`, structs | a default of a field is evaluated in the outermost environment; unknown fields (ADR-020) |
| `executor.go:2131` | slice bounds that are no numbers panic |
| `executor.go:1932` | the declared result of a `foreign` function is never checked; a generic function that returns a closure annotated with the outer type parameter always fails its check |
| `program_prepare.go:38` | two `foreign` declarations of one name share one object |
| `object.go:117` | a number's key is its integer part as `ToInt64` gives it, 0 for every negative exponent: 1.5 and 0 are one key |
| `dec64.go:332` | the sign is applied twice: 4 / -2 is 2, -4 / -2 is -2 |
| `dec64.go:554` | the bound is one-sided: a negative coefficient with exponent 1 to 15 is scaled up until it wraps |
| `dec64.go:563` | operands are aligned by unchecked multiplication: 1e15 < 0.0001 is true (ADR-013.md:43 "equivalent numeric values compare equal") |
| `dec64.go:542` | the exponent is counted up without a bound: 2e16 at exponent 127 is stored with exponent -113 |
| `dec64.go` | division by zero and overflow give NaN (ADR-013.md:58); products of two 10-digit numbers keep about 9 digits, quotients of two 16-digit ones 2 or 3 |
| `typecheck.go:2820` | `type(x) == :struct` narrows a struct type to nothing (ADR-022.md:98) |
| `typecheck.go`, `unify` | no occurs check; `nil` is accepted for a declared result `num` |

## Not modelled

From text to tree (lexer, parser), sequential and without shared state; the
language server, which reads and answers one request at a time in one
goroutine; I/O and conversion functions of the host, calls into Go's
library; the standard library in Slug, except for `channel.slug`; path resolution of modules,
documentation tags, stack traces, error bindings of defers. In `Machine`: the
option that turns type errors into refusals (`Typing` compares what the checker says with
what the program does instead), payloads of tags, a host function as `@main`. In
`Dec64`: conversions from and to floating point, `Abs`, `Max`, `Min`. In `Maps`: `copy` and map
patterns with a rest, which are a new object and a sequence of puts into it.

## Plan

What the inventory has is modelled as far as a small instance says something about it,
and the safety properties of `Executor`, `Select`, `Modules` and `Maps` and the
operations of `Dec64` are proved. Open are:

1. The invariants of `Semantics` and `Typing` (`StackDisciplined`, `BeginsAtHome`,
   `ChoiceOrderFree`, `ArgumentsArrive`, `ArithmeticIsClose`, `GenericReturns`) as theorems.
   They are about trees and code of any depth and reach recursive operators, so they
   stay with TLC; of `ArithmeticIsClose` the theorems of `Dec64_proofs` have the arithmetic, and
   what is left is that the machine calls it with the operands of the instruction.
2. Liveness, which TLC checks on the instances above.
3. `RefsResolve` in cycles with functions: which orders of imports and overloads exclude
   a group that gives way to a reference (`ThreePrograms`).
4. The five hazards that no property covers: the defers of a recurring function, a module that other goroutines see before it
   is declared, groups extended while they are in use, parameters that recur
   overwrites under a closure, a function that joins the group of an outer scope.
