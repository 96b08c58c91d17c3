------------------------------ MODULE Machine -------------------------------
(***************************************************************************)
(* The bytecode machine at the level of values (internal/vm/executor.go):  *)
(* one action per group of opcodes.  A frame is one activation of          *)
(* Executor.run; module Executor has what the same opcodes do to tasks,    *)
(* defers and limits, which is left out here.  A program of Programs is    *)
(* compiled and run to its end: a value or an error.                       *)
(*                                                                         *)
(* A frame's kind is                                                       *)
(*   main, call   the program, a function                                  *)
(*   bind         a call whose parameters are still being bound            *)
(*   default      the default of a parameter of the bind frame below it    *)
(*   field        the default of a field of the struct its caller builds   *)
(*   entry        the caller of the function tagged @main                  *)
(* home is the environment of a call's parameters, env the current scope.  *)
(***************************************************************************)
EXTENDS Compiler, Analyzer

CONSTANT Programs       \* sequence of programs, each a sequence of statements
ASSUME ProgramsAssumption == Len(Programs) \in Nat \ {0}

VARIABLES prog, frames, heap, out
vars == <<prog, frames, heap, out>>

Running == Val("running")
Frame(kind, code, env) ==
  [kind |-> kind, code |-> code, ip |-> 1, stack |-> <<>>, env |-> env, last |-> Nil,
   fn |-> Nil, slots |-> <<>>, home |-> 0]

\* The chunks of code: itself, its functions, their defaults, select thunks.
RECURSIVE Chunks(_)
Chunks(code) ==
  LET ofFn(f) == Chunks(f.x[1].code)
                   \cup UNION {Chunks(f.x[1].params[i].def[1]) :
                                 i \in {j \in DOMAIN f.x[1].params : f.x[1].params[j].def # <<>>}}
      ofCase(c) == UNION {ofFn(f) : f \in ToSet(c.fns) \cup ToSet(c.handler)}
      of(ins) == CASE ins.op = "constant" /\ ins.c.k = "fn" -> ofFn(ins.c)
                   [] ins.op = "select" -> UNION {ofCase(c) : c \in ToSet(ins.plan)}
                   [] OTHER -> {}
  IN  {code} \cup UNION {of(ins) : ins \in ToSet(code)}
Compiles(code) == \A c \in Chunks(code) : \A i \in DOMAIN c : c[i].op # "refused"

-----------------------------------------------------------------------------
(* The top frame                                                           *)

Fr == frames[Len(frames)]
Cur == Fr.code[Fr.ip]
At(ops) == frames # <<>> /\ Fr.kind # "bind" /\ Cur.op \in ops
Depth == Len(Fr.stack)
Arg(i) == Fr.stack[Depth + 1 - i]            \* i = 1 is the top
Args(n) == SubSeq(Fr.stack, Depth + 1 - n, Depth)

Below == SubSeq(frames, 1, Len(frames) - 1)
Caller == frames[Len(frames) - 1]
SetCaller(f) == frames' = [Below EXCEPT ![Len(Below)] = f]
SetTop(f) == frames' = [frames EXCEPT ![Len(frames)] = f]
\* The top n operands give way to vs, and the frame goes on.
Moved(n, vs) == [Fr EXCEPT !.stack = SubSeq(@, 1, Len(@) - n) \o vs, !.ip = @ + 1]
Fault(v) == /\ out' = v
            /\ frames' = <<>>
            /\ UNCHANGED heap
\* The result of an operation on the top n operands; errors end the program.
Gives(n, v) ==
  \E r \in {v} : IF IsErr(r) THEN Fault(r)
                ELSE SetTop(Moved(n, <<r>>)) /\ UNCHANGED <<heap, out>>
\* ... of one that changes the heap: r is [h, err].
GivesHeap(n, r, v) == IF r.err # "" THEN Fault(Err(r.err))
                      ELSE SetTop(Moved(n, <<v>>)) /\ heap' = r.h /\ UNCHANGED out

-----------------------------------------------------------------------------
(* Values and variables                                                    *)

\* A function constant captures the current scope.
bindClosureIfNeeded(v) == IF v.k = "fn" THEN [v EXCEPT !.env = Fr.env] ELSE v
PushConstant ==
  /\ At({"constant", "nil", "true", "false"})
  /\ Gives(0, CASE Cur.op = "constant" -> bindClosureIfNeeded(Cur.c)
                [] Cur.op = "nil" -> Nil
                [] OTHER -> BoolV(Cur.op = "true"))

GetGlobal ==
  /\ At({"get"})
  /\ Gives(0, IF Has(heap, Fr.env, Cur.s) THEN Get(heap, Fr.env, Cur.s) ELSE Err("undefined"))

SetGlobal ==
  /\ At({"setConst", "setVar"})
  /\ \E r \in {setGlobal(heap, Fr.env, Cur.s, Arg(1), Cur.op = "setVar")} : GivesHeap(1, r, r.v)

\* Every entry with a symbol or a string as its key becomes a binding.
BindMapAll ==
  /\ At({"bindMapAll"})
  /\ LET m == Arg(1)
         bindEntry(r, i) ==
           IF r.err # "" \/ KeyAt(m, i).k \notin {"sym", "str"} THEN r
           ELSE define(r.h, Fr.env, KeyAt(m, i).name, ValueAt(m, i), Cur.s = "setVar", FALSE)
     IN  IF m.k # "map" THEN Fault(Err("type"))
         ELSE GivesHeap(1, FoldLeft(bindEntry, Ok(heap), [i \in 1..MapLen(m) |-> i]), m)

AssignGlobal ==
  /\ At({"assign"})
  /\ GivesHeap(1, assign(heap, Fr.env, Cur.s, Arg(1)), Arg(1))

Build ==
  /\ At({"array", "hash", "slice", "structSchema"})
  /\ CASE Cur.op = "array" -> Gives(Cur.n, ListOf(Args(Cur.n)))
       [] Cur.op = "hash" -> Gives(2 * Cur.n, mapFromPairs(Args(2 * Cur.n)))
       [] Cur.op = "slice" -> Gives(3, SliceV(Arg(3), Arg(2), Arg(1)))
       [] OTHER -> Gives(1, [Arg(1) EXCEPT !.env = Fr.env])

\* The environment at the end of the chain.
RECURSIVE Root(_, _)
Root(h, env) == IF h.envs[env].outer = 0 THEN env ELSE Root(h, h.envs[env].outer)

\* Fields that are left out get their defaults, one frame each, evaluated
\* under the outermost environment; then the struct is built.
StructInitOp ==
  /\ At({"structInit"})
  /\ LET m == Arg(1)
         schema == Arg(2)
         open == {i \in DOMAIN schema.x : schema.x[i].def # <<>> /\ Given(m, schema.x[i].name) = {}}
         first == CHOOSE i \in open : \A j \in open : i <= j
         h1 == Enclosed(heap, Root(heap, schema.env))
         field == schema.x[first]
     IN  CASE schema.k # "schema" -> Fault(Err("type"))
           [] ~structValuesFromMap(schema.x, m) -> Fault(Err("field"))
           [] open = {} -> Gives(2, Filled(schema, m, [i \in DOMAIN schema.x |-> Nil]))
           [] OTHER -> /\ frames' = Append(frames,
                            [Frame("field", Compile(<<Return(field.def[1])>>), Newest(h1)) EXCEPT
                               !.fn = SymV(field.name)])
                       /\ heap' = h1
                       /\ UNCHANGED out
StructCopyOp == At({"structCopy"}) /\ Gives(2, structCopy(Arg(2), Arg(1)))

IndexOp == At({"index", "indexDot"}) /\ Gives(2, evalIndex(Arg(2), Arg(1), Cur.op = "indexDot"))
Dup == At({"dup"}) /\ SetTop(Moved(0, <<Arg(1)>>)) /\ UNCHANGED <<heap, out>>
BinaryOp == At({"binary"}) /\ Gives(2, evalBinary(Cur.s, Arg(2), Arg(1)))
PrefixOp == At({"prefix"}) /\ Gives(1, evalPrefix(Cur.s, Arg(1)))
ListOp ==
  /\ At({"listAppend", "listPrepend"})
  /\ Gives(2, IF Cur.op = "listAppend" THEN listAppend(Arg(2), Arg(1)) ELSE listPrepend(Arg(2), Arg(1)))

\* A tag is kept by the function it is put on.
TagWith(v, tag) == IF v.k = "fn" THEN [v EXCEPT !.name = tag] ELSE v
ApplyTags == At({"applyTags"}) /\ Gives(1, TagWith(Arg(1), Cur.s))

-----------------------------------------------------------------------------
(* Pattern tests                                                           *)

IsSeq(v) == v.k \in {"list", "bytes"}
MatchTest ==
  /\ At({"seqLenEq", "seqLenGte", "mapLenEq", "mapLenGte", "structSchema?"})
  /\ LET v == Arg(1) IN
     Gives(1, BoolV(CASE Cur.op = "seqLenEq" -> IsSeq(v) /\ Len(v.sub) = Cur.n
                      [] Cur.op = "seqLenGte" -> IsSeq(v) /\ Len(v.sub) >= Cur.n
                      [] Cur.op = "mapLenEq" -> v.k = "map" /\ MapLen(v) = Cur.n
                      [] Cur.op = "mapLenGte" -> v.k = "map" /\ MapLen(v) >= Cur.n
                      [] OTHER -> v.k = "struct" /\ v.name = Cur.s))
MapHasKey ==
  /\ At({"mapHasKey"})
  /\ Gives(2, BoolV(Arg(2).k = "map" /\ Hashable(Arg(1)) /\ HasKey(Arg(2), Arg(1))))
SeqTail ==
  /\ At({"seqTail"})
  /\ LET v == Arg(1) IN
     Gives(1, IF IsSeq(v) THEN [v EXCEPT !.sub = SubSeq(@, Cur.n + 1, Len(@))] ELSE Err("type"))
\* The entries whose names the pattern did not mention.
MapRemainder ==
  /\ At({"mapRemainder"})
  /\ LET m == Arg(1)
         skip(i) == KeyAt(m, i).k \in {"sym", "str"} /\ KeyAt(m, i).name \in ToSet(Cur.plan)
         kept == SetToSortSeq({i \in 1..MapLen(m) : ~skip(i)}, <)
         rest == MapOf(FlattenSeq([j \in DOMAIN kept |-> <<KeyAt(m, kept[j]), ValueAt(m, kept[j])>>]))
     IN  IF m.k # "map" THEN Fault(Err("type"))
         ELSE GivesHeap(1, define(heap, Fr.env, Cur.s, rest, FALSE, FALSE), BoolV(TRUE))

-----------------------------------------------------------------------------
(* The host: the functions of the runtime, and those declared foreign.      *)

HostNames == {"type", "args", "rest"}
\* type gives the schema of a struct and the name of any other type; args and
\* rest stand for the functions that look at all their arguments.
TypeNames == [num |-> "number", str |-> "string", fn |-> "function", fg |-> "function",
              foreign |-> "function", sym |-> "symbol", schema |-> "struct"]
Host(name, vals) ==
  LET v == vals[1] IN
  CASE name \in {"args", "rest"} -> ListOf(vals)
    [] Len(vals) # 1 -> Err("arguments")
    [] name = "len" -> (CASE v.k \in {"list", "bytes"} -> NumV(Len(v.sub))
                          [] v.k = "str" -> NumV(Len(v.name))
                          [] v.k = "map" -> NumV(MapLen(v))
                          [] OTHER -> Err("type"))
    [] name = "type" -> IF v.k = "struct" THEN [Val("schema") EXCEPT !.name = v.name]
                        ELSE SymV(IF v.k \in DOMAIN TypeNames THEN TypeNames[v.k] ELSE v.k)
ForeignV(name, params, ret, bare) ==
  [FnOf([i \in DOMAIN params |-> params[i].ann], ret, {}, Variadic(params)) EXCEPT
     !.k = "foreign", !.name = name,
     !.x = <<[params |-> [i \in DOMAIN params |->
                            [name |-> params[i].name, var |-> params[i].var, def |-> params[i].def,
                             tag |-> inferredTagsFromDeclaredType(params[i].ann)]],
              bare |-> bare, code |-> <<>>]>>]

installBuiltinsIntoEnv(h) == SetVar(h, 1, "len", Binding(ForeignV("len", <<>>, <<>>, TRUE), FALSE, FALSE))

\* There is one object for each function of the host: a second declaration of
\* it changes what the groups that hold it already call.
Redeclared(h, fn) ==
  LET same(m) == m.fn.k = "foreign" /\ m.fn.name = fn.name IN
  [h EXCEPT !.groups = [g \in DOMAIN @ |-> [i \in DOMAIN @[g] |->
                          IF same(@[g][i]) THEN [@[g][i] EXCEPT !.fn = fn] ELSE @[g][i]]]]
\* PrepareProgram: foreign declarations become bindings and leave the program.
PrepareProgram(stmts) ==
  LET done(r, d) == [r EXCEPT !.h = d.h, !.err = IF @ = "" THEN d.err ELSE @]
      add(r, fn) == done(r, define(Redeclared(r.h, fn), 1, fn.name, fn, FALSE, FALSE))
      declare(r, e) ==
        CASE e.k # "foreign" -> [r EXCEPT !.code = Append(@, e)]
          [] e.name \notin HostNames -> [r EXCEPT !.err = "foreign"]
          [] OTHER -> add(r, ForeignV(e.name, e.x, e.ann, FALSE))
  IN  FoldLeft(declare, [h |-> installBuiltinsIntoEnv(EmptyHeap), err |-> "", code |-> <<>>], stmts)

-----------------------------------------------------------------------------
(* Control                                                                 *)

PushScope ==
  /\ At({"pushScope"})
  /\ heap' = Enclosed(heap, Fr.env)
  /\ SetTop([Moved(0, <<>>) EXCEPT !.env = Newest(heap')])
  /\ UNCHANGED out
\* Mutant: recur jumps out of the scope it is in.
RecurSkipsScopes ==
  /\ At({"popScope"})
  /\ LET f == IF Depth = 0 THEN Moved(0, <<Nil>>) ELSE Moved(0, <<>>)
         env == IF Depth > 0 /\ Arg(1).k = "recur" THEN Fr.env ELSE heap.envs[Fr.env].outer
     IN  IF env = 0 THEN Fault(Err("root scope"))
         ELSE SetTop([f EXCEPT !.env = env]) /\ UNCHANGED <<heap, out>>
\* The scope's value stays on the stack: nil when there is none.
PopScope ==
  /\ At({"popScope"})
  /\ LET f == IF Depth = 0 THEN Moved(0, <<Nil>>) ELSE Moved(0, <<>>) IN
     IF heap.envs[Fr.env].outer = 0 THEN Fault(Err("root scope"))
     ELSE SetTop([f EXCEPT !.env = heap.envs[@].outer]) /\ UNCHANGED <<heap, out>>

Pop ==
  /\ At({"pop"})
  /\ IF Depth = 0 THEN Fault(Err("underflow"))
     ELSE SetTop([Moved(1, <<>>) EXCEPT !.last = Arg(1)]) /\ UNCHANGED <<heap, out>>

Jump ==
  /\ At({"jump", "jumpIfFalse"})
  /\ LET cond == Cur.op = "jumpIfFalse"
         taken == ~cond \/ ~isTruthy(Arg(1))
         f == Moved(IF cond THEN 1 ELSE 0, <<>>)
     IN  SetTop([f EXCEPT !.ip = IF taken THEN Fr.ip + Cur.n ELSE @])
  /\ UNCHANGED <<heap, out>>

\* fn is called: its arguments take their places, in a frame of kind bind.
BindArguments(fn, a) ==
  IF fn.k = "foreign" THEN bindArguments(fn, a.positional, a.named)
  ELSE bindVMArgumentsInto(ParamsOf(fn), a.positional, a.named)
Invoke(fs, fn, a) ==
  \E slots \in {BindArguments(fn, a)} :
    IF slots = FAILS THEN Fault(Err("arguments"))
    ELSE /\ frames' = Append(fs, [Frame("bind", fn.x[1].code, 0) EXCEPT !.fn = fn, !.slots = slots])
         /\ UNCHANGED <<heap, out>>

\* evalCall.  A group chooses; what is no function cannot be called.
CalledBy(callee, a) ==
  CASE callee.k \in {"fn", "foreign"} -> callee
    [] callee.k = "fg" -> Resolve(heap.groups[callee.n], a.positional, a.named).fn
    [] OTHER -> Nil
CallOpcode ==
  /\ At({"call"})
  /\ \E a \in {popCallArguments(Cur.plan, Args(Cur.n))} :
     \E fn \in {CalledBy(Arg(Cur.n + 1), a)} :
       CASE ~a.ok -> Fault(Err("arguments"))
         [] fn = Nil -> Fault(Err("not callable"))
         [] OTHER -> Invoke([frames EXCEPT ![Len(frames)] = Moved(Cur.n + 1, <<>>)], fn, a)

\* The first parameter without a value: its default is run, or the call
\* fails.  The default of a function is a chunk that runs under its closure,
\* that of a foreign function is an expression compiled now and run under
\* the outermost environment.
BindDefault ==
  /\ frames # <<>> /\ Fr.kind = "bind"
  /\ LET params == ParamsOf(Fr.fn)
         open == {i \in DOMAIN Fr.slots : Fr.slots[i] = <<>>}
         i == CHOOSE j \in open : \A k \in open : j <= k
         foreign == Fr.fn.k = "foreign"
         code(e) == IF foreign THEN Compile(<<Return(e)>>) ELSE e
         h1 == Enclosed(heap, IF foreign THEN 1 ELSE Fr.fn.env)
     IN  /\ open # {}
         /\ IF params[i].def = <<>> THEN Fault(Err("arguments"))
            ELSE /\ frames' = Append(frames, [Frame("default", code(params[i].def[1]), Newest(h1)) EXCEPT !.slots = <<i>>])
                 /\ heap' = h1
                 /\ UNCHANGED out

\* ApplyFunction on a foreign function: a variadic list is spread, an error of
\* the host is a fault.
Spreading(fn, vals) ==
  IF Variadic(ParamsOf(fn)) THEN Front(vals) \o Last(vals).sub ELSE vals
HostCall ==
  /\ frames # <<>> /\ Fr.kind = "bind" /\ Fr.fn.k = "foreign"
  /\ \A i \in DOMAIN Fr.slots : Fr.slots[i] # <<>>
  /\ LET v == Host(Fr.fn.name, Spreading(Fr.fn, [i \in DOMAIN Fr.slots |-> Fr.slots[i][1]])) IN
     IF IsErr(v) THEN Fault(v)
     ELSE SetCaller([Caller EXCEPT !.stack = Append(@, v)]) /\ UNCHANGED <<heap, out>>

\* All parameters have values: they are variables of the call's environment,
\* a new one for a call and the same one for the next round of recur, which
\* also keeps the current scope.
Enter ==
  /\ frames # <<>> /\ Fr.kind = "bind" /\ Fr.fn.k = "fn"
  /\ \A i \in DOMAIN Fr.slots : Fr.slots[i] # <<>>
  /\ LET again == Fr.home # 0
         h1 == IF again THEN heap ELSE Enclosed(heap, Fr.fn.env)
         home == IF again THEN Fr.home ELSE Newest(h1)
         params == ParamsOf(Fr.fn)
     IN  /\ heap' = FoldLeft(LAMBDA h, i : SetVar(h, home, params[i].name,
                                                  Binding(Fr.slots[i][1], TRUE, FALSE)),
                             h1, [i \in DOMAIN params |-> i])
         /\ SetTop([Fr EXCEPT !.kind = "call", !.home = home, !.env = IF again THEN @ ELSE home])
  /\ UNCHANGED out

\* recur pushes a signal that travels to the end of the function.
RecurOp ==
  /\ At({"recur"})
  /\ LET a == popCallArguments(Cur.plan, Args(Cur.n)) IN
     IF a.ok THEN /\ SetTop(Moved(Cur.n, <<[Val("recur") EXCEPT !.x = <<a>>]>>))
                  /\ UNCHANGED <<heap, out>>
     ELSE Fault(Err("arguments"))

ThrowOp == At({"throw"}) /\ Fault([Err("thrown") EXCEPT !.sub = <<Arg(1)>>])

\* The functions tagged @main that the module's own bindings hold.
FindMainEntrypoint(h) ==
  LET own == {n \in DOMAIN h.envs[1].vars : ~h.envs[1].vars[n].import}
      tagged(v) == CASE v.k = "fg" -> {m.fn : m \in {x \in ToSet(h.groups[v.n]) : x.fn.name = "main"}}
                     [] v.k = "fn" /\ v.name = "main" -> {v}
                     [] OTHER -> {}
  IN  UNION {tagged(h.envs[1].vars[n].v) : n \in own}
\* ExecuteProgram after the program has ended with v: a function tagged @main
\* is called without arguments, and its result is the program's.
invokeEntrypoint(v) ==
  \E mains \in {FindMainEntrypoint(heap)} :
    CASE mains = {} -> Fault(v)
      [] Cardinality(mains) > 1 -> Fault(Err("main"))
      [] OTHER -> Invoke(<<Frame("entry", <<Op("return")>>, 1)>>, CHOOSE fn \in mains : TRUE,
                         [positional |-> <<>>, named |-> NoArgs])

\* The end of a frame: the value on the stack, or the last one popped.
ReturnOp ==
  /\ At({"return"})
  /\ LET v == IF Depth = 0 THEN Fr.last ELSE Arg(1)
         rest == IF Depth = 0 THEN <<>> ELSE SubSeq(Fr.stack, 1, Depth - 1)
         f == Fr.fn.x[1]
         again == bindVMArgumentsInto(ParamsOf(Fr.fn), v.x[1].positional, v.x[1].named)
         bound == [i \in DOMAIN Fr.slots |-> Fr.slots[i][1]]
         m == Caller.stack[Len(Caller.stack)]
     IN  CASE Fr.kind = "main" -> invokeEntrypoint(v)
           [] Fr.kind = "entry" -> Fault(v)
           [] Fr.kind = "call" /\ v.k = "recur" ->
                IF again = FAILS THEN Fault(Err("arguments"))
                ELSE /\ SetTop([Fr EXCEPT !.kind = "bind", !.ip = 1, !.stack = rest, !.last = Nil,
                                          !.slots = again])
                     /\ UNCHANGED <<heap, out>>
           [] Fr.kind = "call" ->
                IF ReturnAccepted(f.ret, f.tps, f.anns, bound, v)
                THEN /\ SetCaller([Caller EXCEPT !.stack = Append(@, v)])
                     /\ UNCHANGED <<heap, out>>
                ELSE Fault(Err("return type"))
           [] Fr.kind = "default" ->
                /\ SetCaller([Caller EXCEPT !.slots[Fr.slots[1]] = <<v>>])
                /\ UNCHANGED <<heap, out>>
           [] Fr.kind = "field" ->
                /\ SetCaller([Caller EXCEPT !.stack[Len(Caller.stack)] = MapPut(m, Fr.fn, v)])
                /\ UNCHANGED <<heap, out>>

-----------------------------------------------------------------------------
\* ExecuteProgram: analysed, prepared, compiled and run.  The check of types
\* (module Checker) is an option that is off here.
Init ==
  \E p \in ToSet(Programs) :
  \E ready \in {PrepareProgram(p)} :
  \E code \in {Compile(ready.code)} :
    /\ prog = p
    /\ heap = ready.h
    /\ IF Analyze(p) /\ ready.err = "" /\ Compiles(code)
       THEN frames = <<Frame("main", code, 1)>> /\ out = Running
       ELSE frames = <<>> /\ out = Err("compile")

Step ==
  \/ PushConstant \/ GetGlobal \/ SetGlobal \/ BindMapAll \/ AssignGlobal
  \/ ApplyTags \/ Build \/ StructInitOp \/ StructCopyOp \/ IndexOp \/ Dup \/ BinaryOp \/ PrefixOp \/ ListOp
  \/ MatchTest \/ MapHasKey \/ SeqTail \/ MapRemainder
  \/ PushScope \/ PopScope \/ Pop \/ Jump \/ CallOpcode \/ BindDefault \/ Enter \/ HostCall
  \/ RecurOp \/ ThrowOp \/ ReturnOp
Next == Step /\ UNCHANGED prog

\* Go runs the interpreter loop to its end.
Spec == Init /\ [][Next]_vars /\ WF_vars(Next)
=============================================================================
