----------------------------- MODULE Semantics ------------------------------
(***************************************************************************)
(* What a program means, defined over its syntax tree and independent of   *)
(* bytecode, stacks and jumps: the reference the compiler and the machine  *)
(* are checked against.  Environments, overloads and the operators on      *)
(* values are those of the modules the machine uses.                       *)
(*                                                                         *)
(* Evaluation gives [c, v, h]: how it ended (val, return, recur, error),   *)
(* with which value and heap.                                              *)
(***************************************************************************)
EXTENDS Machine, Decimals

Done(c, v, h) == [c |-> c, v |-> v, h |-> h]
Value(v, h) == IF IsErr(v) THEN Done("error", v, h) ELSE Done("val", v, h)
Raise(kind, h) == Done("error", Err(kind), h)
Then(r, k(_, _)) == IF r.c = "val" THEN k(r.v, r.h) ELSE r
OfHeap(r, v) == IF r.err # "" THEN Raise(r.err, r.h) ELSE Done("val", v, r.h)

\* A slice keeps the positions from its start to before its end, a step
\* apart; negative bounds count from the end, a step below 1 is 1.
SliceOf(v, slice) ==
  LET s == Elements(v)
      bound(i, default) == CASE slice.sub[i] = Nil -> default
                             [] IntOf(slice.sub[i]) < 0 -> IntOf(slice.sub[i]) + Len(s)
                             [] OTHER -> IntOf(slice.sub[i])
      first == Max({0, bound(1, 0)})
      step == IF slice.sub[3] = Nil THEN 1 ELSE Max({1, IntOf(slice.sub[3])})
      kept == {p \in 0..(Len(s) - 1) : first <= p /\ p < bound(2, Len(s)) /\ (p - first) % step = 0}
      at == SetToSortSeq(kept, LAMBDA p, q : p < q)
  IN  Resequenced(v, [i \in DOMAIN at |-> s[at[i] + 1]])
Indexed(v, index, dot) ==
  IF v.k \in {"list", "str", "bytes"} /\ index.k = "slice" THEN SliceOf(v, index)
  ELSE evalIndex(v, index, dot)

-----------------------------------------------------------------------------
(* Patterns                                                                *)

\* Does v match, and which names does it bind: [ok, names], names in order.
Names(bs) == [ok |-> TRUE, names |-> bs]
Mismatch == [ok |-> FALSE, names |-> <<>>]
LitValue(e) == CASE e.k = "num" -> DecV(Literal(e)) [] e.k = "bool" -> BoolV(e.x[1])
                 [] e.k = "str" -> StrV(e.name) [] e.k = "sym" -> SymV(e.name)
                 [] e.k = "nil" -> Nil
KeyOf(key) == IF key.k = "str" THEN StrV(key.name) ELSE SymV(key.name)
NamedBy(name, v) == IF name = "" THEN <<>> ELSE <<[name |-> name, v |-> v]>>

RECURSIVE PatternOf(_, _, _, _)
PatternOf(p, v, h, env) ==
  LET sub(q, w) == PatternOf(q, w, h, env)
      all(rs, extra) == IF \A i \in DOMAIN rs : rs[i].ok
                        THEN Names(FlattenSeq([i \in DOMAIN rs |-> rs[i].names]) \o extra)
                        ELSE Mismatch
      fixed == Len(p.sub) - Cardinality(Spreads(p))
      keys == {KeyOf(p.x[i]) : i \in DOMAIN p.x}
      names == {p.x[i].name : i \in DOMAIN p.x}
      entries == {i \in 1..MapLen(v) : KeyAt(v, i).name \notin names}
      rest == LET s == SetToSortSeq(entries, <) IN
              MapOf(FlattenSeq([j \in DOMAIN s |-> <<KeyAt(v, s[j]), ValueAt(v, s[j])>>]))
      every == [i \in 1..MapLen(v) |-> [name |-> KeyAt(v, i).name, v |-> ValueAt(v, i)]]
  IN  CASE p.k = "wild" -> Names(<<>>)
        [] p.k = "id" -> Names(NamedBy(p.name, v))
        [] p.k = "bind" -> all(<<Names(NamedBy(p.name, v)), sub(p.sub[1], v)>>, <<>>)
        [] p.k = "pin" -> IF Has(h, env, p.name) /\ objectsEqual(v, Get(h, env, p.name))
                          THEN Names(<<>>) ELSE Mismatch
        [] p.k = "lit" -> IF objectsEqual(v, LitValue(p.x[1])) THEN Names(<<>>) ELSE Mismatch
        [] p.k = "multi" -> IF \E i \in DOMAIN p.sub : sub(p.sub[i], v).ok THEN Names(<<>>)
                            ELSE Mismatch
        [] p.k = "list" ->
             (CASE ~IsSeq(v) \/ Len(v.sub) < fixed -> Mismatch
                [] Spreads(p) = {} /\ Len(v.sub) # fixed -> Mismatch
                [] OTHER -> all([i \in 1..fixed |-> sub(p.sub[i], v.sub[i])],
                                IF Spreads(p) = {} THEN <<>>
                                ELSE NamedBy(p.sub[fixed + 1].name,
                                             [v EXCEPT !.sub = SubSeq(@, fixed + 1, Len(@))])))
        [] p.k = "map" ->
             (CASE v.k # "map" -> Mismatch
                [] \E key \in keys : ~HasKey(v, key) -> Mismatch
                [] (p.ann = <<"exact">> \/ (p.ann = <<>> /\ p.sub = <<>>)) /\ MapLen(v) # Len(p.sub)
                     -> Mismatch
                [] OTHER -> LET rs == [i \in DOMAIN p.sub |-> sub(p.sub[i], Lookup(v, KeyOf(p.x[i])))]
                                more == NamedBy(p.name, rest)
                            IN  IF p.ann = <<"all">> THEN all(<<Names(every)>> \o rs, more)
                                ELSE all(rs, more))
        [] p.k = "struct" ->
             IF v.k # "struct" \/ v.name # p.name THEN Mismatch
             ELSE all([i \in DOMAIN p.sub |-> sub(p.sub[i], FieldOf(v, p.x[i]))], <<>>)

\* A declaration takes its value apart without testing it; what is missing
\* is nil.  Gives the names, or an error.
RECURSIVE Parts(_, _)
Parts(p, v) ==
  LET join(vs) == LET rs == [i \in DOMAIN p.sub |->
                               CASE p.sub[i].k = "wild" -> <<>>
                                 [] p.sub[i].k = "spread" ->
                                      NamedBy(p.sub[i].name,
                                              [v EXCEPT !.sub = SubSeq(@, i, Len(@))])
                                 [] OTHER -> Parts(p.sub[i], vs[i])]
                  IN  FlattenSeq(rs)
      every == [i \in 1..MapLen(v) |-> [name |-> KeyAt(v, i).name, v |-> ValueAt(v, i)]]
  IN  CASE p.k = "id" -> NamedBy(p.name, v)
        [] p.k = "bind" -> NamedBy(p.name, v) \o Parts(p.sub[1], v)
        [] p.k = "list" -> join([i \in DOMAIN p.sub |-> evalIndex(v, NumV(i - 1), FALSE)])
        [] p.k = "map" /\ p.ann # <<>> /\ v.k # "map" -> NamedBy("none", Err("type"))
        [] p.k = "map" -> (IF p.ann = <<"all">> THEN every ELSE <<>>)
                            \o join([i \in DOMAIN p.sub |-> evalIndex(v, KeyOf(p.x[i]), FALSE)])
        [] p.k = "struct" -> join([i \in DOMAIN p.sub |-> evalIndex(v, SymV(p.x[i]), TRUE)])

\* The names become variables of env.
BindNames(bs, h, env, mut) ==
  FoldLeft(LAMBDA r, b : IF r.err # "" THEN r
                         ELSE IF IsErr(b.v) THEN Bad(r.h, b.v.name)
                         ELSE LET s == setGlobal(r.h, env, b.name, b.v, mut) IN
                              [h |-> s.h, err |-> s.err],
           Ok(h), bs)

-----------------------------------------------------------------------------
(* Expressions                                                             *)

RECURSIVE Eval(_, _, _)

\* Operands from left to right: v is the sequence of their values.
EvalAll(es, h, env) ==
  FoldLeft(LAMBDA r, e : IF r.c # "val" THEN r
                         ELSE LET s == Eval(e, r.h, env) IN
                              IF s.c = "val" THEN Done("val", Append(r.v, s.v), s.h) ELSE s,
           Done("val", <<>>, h), es)

\* Statements in a scope of their own; the value of the last one counts.
EvalSeq(stmts, h, env) ==
  FoldLeft(LAMBDA r, e : IF r.c # "val" THEN r ELSE Eval(e, r.h, env), Done("val", Nil, h), stmts)
EvalBlock(b, h, env) == LET h1 == Enclosed(h, env) IN EvalSeq(b.sub, h1, Newest(h1))

\* The first case whose pattern and guard hold.
RECURSIVE EvalCases(_, _, _, _)
EvalCases(cases, v, h, env) ==
  IF cases = <<>> THEN Done("val", Nil, h)
  ELSE LET c == Head(cases)
           m == PatternOf(c.pat, v, h, env)
           h1 == Enclosed(h, env)
           b == BindNames(m.names, h1, Newest(h1), FALSE)
           g == IF c.guard = <<>> THEN Done("val", BoolV(TRUE), b.h)
                ELSE Eval(c.guard[1], b.h, Newest(h1))
           next(h2) == EvalCases(Tail(cases), v, h2, env)
       IN  CASE ~m.ok -> next(h)
             [] b.err # "" -> Raise(b.err, b.h)
             [] g.c # "val" -> g
             [] ~isTruthy(g.v) -> next(g.h)
             [] OTHER -> Eval(c.body, g.h, Newest(h1))

FnValue(e, env) ==
  LET params == [i \in DOMAIN e.x |-> [name |-> e.x[i].name, var |-> e.x[i].var, def |-> e.x[i].def,
                                       tag |-> inferredTagsFromDeclaredType(e.x[i].ann)]]
      anns == [i \in DOMAIN e.x |-> e.x[i].ann]
  IN  [FnOf(anns, e.ann, {e.name} \ {""}, Variadic(params)) EXCEPT
         !.env = env,
         !.x = <<[params |-> params, tps |-> {e.name} \ {""}, anns |-> anns, ret |-> e.ann,
                  body |-> e.sub[1]]>>]

\* Parameters that got no value take their defaults, from left to right.
WithDefaults(fn, slots, h) ==
  LET params == ParamsOf(fn)
      outer == IF fn.k = "foreign" THEN 1 ELSE fn.env
      fill(r, i) ==
        CASE r.c # "val" \/ r.v[i] # <<>> -> r
          [] params[i].def = <<>> -> Raise("arguments", r.h)
          [] OTHER -> LET h1 == Enclosed(r.h, outer)
                          d == Eval(params[i].def[1], h1, Newest(h1))
                      IN  IF d.c = "val" THEN Done("val", [r.v EXCEPT ![i] = <<d.v>>], d.h) ELSE d
  IN  FoldLeft(fill, Done("val", slots, h), [i \in DOMAIN slots |-> i])

ApplyHost(fn, a, h) ==
  LET slots == bindArguments(fn, a.positional, a.named)
      d == WithDefaults(fn, slots, h)
  IN  CASE slots = FAILS -> Raise("arguments", h)
        [] d.c # "val" -> d
        [] OTHER -> Value(Host(fn.name, Spreading(fn, [i \in DOMAIN d.v |-> d.v[i][1]])), d.h)

\* Every round of recur is a call of its own.
RECURSIVE Apply(_, _, _)
Apply(fn, a, h) ==
  LET f == fn.x[1]
      slots == bindVMArgumentsInto(f.params, a.positional, a.named)
      d == WithDefaults(fn, slots, h)
      h1 == Enclosed(d.h, fn.env)
      env == Newest(h1)
      vals == [i \in DOMAIN d.v |-> d.v[i][1]]
      h2 == FoldLeft(LAMBDA hh, i : SetVar(hh, env, f.params[i].name, Binding(vals[i], TRUE, FALSE)),
                     h1, [i \in DOMAIN f.params |-> i])
      r == EvalBlock(f.body, h2, env)
  IN  CASE slots = FAILS -> Raise("arguments", h)
        [] d.c # "val" -> d
        [] r.c = "error" -> r
        [] r.c = "recur" -> Apply(fn, r.v.x[1], r.h)
        [] OTHER -> IF ReturnAccepted(f.ret, f.tps, f.anns, vals, r.v) THEN Done("val", r.v, r.h)
                    ELSE Raise("return type", r.h)

EvalCall(callee, plan, args, h) ==
  LET a == popCallArguments(plan, args)
      choice == Resolve(h.groups[callee.n], a.positional, a.named)
      call(fn) == IF fn.k = "foreign" THEN ApplyHost(fn, a, h) ELSE Apply(fn, a, h)
  IN  CASE ~a.ok -> Raise("arguments", h)
        [] callee.k \in {"fn", "foreign"} -> call(callee)
        [] callee.k = "fg" /\ choice.found -> call(choice.fn)
        [] OTHER -> Raise("not callable", h)

\* Fields that are left out have their defaults, or nil.
EvalInit(schema, fields, values, h) ==
  LET m == MapOf(FlattenSeq([i \in DOMAIN fields |-> <<SymV(fields[i]), values[i]>>]))
      fill(r, i) ==
        CASE r.c # "val" \/ schema.x[i].name \in ToSet(fields) -> r
          [] schema.x[i].def = <<>> -> r
          [] OTHER -> LET h1 == Enclosed(r.h, schema.env)
                          d == Eval(schema.x[i].def[1], h1, Newest(h1))
                      IN  IF d.c = "val" THEN Done("val", MapPut(r.v, SymV(schema.x[i].name), d.v), d.h)
                          ELSE d
      full == FoldLeft(fill, Done("val", m, h), [i \in DOMAIN schema.x |-> i])
  IN  CASE schema.k # "schema" -> Raise("type", h)
        [] ~structValuesFromMap(schema.x, m) -> Raise("field", h)
        [] full.c # "val" -> full
        [] OTHER -> Value(Filled(schema, full.v, [i \in DOMAIN schema.x |-> Nil]), full.h)

EvalInfix(e, h, env) ==
  LET l == Eval(e.sub[1], h, env)
      both == EvalAll(e.sub, h, env)
  IN  CASE e.name = "=" ->
             Then(Eval(e.sub[2], h, env),
                  LAMBDA v, h1 : OfHeap(assign(h1, env, e.sub[1].name, v), v))
        [] e.name = "&&" -> Then(l, LAMBDA v, h1 : IF isTruthy(v) THEN Eval(e.sub[2], h1, env)
                                                   ELSE Value(BoolV(FALSE), h1))
        [] e.name = "||" -> Then(l, LAMBDA v, h1 : IF isTruthy(v) THEN Value(BoolV(TRUE), h1)
                                                   ELSE Eval(e.sub[2], h1, env))
        [] e.name = ":+" -> Then(both, LAMBDA vs, h1 : Value(listAppend(vs[1], vs[2]), h1))
        [] e.name = "+:" -> Then(both, LAMBDA vs, h1 : Value(listPrepend(vs[1], vs[2]), h1))
        [] OTHER -> Then(both, LAMBDA vs, h1 : Value(evalBinary(e.name, vs[1], vs[2]), h1))

Eval(e, h, env) ==
  LET args == IF e.k = "call" THEN Tail(e.sub) ELSE e.sub
      exprs == [i \in DOMAIN args |-> IF args[i].k \in {"named", "spread"} THEN args[i].sub[1]
                                      ELSE args[i]]
      plan == compileArguments(args).plan
      one(k(_, _)) == Then(Eval(e.sub[1], h, env), k)
      many(k(_, _)) == Then(EvalAll(e.sub, h, env), k)
      tagged(v) == IF e.name = "" THEN v ELSE TagWith(v, e.name)
      declare(mut) == one(LAMBDA v, h1 : OfHeap(BindNames(Parts(e.x[1], tagged(v)), h1, env, mut),
                            IF e.x[1].k = "id"
                            THEN setGlobal(h1, env, e.x[1].name, tagged(v), mut).v ELSE tagged(v)))
  IN  CASE e.k \in {"num", "bool", "str", "sym", "nil"} -> Value(LitValue(e), h)
        [] e.k = "none" -> Value(Nil, h)
        [] e.k = "bytes" -> Value(BytesV(e.x), h)
        [] e.k = "id" -> IF Has(h, env, e.name) THEN Value(Get(h, env, e.name), h)
                         ELSE Raise("undefined", h)
        [] e.k = "val" -> declare(FALSE)
        [] e.k = "var" -> declare(TRUE)
        [] e.k = "prefix" -> one(LAMBDA v, h1 : Value(evalPrefix(e.name, v), h1))
        [] e.k = "infix" -> EvalInfix(e, h, env)
        [] e.k = "block" -> EvalBlock(e, h, env)
        [] e.k = "if" -> one(LAMBDA v, h1 : CASE isTruthy(v) -> EvalBlock(e.sub[2], h1, env)
                                              [] Len(e.sub) = 3 -> EvalBlock(e.sub[3], h1, env)
                                              [] OTHER -> Value(Nil, h1))
        [] e.k = "match" -> one(LAMBDA v, h1 : EvalCases(e.x, v, h1, env))
        [] e.k = "list" -> many(LAMBDA vs, h1 : Value(ListOf(vs), h1))
        [] e.k = "map" -> many(LAMBDA vs, h1 : Value(mapFromPairs(vs), h1))
        [] e.k = "index" -> many(LAMBDA vs, h1 : Value(Indexed(vs[1], vs[2], e.name = "dot"), h1))
        [] e.k = "slice" -> many(LAMBDA vs, h1 : Value(SliceV(vs[1], vs[2], vs[3]), h1))
        [] e.k = "schema" -> Value([SchemaV("", e.x) EXCEPT !.env = env], h)
        [] e.k = "init" -> many(LAMBDA vs, h1 : EvalInit(vs[1], e.x, Tail(vs), h1))
        [] e.k = "copy" -> many(LAMBDA vs, h1 : Value(structCopy(vs[1], vs[2]), h1))
        [] e.k = "fn" -> Value(FnValue(e, env), h)
        [] e.k = "typeapp" -> Eval(e.sub[1], h, env)
        [] e.k = "call" -> one(LAMBDA f, h1 : Then(EvalAll(exprs, h1, env),
                                 LAMBDA vs, h2 : EvalCall(f, plan, vs, h2)))
        [] e.k = "recur" -> Then(EvalAll(exprs, h, env), LAMBDA vs, h1 :
                              LET a == popCallArguments(plan, vs) IN
                              IF a.ok THEN Done("recur", [Val("recur") EXCEPT !.x = <<a>>], h1)
                              ELSE Raise("arguments", h1))
        [] e.k = "return" -> LET r == Eval(e.sub[1], h, env) IN
                             IF r.c = "val" THEN [r EXCEPT !.c = "return"] ELSE r
        [] e.k = "throw" -> one(LAMBDA v, h1 :
                              Done("error", [Err("thrown") EXCEPT !.sub = <<v>>], h1))

\* The value of the last statement, or of the function tagged @main.
Meaning(stmts) ==
  LET ready == PrepareProgram(stmts)
      r == EvalSeq(ready.code, ready.h, 1)
      mains == FindMainEntrypoint(r.h)
  IN  CASE r.c = "error" \/ mains = {} -> r.v
        [] Cardinality(mains) > 1 -> Err("main")
        [] OTHER -> Apply(CHOOSE fn \in mains : TRUE, [positional |-> <<>>, named |-> NoArgs], r.h).v

-----------------------------------------------------------------------------
(* Properties                                                              *)

\* A function is seen by its declared type: code and tree are not compared.
RECURSIVE Seen(_)
Seen(v) ==
  CASE v.k \in {"fn", "fg"} -> [v EXCEPT !.x = <<>>, !.env = 0, !.n = 0]
    [] v.k \in {"list", "map"} -> [v EXCEPT !.sub = [i \in DOMAIN @ |-> Seen(@[i])]]
    [] OTHER -> v

\* Compiled and run, a program comes to its end with the value or the error
\* its syntax tree means: the lowering of blocks, matches, short circuits,
\* calls and recur to jumps and stack operations changes nothing (compiler.go,
\* executor.go).
ResultAgrees ==
  <>[](out # Running /\ (out # Err("compile") => Seen(out) = Seen(Meaning(prog))))

\* What one instruction needs on the stack and leaves there.
Needs(ins) ==
  CASE ins.op \in {"constant", "nil", "true", "false", "get", "pushScope", "jump", "select"} -> 0
    [] ins.op \in {"array", "recur"} -> ins.n
    [] ins.op = "hash" -> 2 * ins.n
    [] ins.op = "call" -> ins.n + 1
    [] ins.op \in {"structInit", "structCopy", "index", "indexDot", "mapHasKey", "binary",
                   "listAppend", "listPrepend"} -> 2
    [] ins.op = "slice" -> 3
    [] OTHER -> 1
Leaves(ins) ==
  CASE ins.op \in {"pop", "jump", "jumpIfFalse", "pushScope", "defer", "throw", "return"} -> 0
    [] ins.op = "dup" -> 2
    [] OTHER -> 1
Ends(ins) == ins.op \in {"return", "throw"}

\* The ways control can reach instructions: [ip, depth, open scopes].
After(code, a) ==
  LET ins == code[a.ip]
      ips == CASE ins.op = "jump" -> {a.ip + ins.n}
               [] ins.op = "jumpIfFalse" -> {a.ip + 1, a.ip + ins.n}
               [] Ends(ins) -> {}
               [] OTHER -> {a.ip + 1}
      opened == CASE ins.op = "pushScope" -> 1 [] ins.op = "popScope" -> -1 [] OTHER -> 0
  IN  {[ip |-> i, d |-> a.d - Needs(ins) + Leaves(ins), s |-> a.s + opened] : i \in ips}
RECURSIVE Explore(_, _, _)
Explore(code, front, seen) ==
  IF front = {} \/ \E a \in front : a.ip > Len(code) THEN seen \cup front
  ELSE Explore(code, UNION {After(code, a) : a \in front} \ seen, seen \cup front)
Reached(code) == Explore(code, {[ip |-> 1, d |-> 0, s |-> 0]}, {})

\* Every path to an instruction arrives with the same number of operands and
\* open scopes, there are always enough operands, and control does not run
\* off the end: the code the compiler emits for any nesting of match cases,
\* guards, blocks and patterns (compiler.go).
Disciplined(code) ==
  LET r == Reached(code) IN
  /\ Cardinality({a.ip : a \in r}) = Cardinality(r)
  /\ \A a \in r : /\ a.ip <= Len(code)
                  /\ a.s >= 0
                  /\ a.d >= Needs(code[a.ip]) \/ code[a.ip].op = "return"
                  /\ a.ip = Len(code) => a.d <= 1 /\ a.s = 0
Start == frames # <<>> /\ Len(frames) = 1 /\ Fr.ip = 1
StackDisciplined == Start => \A c \in Chunks(Fr.code) : Disciplined(c)

\* A function begins in the environment of its parameters, the first time
\* and in every round of recur: the scopes of the round before are closed
\* when its recur is taken (executor.go, invokeVMFunction).
BeginsAtHome == (frames # <<>> /\ Fr.kind = "call" /\ Fr.ip = 1) => Fr.env = Fr.home

\* A call about to be made: its arguments, and the members it may choose from.
Calling == At({"call"})
CallArgs == popCallArguments(Cur.plan, Args(Cur.n))
Callee == Arg(Cur.n + 1)
Members == CASE Callee.k = "fg" -> heap.groups[Callee.n]
             [] Callee.k \in {"fn", "foreign"} -> <<[fn |-> Callee]>>
             [] OTHER -> <<>>

\* What a walk through ms in that order chooses.
ChosenIn(ms) ==
  LET key(best) == [found |-> best.found, key |-> best.key]
  IN  key(Resolve(ms, CallArgs.positional, CallArgs.named))
\* A group is a Go map, and is walked in any order: whatever the order, the
\* same overload is chosen (executor.go, selectVMFunctionFromGroup; object.go,
\* DispatchToFunction).
ChoiceOrderFree ==
  (Calling /\ Callee.k = "fg" /\ CallArgs.ok) =>
    \A p \in Permutations(DOMAIN Members) :
      ChosenIn([i \in DOMAIN Members |-> Members[p[i]]]) = ChosenIn(Members)

\* When a function takes a call's arguments, each of them arrives exactly
\* once: the named ones where their names say, and the others, in order and
\* with those of the variadic parameter at the end, in the rest; when it does
\* not, there is an argument without a place (executor.go,
\* bindVMArgumentsInto).
Arrive(params, a) ==
  LET slots == bindVMArgumentsInto(params, a.positional, a.named)
      named(i) == params[i].name \in DOMAIN a.named
      spread(i) == CASE named(i) \/ slots[i] = <<>> -> <<>>
                     [] params[i].var -> slots[i][1].sub
                     [] OTHER -> slots[i]
      places == Cardinality({i \in DOMAIN params : ~named(i)})
  IN  IF slots # FAILS
      THEN /\ FlattenSeq([i \in DOMAIN params |-> spread(i)]) = a.positional
           /\ \A i \in DOMAIN params : named(i) => slots[i] = <<a.named[params[i].name]>>
      ELSE \/ \E n \in DOMAIN a.named : \A i \in DOMAIN params :
                params[i].name # n \/ (params[i].var /\ a.named[n].k # "list")
           \/ Len(a.positional) > places
ArgumentsArrive ==
  (Calling /\ CallArgs.ok) =>
    \A i \in DOMAIN Members : ~IsBare(Members[i].fn) => Arrive(ParamsOf(Members[i].fn), CallArgs)

\* v is what the operator promises of x and y.
Right(op, x, y, v) ==
  CASE op \in {"+", "-", "*", "/", "%"} -> Close(op, x, y, DecOf(v))
    [] op \in {"<", ">=", "=="} -> InWord(x, y) =>
         v = BoolV(CASE op = "<" -> Order(x, y) < 0
                     [] op = ">=" -> Order(x, y) >= 0
                     [] op = "==" -> Order(x, y) = 0)
    [] OTHER -> TRUE

\* Arithmetic on numbers is decimal arithmetic: a result that fits the
\* coefficient is exact, one that does not is the exact one with digits
\* dropped at its end, a quotient is rounded at its last digit, and numbers
\* compare by value whatever their exponents (dec64.go, normalizePair,
\* normalizeTowardZero, Mul, Div, Cmp).  Left aside is what the code gets
\* wrong: divisors below zero, negative results that lose digits or keep a
\* positive exponent, and operands whose digits do not align in one word.
ArithmeticIsClose ==
  (At({"binary"}) /\ Arg(1).k = "num" /\ Arg(2).k = "num"
     /\ ~IsNaN(DecOf(Arg(1))) /\ ~IsNaN(DecOf(Arg(2)))) =>
    Right(Cur.s, DecOf(Arg(2)), DecOf(Arg(1)), evalBinary(Cur.s, Arg(2), Arg(1)))
=============================================================================
