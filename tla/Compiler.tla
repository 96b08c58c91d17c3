------------------------------ MODULE Compiler ------------------------------
(***************************************************************************)
(* The compiler from syntax trees to bytecode (internal/vm/compiler.go).   *)
(*                                                                         *)
(* Code is a sequence of instructions [op, n, s, c, plan]: n and s are the *)
(* integer and the string operand, c the constant, plan the call plan or   *)
(* the cases of a select.  Jumps only go forward and are relative here:    *)
(* n = 1 is the next instruction.  A jump whose target is not known yet    *)
(* has s = "fail" or "end" until it is patched.  A function constant       *)
(* carries its code in x.  What the compiler refuses compiles to an        *)
(* instruction "refused".  The pairs of a map literal are in the order in  *)
(* which Go happens to visit them.                                         *)
(***************************************************************************)
EXTENDS Environments, Ast

Op(op) == [op |-> op, n |-> 0, s |-> "", c |-> Nil, plan |-> <<>>]
OpN(op, n) == [Op(op) EXCEPT !.n = n]
OpS(op, s) == [Op(op) EXCEPT !.s = s]
Const(v) == [Op("constant") EXCEPT !.c = v]
Refused == <<Op("refused")>>
Fails == OpS("jumpIfFalse", "fail")

\* Jumps still marked s go to the end of the code.
patchJump(code, s) ==
  [i \in DOMAIN code |-> IF code[i].op \in {"jump", "jumpIfFalse"} /\ code[i].s = s
                         THEN [code[i] EXCEPT !.n = Len(code) + 1 - i, !.s = ""] ELSE code[i]]

inferredTagsFromDeclaredType(ann) ==
  IF ann # <<>> /\ Bracketed(ann) THEN "list" ELSE structFieldTagsFromType(ann)

BinaryOps == {"+", "-", "*", "/", "%", "==", "!=", ">", ">=", "<", "<=", "&", "|", "^", "<<", ">>"}

\* A list of one element that is no spread.
singleElementListLiteral(e) == e.k = "list" /\ Len(e.sub) = 1 /\ e.sub[1].k # "spread"

-----------------------------------------------------------------------------
(* Patterns                                                                *)

\* Positions of the spread patterns of a list pattern; only one at the end.
Spreads(p) == {i \in DOMAIN p.sub : p.sub[i].k = "spread"}
SpreadOk(p) == Spreads(p) \subseteq {Len(p.sub)}

compileMapPatternKey(key) == IF key.k = "str" THEN Const(StrV(key.name)) ELSE Const(SymV(key.name))
Literal(e) == Normalize(New(e.x[1], e.x[2]))      \* FromString
emitNumberConstant(n) == Const(NumV(n))

\* val and var: names are bound, nothing is tested; the value stays.  set is
\* "setConst" or "setVar".
RECURSIVE compileBindPattern(_, _)
compileBindPattern(p, set) ==
  LET bound(fetch, q) == <<Op("dup")>> \o fetch \o compileBindPattern(q, set) \o <<Op("pop")>>
      entry(i) == bound(<<compileMapPatternKey(p.x[i]), Op("index")>>, p.sub[i])
      element(i) ==
        CASE p.sub[i].k = "wild" -> <<>>
          [] p.sub[i].k = "spread" ->
               IF p.sub[i].name = "" THEN <<>>
               ELSE bound(<<emitNumberConstant(i - 1), Op("nil"), Op("nil"), Op("slice")>>,
                          Id(p.sub[i].name))
          [] OTHER -> bound(<<emitNumberConstant(i - 1), Op("index")>>, p.sub[i])
      field(i) == bound(<<Const(SymV(p.x[i])), Op("indexDot")>>, p.sub[i])
      each(code(_)) == FlattenSeq([i \in DOMAIN p.sub |-> code(i)])
  IN  CASE p.k = "id" -> <<OpS(set, p.name)>>
        [] p.k = "bind" -> <<Op("dup"), OpS(set, p.name), Op("pop")>>
                             \o compileBindPattern(p.sub[1], set)
        [] p.k = "map" ->
             (CASE p.ann = <<"exact">> \/ p.name # "" -> Refused
                [] OTHER -> (IF p.ann = <<"all">> THEN <<OpS("bindMapAll", set)>> ELSE <<>>)
                              \o each(entry))
        [] p.k = "list" -> IF SpreadOk(p) THEN each(element) ELSE Refused
        [] p.k = "struct" -> each(field)
        [] OTHER -> Refused
BindConst(name) == <<OpS("setConst", name), Op("pop")>>

\* The length test of a map pattern: {} is the empty map and nothing else.
MapLenTest(p) ==
  CASE p.ann = <<"exact">> -> OpN("mapLenEq", Len(p.sub))
    [] p.ann # <<>> \/ p.sub # <<>> -> OpN("mapLenGte", Len(p.sub))
    [] OTHER -> OpN("mapLenEq", 0)
\* Mutant: the spread is counted among the elements.
CountsSpread(p) == IF Spreads(p) = {} THEN OpN("seqLenEq", Len(p.sub)) ELSE OpN("seqLenGte", Len(p.sub))
SeqLenTest(p) == IF Spreads(p) = {} THEN OpN("seqLenEq", Len(p.sub))
                 ELSE OpN("seqLenGte", Len(p.sub) - 1)

-----------------------------------------------------------------------------
(* Expressions                                                             *)

RECURSIVE compileExpression(_)

\* A pattern inside a pattern, applied to the value on the stack, which it
\* consumes; kinds are the pattern kinds the place allows.
RECURSIVE compileElement(_, _)
RECURSIVE compileListElements(_)
RECURSIVE compileMapEntries(_, _)

\* compileListPatternFromValue: a failure takes the list off before it is
\* passed on to the enclosing pattern.
compileListPatternFromValue(p) ==
  IF SpreadOk(p)
  THEN patchJump(<<Op("dup"), SeqLenTest(p), Fails>> \o compileListElements(p)
                   \o <<Op("pop"), OpN("jump", 3)>>, "fail")
         \o <<Op("pop"), OpS("jump", "fail")>>
  ELSE Refused
\* compileMapPatternFromValue: a failure leaves the map where it is.
compileMapPatternFromValue(p) ==
  <<Op("dup"), MapLenTest(p), Fails>> \o compileMapEntries(p, {"id", "pin", "lit", "map", "list"})
    \o <<Op("pop")>>

compileElement(p, kinds) ==
  CASE p.k \notin kinds -> Refused
    [] p.k = "id" -> BindConst(p.name)
    [] p.k = "pin" -> <<OpS("get", p.name), OpS("binary", "=="), Fails>>
    [] p.k = "lit" -> compileExpression(p.x[1]) \o <<OpS("binary", "=="), Fails>>
    [] p.k = "list" -> compileListPatternFromValue(p)
    [] p.k = "map" -> compileMapPatternFromValue(p)
compileListElements(p) ==
  FlattenSeq([i \in DOMAIN p.sub |->
    CASE p.sub[i].k = "wild" \/ (p.sub[i].k = "spread" /\ p.sub[i].name = "") -> <<>>
      [] p.sub[i].k = "spread" /\ p.sub[i].name # "" ->
           <<Op("dup"), OpN("seqTail", i - 1)>> \o BindConst(p.sub[i].name)
      [] OTHER -> <<Op("dup"), emitNumberConstant(i - 1), Op("index")>>
                    \o compileElement(p.sub[i], {"id", "map", "pin", "lit", "list"})])
compileMapEntries(p, kinds) ==
  (IF p.ann = <<"all">> THEN <<OpS("bindMapAll", "setConst")>> ELSE <<>>)
    \o FlattenSeq([i \in DOMAIN p.sub |->
         <<Op("dup"), compileMapPatternKey(p.x[i]), Op("mapHasKey"), Fails,
           Op("dup"), compileMapPatternKey(p.x[i]), Op("index")>> \o compileElement(p.sub[i], kinds)])

\* Patterns that are compared with the value.
compilePatternValue(p) ==
  CASE p.k = "lit" -> compileExpression(p.x[1])
    [] p.k = "pin" -> <<OpS("get", p.name)>>
    [] OTHER -> Refused

\* The tests of a case: the value stays on the stack, a failure jumps.
CaseTests(p) ==
  LET remainder == [OpS("mapRemainder", p.name) EXCEPT
                      !.plan = [i \in DOMAIN p.x |-> p.x[i].name]]
      equal(q) == <<Op("dup")>> \o compilePatternValue(q) \o <<OpS("binary", "==")>>
      option(q) == equal(q) \o <<OpN("jumpIfFalse", 3), Op("true"), OpS("jump", "matched")>>
      options == FlattenSeq([i \in DOMAIN p.sub |-> option(p.sub[i])])
  IN  CASE p.k = "wild" -> <<>>
        [] p.k = "id" -> <<Op("dup")>> \o BindConst(p.name)
        [] p.k = "list" -> IF SpreadOk(p)
                           THEN <<Op("dup"), SeqLenTest(p), Fails>> \o compileListElements(p)
                           ELSE Refused
        [] p.k = "map" ->
             <<Op("dup"), MapLenTest(p), Fails>> \o compileMapEntries(p, {"id", "pin", "lit"})
               \o (IF p.name = "" THEN <<>> ELSE <<Op("dup"), remainder, Op("pop")>>)
        [] p.k = "struct" ->
             <<Op("dup"), OpS("structSchema?", p.name), Fails>>
               \o FlattenSeq([i \in DOMAIN p.sub |->
                    <<Op("dup"), Const(SymV(p.x[i])), Op("index")>>
                      \o compileElement(p.sub[i], {"id", "pin", "lit"})])
        [] p.k = "multi" -> patchJump(options \o <<Op("false")>>, "matched") \o <<Fails>>
        [] OTHER -> equal(p) \o <<Fails>>

Scoped(p) == p.k \in {"id", "list", "map", "struct"}
Guard(cs) == IF cs.guard = <<>> THEN <<>> ELSE compileExpression(cs.guard[1]) \o <<Fails>>
\* Mutant: a case that fails leaves its scope open.
LeavesScopeOpen(cs) ==
  LET p == IF cs.pat.k = "bind" THEN cs.pat.sub[1] ELSE cs.pat
      op(o) == IF Scoped(p) THEN <<Op(o)>> ELSE <<>>
  IN  patchJump(op("pushScope") \o CaseTests(p) \o Guard(cs) \o <<Op("pop")>>
                  \o compileExpression(cs.body) \o op("popScope") \o <<OpS("jump", "end")>>, "fail")
\* Patterns that bind names get a scope; x @ p binds x only in such a scope.
compileCase(cs) ==
  LET whole == IF cs.pat.k = "bind" THEN cs.pat.name ELSE ""
      p == IF whole # "" THEN cs.pat.sub[1] ELSE cs.pat
      op(o) == IF Scoped(p) THEN <<Op(o)>> ELSE <<>>
      bindWhole == IF Scoped(p) /\ whole # "" THEN <<Op("dup")>> \o BindConst(whole) ELSE <<>>
  IN  patchJump(op("pushScope") \o bindWhole \o CaseTests(p) \o Guard(cs) \o <<Op("pop")>>
                  \o compileExpression(cs.body) \o op("popScope") \o <<OpS("jump", "end")>>, "fail")
        \o op("popScope")

compileMatchExpression(e) ==
  IF e.sub = <<>> \/ e.x = <<>> THEN Refused
  ELSE compileExpression(e.sub[1])
         \o patchJump(FlattenSeq([i \in DOMAIN e.x |-> compileCase(e.x[i])])
                        \o <<Op("pop"), Op("nil")>>, "end")

-----------------------------------------------------------------------------
(* Blocks, functions and calls                                             *)

compileDeferStatement(e) ==
  LET body == e.sub[1] IN
  <<Const([Val("fn") EXCEPT !.x = <<[params |-> <<>>, tps |-> {}, anns |-> <<>>, ret |-> <<>>,
             code |-> compileExpression(body) \o <<Op("return")>>]>>]),
    [OpS("defer", e.name) EXCEPT !.plan = e.x], Op("nil")>>

Statements == {"return", "throw", "defer"}
compileStatement(e) ==
  CASE e.k = "defer" -> compileDeferStatement(e)
    [] OTHER -> compileExpression(IF e.k \in Statements THEN e.sub[1] ELSE e)
                  \o <<Op(IF e.k \in Statements THEN e.k ELSE "pop")>>

\* The value of the last statement is the value of the block.
Limit(b) == CASE b.name # "nursery" -> 0
              [] b.x = <<>> -> -1
              [] OTHER -> ToInt64(Literal(b.x[1]))
InBlock(b, i) ==
  (IF b.sub[i].k \in Statements THEN compileStatement(b.sub[i]) ELSE compileExpression(b.sub[i]))
    \o (IF i < Len(b.sub) THEN <<Op("pop")>> ELSE <<>>)
BlockOf(b, limit) ==
  IF b.x # <<>> /\ (b.x[1].k # "num" \/ limit < 1) THEN Refused
  ELSE <<OpN("pushScope", limit)>>
         \o (IF b.sub = <<>> THEN <<Op("nil")>> ELSE FlattenSeq([i \in DOMAIN b.sub |-> InBlock(b, i)]))
         \o <<Op("popScope")>>
compileBlock(b) == BlockOf(b, Limit(b))

\* The scope of a function's block is marked.
FnRoot(body) == [body EXCEPT ![1].s = "fnroot", ![Len(body)].s = "fnroot"]
\* A function: its defaults are chunks of their own.
compileFunctionLiteral(e) ==
  LET chunk(d) == compileExpression(d) \o <<Op("return")>>
      params == [i \in DOMAIN e.x |->
                   [name |-> e.x[i].name, var |-> e.x[i].var,
                    def |-> IF e.x[i].def = <<>> THEN <<>> ELSE <<chunk(e.x[i].def[1])>>,
                    tag |-> inferredTagsFromDeclaredType(e.x[i].ann)]]
      anns == [i \in DOMAIN e.x |-> e.x[i].ann]
      tps == {e.name} \ {""}
  IN  [FnOf(anns, e.ann, tps, Variadic(params)) EXCEPT
         !.x = <<[params |-> params, tps |-> tps, anns |-> anns, ret |-> e.ann,
                  code |-> FnRoot(compileBlock(e.sub[1])) \o <<Op("return")>>]>>]
Thunk(params, e) ==
  [Val("fn") EXCEPT !.x = <<[params |-> params, tps |-> {}, anns |-> <<>>, ret |-> <<>>,
                             code |-> compileExpression(e) \o <<Op("return")>>]>>]

\* The operands and the plan of a call; positional arguments come first.
compileArguments(args) ==
  LET value(a) == IF a.k \in {"named", "spread"} THEN a.sub[1] ELSE a
      spec(a) == [kind |-> IF a.k \in {"named", "spread"} THEN a.k ELSE "positional",
                  name |-> IF a.k = "named" THEN a.name ELSE ""]
      ordered == \A i, j \in DOMAIN args : i < j /\ args[i].k = "named" => args[j].k = "named"
  IN  [code |-> IF ordered THEN FlattenSeq([i \in DOMAIN args |-> compileExpression(value(args[i]))])
                ELSE Refused,
       plan |-> [i \in DOMAIN args |-> spec(args[i])]]
CallOp(op, args) == [OpN(op, Len(args)) EXCEPT !.plan = compileArguments(args).plan]

\* A handler is called with the value of its case.
compileSelectHandlerThunk(h) ==
  LET value == Id("__select_value")
      param == [name |-> "__select_value", var |-> FALSE, def |-> <<>>, tag |-> ""]
  IN  CASE h.k = "match" -> Thunk(<<param>>, [h EXCEPT !.sub = <<value>>])
        [] h.k = "call" -> Thunk(<<param>>, Call(h.sub[1], <<value>> \o Tail(h.sub)))
        [] OTHER -> Thunk(<<param>>, Call(h, <<value>>))
SelectKinds == {"recv", "send", "after", "await", "default"}
compileSelectExpression(e) ==
  LET spec(cs) == [kind |-> cs.kind,
                   fns |-> [i \in DOMAIN cs.args |-> Thunk(<<>>, cs.args[i])],
                   handler |-> [i \in DOMAIN cs.handler |-> compileSelectHandlerThunk(cs.handler[i])]]
      bad(cs) == cs.kind \notin SelectKinds
                   \/ (cs.handler # <<>> /\ cs.handler[1].k = "match" /\ cs.handler[1].sub # <<>>)
  IN  IF \E i \in DOMAIN e.x : bad(e.x[i]) THEN Refused
      ELSE <<[Op("select") EXCEPT !.plan = [i \in DOMAIN e.x |-> spec(e.x[i])]]>>

compileShortCircuit(op, left, right) ==
  IF op = "&&"
  THEN left \o <<OpN("jumpIfFalse", Len(right) + 2)>> \o right \o <<OpN("jump", 2), Op("false")>>
  ELSE left \o <<OpN("jumpIfFalse", 3), Op("true"), OpN("jump", Len(right) + 1)>> \o right

compileInfix(e) ==
  LET l == e.sub[1]
      r == e.sub[2]
      two(x, y, op) == compileExpression(x) \o compileExpression(y) \o <<op>>
  IN  CASE e.name = "=" -> IF l.k = "id" THEN compileExpression(r) \o <<OpS("assign", l.name)>>
                           ELSE Refused
        [] e.name \in {"&&", "||"} ->
             compileShortCircuit(e.name, compileExpression(l), compileExpression(r))
        [] e.name = "+" /\ singleElementListLiteral(r) -> two(l, r.sub[1], Op("listAppend"))
        [] e.name = "+" /\ singleElementListLiteral(l) -> two(l.sub[1], r, Op("listPrepend"))
        [] e.name = "+:" -> two(l, r, Op("listPrepend"))
        [] e.name = ":+" -> two(l, r, Op("listAppend"))
        [] e.name \in BinaryOps -> two(l, r, OpS("binary", e.name))
        [] OTHER -> Refused

Branches(then, else) ==
  <<OpN("jumpIfFalse", Len(then) + 2)>> \o then \o <<OpN("jump", Len(else) + 1)>> \o else
compileIf(e) ==
  compileExpression(e.sub[1])
    \o Branches(compileBlock(e.sub[2]),
                IF Len(e.sub) = 3 THEN compileBlock(e.sub[3]) ELSE <<Op("nil")>>)

compileSchema(e) ==
  IF \E i, j \in DOMAIN e.x : i # j /\ e.x[i].name = e.x[j].name THEN Refused
  ELSE <<Const(SchemaV("", e.x)), Op("structSchema")>>
compileInit(e) ==
  LET field(i) == <<Const(SymV(e.x[i]))>> \o compileExpression(e.sub[i + 1]) IN
  compileExpression(e.sub[1]) \o FlattenSeq([i \in DOMAIN e.x |-> field(i)])
    \o <<OpN("hash", Len(e.x)), Op("structInit")>>

\* Of the tags of a declaration only @main, the name of its node, has a part here.
Tagging(e) == IF e.name = "" THEN <<>> ELSE <<OpS("applyTags", e.name)>>
compileExpression(e) ==
  LET subs == FlattenSeq([i \in DOMAIN e.sub |-> compileExpression(e.sub[i])])
      args == IF e.k = "call" THEN Tail(e.sub) ELSE e.sub
  IN  CASE e.k = "num" -> <<Const(DecV(Literal(e)))>>
        [] e.k = "str" -> <<Const(StrV(e.name))>>
        [] e.k = "sym" -> <<Const(SymV(e.name))>>
        [] e.k = "bytes" -> <<Const(BytesV(e.x))>>
        [] e.k = "bool" -> <<Op(IF e.x[1] THEN "true" ELSE "false")>>
        [] e.k \in {"nil", "none"} -> <<Op("nil")>>
        [] e.k = "id" -> <<OpS("get", e.name)>>
        [] e.k = "val" -> compileExpression(e.sub[1]) \o Tagging(e) \o compileBindPattern(e.x[1], "setConst")
        [] e.k = "var" -> compileExpression(e.sub[1]) \o Tagging(e) \o compileBindPattern(e.x[1], "setVar")
        [] e.k = "prefix" -> subs \o <<OpS("prefix", e.name)>>
        [] e.k = "infix" -> compileInfix(e)
        [] e.k = "block" -> compileBlock(e)
        [] e.k = "if" -> compileIf(e)
        [] e.k = "match" -> compileMatchExpression(e)
        [] e.k = "select" -> compileSelectExpression(e)
        [] e.k = "spawn" -> <<Const(Thunk(<<>>, e.sub[1])), Op("spawn")>>
        [] e.k = "await" -> subs \o <<Op("await")>>
        [] e.k = "list" -> subs \o <<OpN("array", Len(e.sub))>>
        [] e.k = "map" -> subs \o <<OpN("hash", Len(e.sub) \div 2)>>
        [] e.k = "schema" -> compileSchema(e)
        [] e.k = "init" -> compileInit(e)
        [] e.k = "copy" -> subs \o <<Op("structCopy")>>
        [] e.k = "index" -> subs \o <<Op(IF e.name = "dot" THEN "indexDot" ELSE "index")>>
        [] e.k = "slice" -> subs \o <<Op("slice")>>
        [] e.k = "fn" -> <<Const(compileFunctionLiteral(e))>>
        [] e.k = "typeapp" -> compileExpression(e.sub[1])
        [] e.k = "call" -> compileExpression(e.sub[1]) \o compileArguments(args).code
                             \o <<CallOp("call", args)>>
        [] e.k = "recur" -> compileArguments(args).code \o <<CallOp("recur", args)>>
        [] OTHER -> Refused

\* A program: its statements, then a return of the last value.
Compile(stmts) ==
  FlattenSeq([i \in DOMAIN stmts |-> compileStatement(stmts[i])]) \o <<Op("return")>>
=============================================================================
