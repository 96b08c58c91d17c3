-------------------------------- MODULE Ast --------------------------------
(***************************************************************************)
(* The syntax tree (internal/ast/ast.go).  Every node is a record with     *)
(* the same fields, so that the walks over the tree are uniform:           *)
(*   k     the node type                                                   *)
(*   name  an identifier, operator, field or type parameter                *)
(*   sub   the child expressions, in source order                          *)
(*   ann   the declared type, as tokens (<<>>: none)                       *)
(*   x     what is no child expression: parameters, cases, patterns        *)
(* Positions, tags and documentation comments are left out.                *)
(***************************************************************************)
EXTENDS Integers, Sequences

Node(k, name, sub) == [k |-> k, name |-> name, sub |-> sub, ann |-> <<>>, x |-> <<>>]

\* The text of a string is its name; numbers, booleans and bytes are in x.
Lit(k) == Node(k, "", <<>>)
Str(s) == Node("str", s, <<>>)
Bytes(bs) == [Lit("bytes") EXCEPT !.x = bs]
Decimal(coef, exp) == [Lit("num") EXCEPT !.x = <<coef, exp>>]
Num(n) == Decimal(n, 0)
Bool(b) == [Lit("bool") EXCEPT !.x = <<b>>]
Id(name) == Node("id", name, <<>>)
Sym(name) == Node("sym", name, <<>>)

Prefix(op, right) == Node("prefix", op, <<right>>)
Infix(op, left, right) == Node("infix", op, <<left, right>>)
Assign(name, e) == Infix("=", Id(name), e)
Index(left, i) == Node("index", "", <<left, i>>)
Dot(left, name) == Node("index", "dot", <<left, Sym(name)>>)
Slice(start, end, step) == Node("slice", "", <<start, end, step>>)    \* Lit("none"): left out
List(es) == Node("list", "", es)
Map(kvs) == Node("map", "", kvs)
Call(f, args) == Node("call", "", <<f>> \o args)
Spread(e) == Node("spread", "", <<e>>)
NamedArg(name, e) == Node("named", name, <<e>>)
Block(stmts) == Node("block", "", stmts)
Nursery(limit, stmts) == [Node("block", "nursery", stmts) EXCEPT !.x = limit]   \* <<>>: no limit
If(cond, then) == Node("if", "", <<cond, then>>)
IfElse(cond, then, else) == Node("if", "", <<cond, then, else>>)
Recur(args) == Node("recur", "", args)
Spawn(body) == Node("spawn", "", <<body>>)
Await(e) == Node("await", "", <<e>>)

\* name is the type parameter ("": none), x the parameters.
Param(name, ann) == [name |-> name, ann |-> ann, def |-> <<>>, var |-> FALSE]
Optional(name, ann, e) == [Param(name, ann) EXCEPT !.def = <<e>>]
Variable(name, ann) == [Param(name, ann) EXCEPT !.var = TRUE]
Fn(tp, params, ret, body) ==
  [Node("fn", tp, <<body>>) EXCEPT !.ann = ret, !.x = params]
Foreign(name, params, ret) ==
  [Node("foreign", name, <<>>) EXCEPT !.ann = ret, !.x = params]
TypeApply(f, anns) == [Node("typeapp", "", <<f>>) EXCEPT !.x = anns]

\* x is the pattern; keyword is "val" or "var".
Declare(keyword, pattern, ann, e) ==
  [Node(keyword, "", <<e>>) EXCEPT !.ann = ann, !.x = <<pattern>>]
Val1(name, e) == Declare("val", Node("id", name, <<>>), <<>>, e)
Var1(name, e) == Declare("var", Node("id", name, <<>>), <<>>, e)

\* x is the cases; a case without a guard has guard <<>>; its body is a block.
Case(pattern, guard, e) == [pat |-> pattern, guard |-> guard, body |-> Block(<<e>>)]
Match(value, cases) == [Node("match", "", <<value>>) EXCEPT !.x = cases]

\* Patterns are nodes too: wild, id, pin, bind, lit (x: the literal), list,
\* map (x: the keys, name: the name that takes the rest, ann: "exact", "all"
\* or "spread"), struct (x: the fields), spread and multi.
Pat(k, name, sub) == Node(k, name, sub)
Wild == Pat("wild", "", <<>>)
BindAs(name, p) == Pat("bind", name, <<p>>)
Pin(name) == Pat("pin", name, <<>>)
Rest(name) == Pat("spread", name, <<>>)
LitPat(e) == [Node("lit", "", <<>>) EXCEPT !.x = <<e>>]
ListPat(ps) == Pat("list", "", ps)
MapPat(keys, ps) == [Pat("map", "", ps) EXCEPT !.x = keys]
MapPatWith(keys, ps, flag, rest) == [Pat("map", rest, ps) EXCEPT !.x = keys, !.ann = <<flag>>]
StructPat(schema, fields, ps) == [Pat("struct", schema, ps) EXCEPT !.x = fields]
AnyOf(ps) == Pat("multi", "", ps)

Struct(fields) == [Lit("schema") EXCEPT !.x = fields]
Field(name, ann, def) == [name |-> name, ann |-> ann, def |-> def]
StructInit(schema, fields, values) ==
  [Node("init", "", <<schema>> \o values) EXCEPT !.x = fields]

StructCopy(e, data) == Node("copy", "", <<e, data>>)

\* x is the cases; a handler, if there is one, is a function, a call or a match
\* without subject.
SelectCase(kind, operands, handler) == [kind |-> kind, args |-> operands, handler |-> handler]
Select(cases) == [Node("select", "", <<>>) EXCEPT !.x = cases]

Return(e) == Node("return", "", <<e>>)
Throw(e) == Node("throw", "", <<e>>)
Defer(mode, errName, body) == [Node("defer", errName, <<body>>) EXCEPT !.x = <<mode>>]
=============================================================================
