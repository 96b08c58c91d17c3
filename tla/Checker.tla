------------------------------ MODULE Checker ------------------------------
(***************************************************************************)
(* Type inference of the semantic checker (internal/semantic/typecheck.go) *)
(* over the syntax trees of module Ast.  The typeChecker struct is the     *)
(* record st:                                                              *)
(*   scopes, declared, overrides, generics   stacks of name -> type        *)
(*   cons      constraints to unify, in order                              *)
(*   checks    compatibility checks made after the constraints are solved  *)
(*   diags     the kinds of diagnostics reported                           *)
(*   n         number of unknowns made;  parent: their parents             *)
(*   schemas   field types of the struct schemas                           *)
(* An inference returns a type and the next state, [t, st].  Tracing and   *)
(* the wording of diagnostics are left out.                                *)
(***************************************************************************)
EXTENDS TypeRules, Ast

CONSTANT Exports   \* the callables a module exports: name -> [tp, params, ret]

Top(s) == s[Len(s)]
Pop(s) == SubSeq(s, 1, Len(s) - 1)
R(t, st) == [t |-> t, st |-> st]

newTypeChecker ==
  [scopes |-> <<NoNames>>, declared |-> <<NoNames>>, overrides |-> <<NoNames>>,
   generics |-> <<>>, cons |-> <<>>, checks |-> <<>>, diags |-> {}, n |-> 0,
   parent |-> NoNames, schemas |-> NoNames]

\* freshUnknown: the next unknown, and the state in which it is taken
Id1(st) == <<st.n + 1>>
Fresh(st) == Unknown(Id1(st))
Taken(st) == [st EXCEPT !.n = @ + 1]
FreshR(st) == R(Fresh(st), Taken(st))
Find(t, st) == find(t, st.parent)
Union(ts, st) == unionType(ts, st.parent, Id1(st))

addDiag(st, d) == [st EXCEPT !.diags = @ \cup {d}]
DiagIf(st, cond, d) == IF cond THEN addDiag(st, d) ELSE st
addConstraint(st, lhs, rhs, why) ==
  IF NilType \in {lhs, rhs} THEN st
  ELSE [st EXCEPT !.cons = Append(@, [l |-> lhs, r |-> rhs, why |-> why])]
AddCheck(st, kind, l, r) == [st EXCEPT !.checks = Append(@, [kind |-> kind, l |-> l, r |-> r])]

-----------------------------------------------------------------------------
(* Scopes                                                                  *)

Put(f, name, t) == (name :> t) @@ f
PutTop(stack, name, t) == [stack EXCEPT ![Len(stack)] = Put(@, name, t)]
InnermostWith(stack, name) == {i \in DOMAIN stack : name \in DOMAIN stack[i]}
LookupIn(stack, name) ==
  LET hits == InnermostWith(stack, name) IN
  IF hits = {} THEN NilType ELSE stack[Max(hits)][name]

pushScope(st) == [st EXCEPT !.scopes = Append(@, NoNames), !.declared = Append(@, NoNames),
                            !.overrides = Append(@, NoNames)]
popScope(st) == [st EXCEPT !.scopes = Pop(@), !.declared = Pop(@), !.overrides = Pop(@)]

\* Overrides (flow types) come before scopes.
lookup(name, st) == OrElse(LookupIn(st.overrides, name), LookupIn(st.scopes, name))
setOverride(st, name, t) == [st EXCEPT !.overrides = PutTop(@, name, t)]
bindDeclared(st, name, t) == [st EXCEPT !.declared = PutTop(@, name, t)]

\* A second function of one name in a scope stands for the whole group; a
\* placeholder gives way to the function it was put for.
bind(st, name, t) ==
  LET scope == Top(st.scopes)
      old == IF name \in DOMAIN scope THEN Find(scope[name], st) ELSE NilType
      new == Find(t, st)
      group == old.k = "fn" /\ new.k = "fn" /\ old.name # "placeholder"
      t1 == IF group THEN FnType(<<>>, Fresh(st), FALSE, 0, -1) ELSE t
      st1 == IF group THEN Taken(st) ELSE st
  IN  setOverride([st1 EXCEPT !.scopes = PutTop(@, name, t1)], name, t1)

RECURSIVE visibleBindings(_)
visibleBindings(scopes) ==
  IF scopes = <<>> THEN NoNames ELSE Top(scopes) @@ visibleBindings(Pop(scopes))

\* A copy with unknowns of its own; the elements of a tuple are not copied.
RECURSIVE cloneForCaseScope(_, _)
cloneForCaseScope(t, st) ==
  LET f == Find(t, st) IN
  CASE f.k = "nilnode" -> Fresh(st)
    [] f.k \in {"unknown", "typeparam"} -> [f EXCEPT !.id = Id1(st) \o @]
    [] f.k = "tuple" -> Ty("tuple")
    [] OTHER -> [f EXCEPT !.sub = [i \in DOMAIN @ |-> cloneForCaseScope(@[i], st)],
                          !.tps = [i \in DOMAIN @ |-> cloneForCaseScope(@[i], st)],
                          !.name = IF f.k = "fn" THEN "" ELSE @]
pushIsolatedScopeFromVisible(st) ==
  LET seen == visibleBindings(st.scopes)
      copy == [x \in DOMAIN seen |-> cloneForCaseScope(seen[x], st)]
  IN  [Taken(st) EXCEPT !.scopes = Append(@, copy), !.declared = Append(@, NoNames),
                        !.overrides = Append(@, copy)]

RECURSIVE Merged(_)
Merged(stack) == IF stack = <<>> THEN NoNames ELSE Top(stack) @@ Merged(Pop(stack))
currentGenericScope(st) == Merged(st.generics)
Declared(ann, st) == parseDeclaredType(ann, currentGenericScope(st), Id1(st))
Validated(st, ann) ==
  DiagIf(DiagIf(st, validateDeclaredTypeShape(ann), "annotation shape"),
         validateSpecialDeclaredType(ann, currentGenericScope(st), Id1(st)), "annotation argument")

\* The tag the parser derives from a parameter's declared type.
inferredTagsFromDeclaredType(ann) ==
  CASE ann = <<>> -> ""
    [] \E i \in DOMAIN ann : ann[i] = "|" -> ""
    [] Bracketed(ann) -> "list"
    [] ann[1] \in {"num", "str", "bool", "list", "map", "bytes", "sym", "fn", "task", "chan"} -> ann[1]
    [] ann[1] \in Symbols -> ""
    [] OTHER -> "struct"

-----------------------------------------------------------------------------
(* Guards                                                                  *)

IsNil(e) == e.k = "nil"
CallOf(e, f) == e.k = "call" /\ e.sub[1] = Id(f) /\ Len(e.sub) = 2 /\ e.sub[2].k = "id"
\* The names of types, in the case that the documents write them in; the code
\* takes them in any.
TypeAliases ==
  [NIL_TYPE |-> "nil", BOOLEAN_TYPE |-> "bool", NUMBER_TYPE |-> "num", STRING_TYPE |-> "str",
   LIST_TYPE |-> "list", MAP_TYPE |-> "map", FUNCTION_TYPE |-> "fn", TASK_TYPE |-> "task",
   CHAN_TYPE |-> "chan", CHANNEL_TYPE |-> "chan", STRUCT_TYPE |-> "struct",
   BYTES_TYPE |-> "bytes", SYMBOL_TYPE |-> "sym"]
SymbolAliases ==
  [number |-> "num", string |-> "str", function |-> "fn", symbol |-> "sym", boolean |-> "bool",
   channel |-> "chan"]
  @@ [x \in {"nil", "bool", "num", "str", "list", "map", "fn", "task", "chan", "struct", "bytes",
             "sym"} |-> x]
typeConstToKind(e) ==
  CASE e.k = "sym" /\ e.name \in DOMAIN SymbolAliases -> SymbolAliases[e.name]
    [] e.k = "id" /\ e.name \in DOMAIN TypeAliases -> TypeAliases[e.name]
    [] OTHER -> ""
\* Types with neither element nor arity: what type(x) == :list refines to.
PredicateTarget(f, st) ==
  CASE f = "isList" -> ListType(AnyType)
    [] f = "isMap" -> MapType(AnyType, AnyType)
    [] f = "isStruct" -> Ty("struct")
    [] f = "isFn" -> FnType(<<>>, Fresh(st), FALSE, 0, -1)
    [] f = "isBytes" -> Ty("bytes")
    [] f \in {"isStr", "isString"} -> Ty("str")
    [] f \in {"isNum", "isNumber"} -> Ty("num")
    [] f \in {"isBool", "isBoolean"} -> Ty("bool")
    [] OTHER -> NilType

\* Refine name by target: an empty result is a contradiction only when an
\* earlier conjunct has refined the name.
refineBinding(name, target, inside, out, st) ==
  LET base == IF name \in DOMAIN out THEN out[name] ELSE lookup(name, st)
      rest == IF inside THEN intersectType(base, target, st.parent, Id1(st))
              ELSE excludeType(base, target, st.parent, Id1(st))
  IN  CASE base = NilType -> out
        [] rest # NilType -> Put(out, name, rest)
        [] name \in DOMAIN out -> Put(out, name, Ty("never"))
        [] OTHER -> out

reverseCmpOp(op) ==
  CASE op = ">" -> "<" [] op = ">=" -> "<=" [] op = "<" -> ">" [] op = "<=" -> ">=" [] OTHER -> op
evalLenPredicate(n, op, whenTrue) ==
  CASE op = ">" -> (n >= 0) = whenTrue
    [] op = ">=" -> (n > 0) = whenTrue
    [] op = "<" -> (n <= 0) = whenTrue
    [] op = "<=" -> (n < 0) = whenTrue
    [] OTHER -> n = 0
collectLenRefinement(l, r, op, whenTrue, out, st) ==
  LET sized == Union(<<ListType(AnyType), MapType(AnyType, AnyType), Ty("bytes"), Ty("str")>>, st)
      refined(name, n, o) ==
        IF lookup(name, st) # NilType /\ evalLenPredicate(n, o, whenTrue)
        THEN refineBinding(name, sized, TRUE, out, st) ELSE out
  IN  CASE CallOf(l, "len") /\ r.k = "num" -> refined(l.sub[2].name, r.x[1], op)
        [] CallOf(r, "len") /\ l.k = "num" -> refined(r.sub[2].name, l.x[1], reverseCmpOp(op))
        [] OTHER -> out

\* Mutant: != refines like ==.
RefinesAlike(l, r, op, whenTrue, out, st) ==
  CASE l.k = "id" /\ IsNil(r) -> refineBinding(l.name, Ty("nil"), whenTrue, out, st)
    [] CallOf(l, "type") -> refineBinding(l.sub[2].name, Ty(typeConstToKind(r)), whenTrue, out, st)
    [] OTHER -> out
collectComparisonRefinement(l, r, op, whenTrue, out, st) ==
  LET inside == (op = "==") = whenTrue
      byType(call, const) == CallOf(call, "type") /\ typeConstToKind(const) # ""
  IN  CASE l.k = "id" /\ IsNil(r) -> refineBinding(l.name, Ty("nil"), inside, out, st)
        [] r.k = "id" /\ IsNil(l) -> refineBinding(r.name, Ty("nil"), inside, out, st)
        [] byType(l, r) -> refineBinding(l.sub[2].name, Ty(typeConstToKind(r)), inside, out, st)
        [] byType(r, l) -> refineBinding(r.sub[2].name, Ty(typeConstToKind(l)), inside, out, st)
        [] OTHER -> out

\* Mutant: what the left operand says is taken for both.
LeftRefinements(a, b, st) == a
intersectRefinements(a, b, st) ==
  [x \in DOMAIN a \cap DOMAIN b |-> Union(<<a[x], b[x]>>, st)]

\* What holds of the variables when e is true (or false), on top of out.
RECURSIVE collectGuardRefinementsInto(_, _, _, _)
collectGuardRefinementsInto(e, whenTrue, out, st) ==
  LET into(x, w, o) == collectGuardRefinementsInto(x, w, o, st)
      both == into(e.sub[2], whenTrue, into(e.sub[1], whenTrue, out))
      either == intersectRefinements(into(e.sub[1], whenTrue, NoNames),
                                     into(e.sub[2], whenTrue, NoNames), st) @@ out
  IN  CASE e.k = "prefix" /\ e.name = "!" -> into(e.sub[1], ~whenTrue, out)
        [] e.k = "infix" /\ e.name = "&&" -> IF whenTrue THEN both ELSE either
        [] e.k = "infix" /\ e.name = "||" -> IF whenTrue THEN either ELSE both
        [] e.k = "infix" /\ e.name \in {"==", "!="} ->
             collectLenRefinement(e.sub[1], e.sub[2], e.name, whenTrue,
               collectComparisonRefinement(e.sub[1], e.sub[2], e.name, whenTrue, out, st), st)
        [] e.k = "infix" /\ e.name \in {"<", "<=", ">", ">="} ->
             collectLenRefinement(e.sub[1], e.sub[2], e.name, whenTrue, out, st)
        [] e.k = "call" /\ e.sub[1].k = "id" /\ CallOf(e, e.sub[1].name) ->
             LET target == PredicateTarget(e.sub[1].name, st) IN
             IF target = NilType THEN out
             ELSE refineBinding(e.sub[2].name, target, whenTrue, out, st)
        [] OTHER -> out
collectGuardRefinements(e, whenTrue, st) == collectGuardRefinementsInto(e, whenTrue, NoNames, st)

hasImpossibleRefinement(refs, st) == \E x \in DOMAIN refs : Find(refs[x], st).k = "never"

BindAll(st, refs) ==
  FoldFunctionOnSet(LAMBDA p, s : bind(s, p[1], p[2]), st,
                    [x \in DOMAIN refs |-> <<x, refs[x]>>], DOMAIN refs)

-----------------------------------------------------------------------------
(* Patterns                                                                *)

RECURSIVE inferExpr(_, _)
inferAll(es, st) ==
  FoldLeft(LAMBDA acc, e : LET r == inferExpr(e, acc.st)
                           IN  [ts |-> Append(acc.ts, r.t), st |-> r.st],
           [ts |-> <<>>, st |-> st], es)

sequenceElementType(t, st) ==
  LET f == Find(t, st) IN
  CASE f.k = "bytes" -> Ty("num")
    [] f.k = "list" -> OrElse(Child(f, 1), Fresh(st))
    [] OTHER -> Fresh(st)
constrainSequenceLike(st, seq, elem) ==
  LET f == Find(seq, st) IN
  CASE f.k = "bytes" -> st
    [] f.k \in {"list", "unknown", "any"} -> addConstraint(st, seq, ListType(elem), "list pattern")
    [] OTHER -> addDiag(st, "list pattern")

\* narrow: the pattern is a match case's, and literals and structs constrain.
RECURSIVE Bound(_, _, _, _)
Bound(narrow, p, t, st) ==
  LET elem == sequenceElementType(t, st)
      each(types, s0) == FoldLeft(LAMBDA s, i : Bound(narrow, p.sub[i], types[i], s), s0,
                                  [i \in DOMAIN p.sub |-> i])
      lit == inferExpr(p.x[1], st)
      known(f, i) == IF p.name \in DOMAIN st.schemas /\ f \in DOMAIN st.schemas[p.name] /\ narrow
                  THEN st.schemas[p.name][f] ELSE Unknown(<<st.n + 1, i>>)
  IN  CASE p.k = "id" -> bind(st, p.name, t)
        [] p.k = "bind" -> each([i \in DOMAIN p.sub |-> t], bind(st, p.name, t))
        [] p.k = "spread" -> IF p.name = "" THEN st ELSE bind(Taken(st), p.name, Fresh(st))
        [] p.k = "list" -> each([i \in DOMAIN p.sub |-> elem],
                                constrainSequenceLike(Taken(st), t, elem))
        [] p.k = "map" -> each([i \in DOMAIN p.sub |-> Unknown(<<st.n + 1, i>>)],
                               addConstraint(Taken(st), t, MapType(Fresh(st), AnyType), "map pattern"))
        [] p.k = "struct" ->
             each([i \in DOMAIN p.sub |-> known(p.x[i], i)],
                  IF narrow THEN addConstraint(Taken(st), t, Named("struct", p.name), "struct pattern")
                  ELSE Taken(st))
        [] narrow /\ p.k = "lit" -> addConstraint(lit.st, t, lit.t, "literal pattern")
        [] narrow /\ p.k = "multi" -> Bound(narrow, p.sub[1], t, st)
        [] OTHER -> st
bindPattern(st, p, t) == Bound(FALSE, p, t, st)
narrowPattern(st, p, t) == Bound(TRUE, p, t, st)

RECURSIVE bindPatternDeclared(_, _, _)
bindPatternDeclared(st, p, t) ==
  FoldLeft(LAMBDA s, q : bindPatternDeclared(s, q, t),
           IF p.k \in {"id", "bind", "spread"} /\ p.name # "" THEN bindDeclared(st, p.name, t) ELSE st,
           p.sub)

\* A map pattern over import("m") binds the module's exports by name.
callableType(c, st) ==
  LET tp == TypeParam(c.tp, Id1(st))
      generic == IF c.tp = "" THEN NoNames ELSE c.tp :> tp
      typed(ann, i) == OrElse(parseDeclaredType(ann, generic, <<st.n + 1, i>>),
                              Unknown(<<st.n + 1, i>>))
  IN  [FnType([i \in DOMAIN c.params |-> typed(c.params[i], i)], typed(c.ret, 0), FALSE,
              Len(c.params), Len(c.params))
         EXCEPT !.tps = IF c.tp = "" THEN <<>> ELSE <<tp>>]
IsImport(e) == e.k = "call" /\ e.sub[1] = Id("import")
bindImportedPattern(st, p, e) ==
  LET exports == IF e.sub[2].name \in DOMAIN Exports THEN Exports[e.sub[2].name] ELSE NoNames
      wanted == SelectSeq([i \in DOMAIN p.sub |-> <<p.x[i].name, p.sub[i].name>>],
                          LAMBDA w : w[1] \in DOMAIN exports /\ w[2] # "")
  IN  FoldLeft(LAMBDA s, w : bind(Taken(s), w[2], callableType(exports[w[1]], s)),
               st, wanted)
BindDeclaration(st, p, e, t) ==
  IF IsImport(e) /\ p.k = "map" THEN bindImportedPattern(st, p, e) ELSE bindPattern(st, p, t)

registerStructSchema(st, p, e) ==
  LET fieldType(f, s) ==
        LET tt == Declared(f.ann, s)
            open == f.ann = <<>> /\ (f.def = <<>> \/ IsNil(f.def[1]))
            ft == IF open THEN AnyType ELSE Fresh(s)
            s1 == addConstraint(Validated(Taken(s), f.ann), ft, tt, "struct schema type")
            dt == inferExpr(f.def[1], s1)
        IN  IF f.def # <<>> /\ ~IsNil(f.def[1])
            THEN R(ft, addConstraint(dt.st, ft, dt.t, "struct schema default"))
            ELSE R(ft, s1)
      fields == FoldLeft(LAMBDA acc, f : LET r == fieldType(f, acc.st)
                                         IN  [m |-> Put(acc.m, f.name, r.t), st |-> r.st],
                         [m |-> NoNames, st |-> st], e.x)
  IN  IF e.k = "schema" /\ p.k = "id"
      THEN [fields.st EXCEPT !.schemas = Put(@, p.name, fields.m)] ELSE st

-----------------------------------------------------------------------------
(* Literals against declared types                                         *)

\* A tag on a declaration or on a parameter constrains its type.
enforceTags(st, t, tag) == addConstraint(Taken(st), t, cloneScalarTagType(tag, Id1(st)), "tag")

\* The elements of a list or map literal are inferred again and compared
\* with the declared element types.
enforceDeclaredLiteralCompatibility(st, e, declared) ==
  LET d == Find(declared, st)
      each(es, types, s0) ==
        LET r == inferAll(es, s0)
        IN  DiagIf(r.st, \E i \in DOMAIN es : ~isDeclaredCompatible(r.ts[i], types[i], s0.parent),
                   "literal element")
  IN  CASE e.k = "list" /\ d.k = "tuple" ->
             IF Len(e.sub) # Len(d.sub) THEN addDiag(st, "tuple length") ELSE each(e.sub, d.sub, st)
        [] e.k = "list" /\ d.k = "list" -> each(e.sub, [i \in DOMAIN e.sub |-> Child(d, 1)], st)
        [] e.k = "map" /\ d.k = "map" ->
             each(e.sub, [i \in DOMAIN e.sub |-> Child(d, 2 - (i % 2))], st)
        [] OTHER -> st

bodyReturnsListLiteral(body) ==
  /\ body.sub # <<>>
  /\ LET last == Top(body.sub)
     IN  last.k = "list" \/ (last.k = "return" /\ last.sub[1].k = "list")

RECURSIVE enforceFunctionReturnLiteralCompatibility(_, _, _)
enforceFunctionReturnLiteralCompatibility(st, body, declared) ==
  FoldLeft(LAMBDA s, i :
             LET e == body.sub[i] IN
             CASE e.k = "return" -> enforceDeclaredLiteralCompatibility(s, e.sub[1], declared)
               [] e.k = "block" -> enforceFunctionReturnLiteralCompatibility(s, e, declared)
               [] i = Len(body.sub) -> enforceDeclaredLiteralCompatibility(s, e, declared)
               [] OTHER -> s,
           st, [i \in DOMAIN body.sub |-> i])

-----------------------------------------------------------------------------
(* Generic functions                                                       *)

RECURSIVE containsTypeParam(_, _)
containsTypeParam(t, st) ==
  LET f == Find(t, st) IN
  f.k = "typeparam" \/ \E c \in Range(f.sub) \cup Range(f.tps) : containsTypeParam(c, st)

RECURSIVE cloneTypeWithSubst(_, _, _)
cloneTypeWithSubst(t, subst, st) ==
  LET f == Find(t, st) IN
  IF f \in DOMAIN subst THEN subst[f]
  ELSE [f EXCEPT !.sub = [i \in DOMAIN @ |-> cloneTypeWithSubst(@[i], subst, st)]]

\* explicit = <<>>: every type parameter is replaced by a new one.
instantiateFunctionType(fn, explicit, st) ==
  LET subst == [tp \in Range(fn.tps) |->
                  IF explicit # <<>> THEN explicit[CHOOSE i \in DOMAIN fn.tps : fn.tps[i] = tp]
                  ELSE TypeParam(tp.name, Id1(st) \o tp.id)]
  IN  [cloneTypeWithSubst(fn, subst, st) EXCEPT !.tps = <<>>, !.name = ""]

inferTypeApplication(e, st) ==
  LET r == inferExpr(e.sub[1], st)
      fn == Find(r.t, r.st)
      explicit == [i \in DOMAIN e.x |->
                     OrElse(parseDeclaredType(e.x[i], currentGenericScope(st), <<r.st.n + 1, i>>),
                            Unknown(<<r.st.n + 1, i>>))]
      st1 == Taken(r.st)
  IN  CASE fn.k # "fn" -> r
        [] fn.tps # <<>> /\ Len(explicit) # Len(fn.tps) ->
             R(instantiateFunctionType(fn, <<>>, st1), addDiag(Taken(st1), "type arguments"))
        [] fn.tps # <<>> -> R(instantiateFunctionType(fn, explicit, st1), Taken(st1))
        [] OTHER -> R(r.t, DiagIf(st1, explicit # <<>>, "type application"))

-----------------------------------------------------------------------------
(* Blocks and branches                                                     *)

inferBlockInCurrentScope(b, st) ==
  FoldLeft(LAMBDA acc, stmt : inferExpr(stmt, acc.st), R(Ty("nil"), st), b.sub)
inferBlock(b, st) ==
  LET r == inferBlockInCurrentScope(b, pushScope(st)) IN R(r.t, popScope(r.st))

\* A branch whose guard is contradictory is not looked at.
inferBlockWithRefinementsAndOverrides(b, refs, st) ==
  LET r == inferBlockInCurrentScope(b, BindAll(pushScope(st), refs)) IN
  IF hasImpossibleRefinement(refs, st) THEN [t |-> Ty("never"), st |-> st, ov |-> NoNames]
  ELSE [t |-> r.t, st |-> popScope(r.st), ov |-> Top(r.st.overrides)]

\* Mutant: what the first branch left is taken for the result.
MergesThenOnly(st, outer, thenOv, elseOv) ==
  LET merged == [x \in DOMAIN outer |-> (thenOv @@ outer)[x]]
  IN  [Taken(st) EXCEPT !.overrides = [@ EXCEPT ![Len(@)] = merged @@ @]]
\* After an if, a visible name has the union of what the branches left it.
mergeIfOverrides(st, outer, thenOv, elseOv) ==
  LET merged == [x \in DOMAIN outer |-> Union(<<(thenOv @@ outer)[x], (elseOv @@ outer)[x]>>, st)]
  IN  [Taken(st) EXCEPT !.overrides = [@ EXCEPT ![Len(@)] = merged @@ @]]

inferIf(e, st) ==
  LET c == inferExpr(e.sub[1], st)
      st1 == addConstraint(c.st, c.t, Ty("bool"), "if condition")
      outer == visibleBindings(st1.scopes)
      thenRefs == collectGuardRefinements(e.sub[1], TRUE, st1)
      elseRefs == collectGuardRefinements(e.sub[1], FALSE, st1)
      st2 == DiagIf(DiagIf(Taken(st1), hasImpossibleRefinement(thenRefs, st1), "unreachable then"),
                    hasImpossibleRefinement(elseRefs, st1), "unreachable else")
      then == inferBlockWithRefinementsAndOverrides(e.sub[2], thenRefs, st2)
      else == IF Len(e.sub) = 3
              THEN inferBlockWithRefinementsAndOverrides(e.sub[3], elseRefs, then.st)
              ELSE [t |-> Ty("nil"), st |-> then.st, ov |-> NoNames]
      st3 == mergeIfOverrides(else.st, outer, then.ov, else.ov)
  IN  R(Union(<<then.t, else.t>>, st3), Taken(st3))

inferMatchCase(case, scrutinee, st) ==
  LET st1 == pushIsolatedScopeFromVisible(st)
      st2 == IF scrutinee = NilType THEN st1
             ELSE narrowPattern(Taken(st1), case.pat, cloneForCaseScope(scrutinee, st1))
      g == inferExpr(case.guard[1], st2)
      st3 == IF case.guard = <<>> THEN st2 ELSE addConstraint(g.st, g.t, Ty("bool"), "match guard")
      refs == IF case.guard = <<>> THEN NoNames ELSE collectGuardRefinements(case.guard[1], TRUE, st3)
      body == inferBlockInCurrentScope(case.body, BindAll(Taken(st3), refs))
  IN  IF hasImpossibleRefinement(refs, st3)
      THEN R(Ty("never"), popScope(addDiag(st3, "unreachable case")))
      ELSE R(body.t, popScope(body.st))
inferMatch(e, st) ==
  LET v == IF e.sub = <<>> THEN R(NilType, st) ELSE inferExpr(e.sub[1], st)
      cases == FoldLeft(LAMBDA acc, c : LET r == inferMatchCase(c, v.t, acc.st)
                                        IN  [ts |-> Append(acc.ts, r.t), st |-> r.st],
                        [ts |-> <<>>, st |-> v.st], e.x)
  IN  IF cases.ts = <<>> THEN R(Ty("nil"), v.st) ELSE R(Union(cases.ts, cases.st), Taken(cases.st))

\* A case of select: its channel, value, timer or task, then its handler.
inferSelect(e, st) ==
  LET one(s, c) ==
        LET args == inferAll(c.args, s)
            s1 == IF c.kind = "await" THEN addConstraint(args.st, args.ts[1], Ty("task"), "select await")
                  ELSE args.st
            h == inferExpr(c.handler[1], s1)
        IN  IF c.handler = <<>> THEN s1 ELSE addConstraint(h.st, Fresh(st), h.t, "select handler")
  IN  R(Fresh(st), FoldLeft(one, Taken(st), e.x))

-----------------------------------------------------------------------------
(* Declarations and assignments                                            *)

Variadic(params) == params # <<>> /\ Top(params).var
MinArgs(params) ==
  LET required == {i \in DOMAIN params : params[i].def = <<>> /\ ~params[i].var} IN
  IF required = {} THEN 0 ELSE Max(required)
MaxArgs(params) == IF Variadic(params) THEN -1 ELSE Len(params)

\* The right hand side of a function declaration sees a stand-in for its name.
inferInitializer(e, st) ==
  LET fn == e.sub[1]
      p == e.x[1]
      standIn == FnType(<<>>, Fresh(st), Variadic(fn.x), MinArgs(fn.x), MaxArgs(fn.x))
      r == inferExpr(fn, [Taken(st) EXCEPT !.overrides = Append(@, p.name :> standIn)])
  IN  IF fn.k = "fn" /\ p.k \in {"id", "bind"} THEN R(r.t, [r.st EXCEPT !.overrides = Pop(@)])
      ELSE inferExpr(fn, st)
inferDeclaration(e, st) ==
  LET r == inferInitializer(e, st)
      tt == Declared(e.ann, r.st)
      st1 == Validated(Taken(r.st), e.ann)
      st2 == DiagIf(addConstraint(st1, r.t, tt, "annotation"),
                    ~isDeclaredCompatible(r.t, tt, st1.parent), "annotation")
      st3 == bindPatternDeclared(enforceDeclaredLiteralCompatibility(st2, e.sub[1], tt), e.x[1], tt)
      st4 == DiagIf(st3, typeMayBeNilConcretely(r.t, st.parent) /\ ~typeAllowsNil(tt, st.parent),
                    "nilability")
      st5 == IF tt = NilType THEN st1 ELSE st4
      st6 == BindDeclaration(enforceTags(st5, r.t, e.name), e.x[1], e.sub[1], r.t)
  IN  R(r.t, registerStructSchema(st6, e.x[1], e.sub[1]))

\* The scope that holds the name gets the union of the old type and the new;
\* the innermost flow type is the new one.
trackReassignmentType(st, lhs, t) ==
  LET hits == InnermostWith(st.scopes, lhs.name)
      dt == LookupIn(st.declared, lhs.name)
      st1 == DiagIf(st, /\ dt # NilType
                        /\ typeMayBeNilConcretely(t, st.parent)
                        /\ ~typeAllowsNil(dt, st.parent), "nilability")
      widened == Put(st.scopes[Max(hits)], lhs.name,
                     Union(<<st.scopes[Max(hits)][lhs.name], t>>, st))
  IN  IF lhs.k # "id" \/ hits = {} THEN st1
      ELSE setOverride([Taken(st1) EXCEPT !.scopes[Max(hits)] = widened], lhs.name, t)

-----------------------------------------------------------------------------
(* Operators                                                               *)

unionContainerModes(t, st) ==
  {CASE Find(t.sub[i], st).k \in {"list", "bytes"} -> Find(t.sub[i], st).k
     [] Find(t.sub[i], st).k \in {"unknown", "any", "nil", "never"} -> "open"
     [] OTHER -> "other" : i \in DOMAIN t.sub} \ {"open"}

\* `:+` and `+:`: container and item are the operands in the operator's order.
inferAppend(container, item, out, st) ==
  LET c == Find(container, st)
      modes == unionContainerModes(c, st)
      open == R(out, st)
      asBytes == R(out, addConstraint(addConstraint(st, item, Ty("num"), "bytes append"),
                                      out, Ty("bytes"), "append result"))
  IN  CASE c.k = "union" /\ "bytes" \in modes /\ "list" \notin modes -> asBytes
        [] c.k = "union" /\ ("list" \in modes \/ modes = {}) -> open
        [] c.k = "list" -> R(out, addConstraint(st, out, c, "append result"))
        [] c.k = "bytes" -> asBytes
        [] c.k \in {"unknown", "any"} -> open
        [] OTHER -> R(out, addDiag(st, "append"))

inferInfix(e, st0) ==
  LET args == inferAll(e.sub, st0)
      l == args.ts[1]
      r == args.ts[2]
      lk == Find(l, args.st).k
      rk == Find(r, args.st).k
      out == Fresh(args.st)
      st == Taken(args.st)
      operands(k, s, why) == addConstraint(addConstraint(s, l, Ty(k), why), r, Ty(k), why)
      gives(k, s) == R(out, addConstraint(s, out, Ty(k), "result"))
  IN  CASE e.name = "=" -> R(r, trackReassignmentType(addConstraint(st, l, r, "assignment"), e.sub[1], r))
        [] e.name = "+" -> CASE "str" \in {lk, rk} -> gives("str", st)
                             [] {lk, rk} = {"num"} -> gives("num", st)
                             [] OTHER -> R(out, AddCheck(st, "+", l, r))
        [] e.name \in {"-", "/", "%", "<<", ">>"} -> gives("num", operands("num", st, "operand"))
        [] e.name \in {"&", "|", "^"} -> R(out, AddCheck(st, "&", l, r))
        [] e.name = "*" -> R(out, AddCheck(st, "*", l, r))
        [] e.name \in {"==", "!="} -> gives("bool", st)
        [] e.name \in {"<", "<=", ">", ">="} -> gives("bool", addConstraint(st, l, r, "comparison"))
        [] e.name \in {"&&", "||"} -> gives("bool", operands("bool", st, "logic"))
        [] e.name = ":+" -> inferAppend(l, r, out, st)
        [] e.name = "+:" -> inferAppend(r, l, out, st)
        [] OTHER -> R(out, st)

inferPrefix(e, st) ==
  LET r == inferExpr(e.sub[1], st)
      k == Find(r.t, r.st).k
      numeric == R(Ty("num"), addConstraint(r.st, r.t, Ty("num"), "prefix"))
  IN  CASE e.name = "-" -> numeric
        [] e.name = "~" -> CASE k = "bytes" -> R(Ty("bytes"), r.st)
                             [] k \in {"unknown", "any"} -> FreshR(r.st)
                             [] OTHER -> numeric
        [] e.name = "!" -> R(Ty("bool"), r.st)

-----------------------------------------------------------------------------
(* Calls and functions                                                     *)

\* Arguments meet parameters in order; a spread meets all that are left.
\* Only a generic callee's arguments are unified, others are checked last.
inferCall(e, st0) ==
  LET f == inferExpr(e.sub[1], st0)
      result == Fresh(f.st)
      isSpread(i) == e.sub[i + 1].k = "spread"
      args == inferAll([i \in 1..(Len(e.sub) - 1) |->
                          IF isSpread(i) THEN e.sub[i + 1].sub[1] ELSE e.sub[i + 1]], Taken(f.st))
      fn == Find(f.t, args.st)
      generic == fn.tps # <<>> \/ containsTypeParam(fn, args.st)
      ct == IF fn.tps # <<>> THEN instantiateFunctionType(fn, <<>>, args.st) ELSE fn
      st == Taken(args.st)
      n == Len(args.ts)
      spreads == {i \in 1..n : isSpread(i)}
      max == CASE ct.hi = 0 /\ Params(ct) # <<>> /\ ~ct.var -> Len(Params(ct))
               [] ct.hi = 0 /\ Params(ct) = <<>> -> -1
               [] OTHER -> ct.hi
      fixed == n - Cardinality(spreads)
      badArity == IF spreads = {} THEN n < ct.lo \/ (max >= 0 /\ n > max)
                  ELSE max >= 0 /\ fixed > max
      got(j) == IF spreads = {} \/ j < Min(spreads) THEN args.ts[j]
                ELSE LET t == Find(args.ts[Min(spreads)], st) IN
                     CASE t.k = "list" -> Child(t, 1)
                       [] t.k = "bytes" -> Ty("num")
                       [] t.k = "str" -> Ty("str")
                       [] OTHER -> Unknown(<<st.n + 1>>)
      met == IF spreads = {} THEN Min({n, Len(Params(ct))}) ELSE Len(Params(ct))
      meet(s, j) == IF generic THEN addConstraint(s, got(j), Params(ct)[j], "argument")
                    ELSE AddCheck(s, "call", got(j), Params(ct)[j])
      st1 == FoldLeft(meet, DiagIf(Taken(st), badArity, "arity"), [j \in 1..met |-> j])
  IN  IF fn.k # "fn" THEN R(result, args.st)
      ELSE R(result, addConstraint(st1, result, Child(ct, 1), "call result"))

\* recur in this function's body; a block forgets that it is inside a
\* nested function literal.
RECURSIVE containsRecurInExpr(_, _)
containsRecurInCurrentFunction(b) == \E s \in Range(b.sub) : containsRecurInExpr(s, FALSE)
containsRecurInExpr(e, nestedFn) ==
  LET inSub == \E c \in Range(e.sub) : containsRecurInExpr(c, nestedFn) IN
  CASE e.k = "recur" -> ~nestedFn
    [] e.k = "block" -> containsRecurInCurrentFunction(e)
    [] e.k = "match" ->
         \/ inSub
         \/ \E i \in DOMAIN e.x : \/ containsRecurInCurrentFunction(e.x[i].body)
                                  \/ \E g \in Range(e.x[i].guard) : containsRecurInExpr(g, nestedFn)
    [] e.k = "fn" -> containsRecurInExpr(e.sub[1], TRUE)
    [] e.k \in {"select", "typeapp", "slice", "spread"} -> FALSE
    [] OTHER -> inSub

inferParameter(p, acc) ==
  LET st == acc.st
      tt == Declared(p.ann, st)
      pt == OrElse(tt, Fresh(st))
      st1 == enforceTags(Validated(Taken(st), p.ann), pt, inferredTagsFromDeclaredType(p.ann))
      dt == inferExpr(p.def[1], st1)
      st2 == IF p.def = <<>> THEN st1 ELSE addConstraint(dt.st, pt, dt.t, "default")
  IN  [ts |-> Append(acc.ts, pt), st |-> bind(st2, p.name, pt)]

\* One pass over the body: parameters that it reassigns are widened.
inferFunctionIteration(body, names, params, st) ==
  LET bound == FoldLeft(LAMBDA s, i : bind(s, names[i], params[i]), pushScope(st),
                        [i \in DOMAIN names |-> i])
      r == inferBlockInCurrentScope(body, bound)
      ov == Top(r.st.overrides)
      next(i) == IF names[i] \in DOMAIN ov THEN Union(<<params[i], ov[names[i]]>>, r.st) ELSE params[i]
      changed(i) == typeSig(next(i), r.st.parent) # typeSig(params[i], r.st.parent)
      params1 == [i \in DOMAIN names |-> IF changed(i) THEN next(i) ELSE params[i]]
      rebind(s, i) == setOverride([s EXCEPT !.scopes = PutTop(@, names[i], params1[i])],
                                  names[i], params1[i])
  IN  [t |-> r.t, params |-> params1, changed |-> \E i \in DOMAIN names : changed(i),
       st |-> FoldLeft(rebind, popScope(r.st), [i \in DOMAIN names |-> i])]

MaxRecurPasses == 4
RECURSIVE inferPasses(_, _, _, _, _, _)
inferPasses(body, names, params, ret, st, left) ==
  LET it == inferFunctionIteration(body, names, params, st)
      ret1 == Union(<<ret, it.t>>, it.st)
  IN  IF it.changed /\ left > 1
      THEN inferPasses(body, names, it.params, ret1, Taken(it.st), left - 1)
      ELSE [t |-> ret1, params |-> it.params, st |-> Taken(it.st)]

inferFunctionLiteral(e, st) ==
  LET tp == TypeParam(e.name, Id1(st))
      generic == IF e.name = "" THEN NoNames ELSE e.name :> tp
      st1 == pushScope([Taken(st) EXCEPT !.generics = Append(@, generic)])
      ps == FoldLeft(LAMBDA acc, p : inferParameter(p, acc), [ts |-> <<>>, st |-> st1], e.x)
      body == e.sub[1]
      passes == IF containsRecurInCurrentFunction(body) THEN MaxRecurPasses ELSE 1
      b == inferPasses(body, [i \in DOMAIN e.x |-> e.x[i].name], ps.ts, Ty("never"), ps.st, passes)
      tt == Declared(e.ann, b.st)
      st2 == Validated(Taken(b.st), e.ann)
      st3 == IF tt.k = "tuple" /\ bodyReturnsListLiteral(body) THEN st2
             ELSE addConstraint(st2, b.t, tt, "return annotation")
      st4 == AddCheck(enforceFunctionReturnLiteralCompatibility(st3, body, tt), "return", tt, tt)
      st5 == popScope(IF tt = NilType THEN st2 ELSE st4)
      fn == FnType(b.params, OrElse(tt, b.t), Variadic(e.x), MinArgs(e.x), MaxArgs(e.x))
  IN  R([fn EXCEPT !.tps = IF e.name = "" THEN <<>> ELSE <<tp>>],
        [st5 EXCEPT !.generics = Pop(@)])

\* A foreign declaration is a function type without a body.
inferForeign(e, st) ==
  LET st1 == pushScope(Taken(st))
      ps == FoldLeft(LAMBDA acc, p : inferParameter(p, acc), [ts |-> <<>>, st |-> st1], e.x)
      ret == Fresh(ps.st)
      tt == Declared(e.ann, Taken(ps.st))
      st2 == popScope(Validated(Taken(Taken(ps.st)), e.ann))
      st3 == IF tt = NilType THEN st2
             ELSE AddCheck(addConstraint(st2, ret, tt, "return annotation"), "return", ret, tt)
      fn == FnType(ps.ts, ret, Variadic(e.x), MinArgs(e.x), MaxArgs(e.x))
  IN  R(fn, bind(st3, e.name, fn))

-----------------------------------------------------------------------------
(* Expressions and statements                                              *)

inferList(e, st) ==
  LET r == inferAll(e.sub, st)
      same == \A i \in DOMAIN r.ts : typeSig(r.ts[i], r.st.parent) = typeSig(r.ts[1], r.st.parent)
  IN  R(ListType(IF r.ts # <<>> /\ same THEN r.ts[1] ELSE AnyType), r.st)

inferStructInit(e, st) ==
  LET schema == inferExpr(e.sub[1], st)
      name == e.sub[1].name
      fields == IF name \in DOMAIN st.schemas THEN st.schemas[name] ELSE NoNames
      one(s, i) == LET v == inferExpr(e.sub[i + 1], s) IN
                   IF e.x[i] \in DOMAIN fields
                   THEN addConstraint(v.st, v.t, fields[e.x[i]], "struct field") ELSE v.st
  IN  R(Named("struct", name),
        FoldLeft(one, addConstraint(schema.st, schema.t, Ty("struct"), "struct schema"),
                 [i \in DOMAIN e.x |-> i]))

inferDefer(e, st) ==
  LET handler == e.x[1] = "onerror" /\ e.name # ""
      r == inferExpr(e.sub[1], IF handler THEN bind(pushScope(st), e.name, AnyType) ELSE st)
  IN  R(Ty("nil"), IF handler THEN popScope(r.st) ELSE r.st)

inferExpr(e, st) ==
  LET subs == inferAll(e.sub, st) IN
  CASE e.k \in {"num", "str", "bytes", "bool", "nil", "sym"} -> R(Ty(e.k), st)
    [] e.k = "id" -> IF lookup(e.name, st) # NilType THEN R(lookup(e.name, st), st)
                     ELSE R(Fresh(st), bind(Taken(st), e.name, Fresh(st)))
    [] e.k = "list" -> inferList(e, st)
    [] e.k = "map" -> R(MapType(AnyType, AnyType), subs.st)
    [] e.k = "prefix" -> inferPrefix(e, st)
    [] e.k = "infix" -> inferInfix(e, st)
    [] e.k = "if" -> inferIf(e, st)
    [] e.k = "fn" -> inferFunctionLiteral(e, st)
    [] e.k = "typeapp" -> inferTypeApplication(e, st)
    [] e.k = "call" -> inferCall(e, st)
    [] e.k \in {"named", "spread", "return"} -> R(subs.ts[1], subs.st)
    [] e.k \in {"index", "recur"} -> FreshR(subs.st)
    [] e.k = "schema" -> R(Named("struct", "schema"), st)
    [] e.k = "init" -> inferStructInit(e, st)
    [] e.k = "copy" -> R(subs.ts[1], subs.st)
    [] e.k \in {"val", "var"} -> inferDeclaration(e, st)
    [] e.k = "match" -> inferMatch(e, st)
    [] e.k = "select" -> inferSelect(e, st)
    [] e.k = "spawn" -> R(Ty("task"), subs.st)
    [] e.k = "block" -> inferBlock(e, st)
    [] e.k = "throw" -> R(AnyType, subs.st)
    [] e.k = "defer" -> inferDefer(e, st)
    [] e.k = "foreign" -> inferForeign(e, st)
    [] OTHER -> FreshR(st)

-----------------------------------------------------------------------------
(* A program: predeclare, infer every statement, solve                     *)

predeclareTopLevelCallables(prog, st) ==
  LET one(s, e) ==
        LET stand(name, params) ==
              LET ph == [FnType(<<>>, Fresh(s), FALSE, MinArgs(params), MaxArgs(params))
                           EXCEPT !.name = "placeholder"]
              IN  setOverride([Taken(s) EXCEPT !.scopes = PutTop(@, name, ph)], name, ph)
        IN  CASE e.k = "foreign" -> stand(e.name, e.x)
              [] e.k \in {"val", "var"} /\ e.sub[1].k = "fn" /\ e.x[1].k = "id" ->
                   stand(e.x[1].name, e.sub[1].x)
              [] OTHER -> s
  IN  FoldLeft(one, st, prog)

\* Constraints in the order they were made; a failed one is reported and
\* keeps what it had bound.  Then the deferred checks.
unifyAll(st) ==
  FoldLeft(LAMBDA s, c : LET u == unify(c.l, c.r, s.parent)
                         IN  DiagIf([s EXCEPT !.parent = u.parent], ~u.ok, c.why),
           st, st.cons)
CheckFails(c, st) ==
  CASE c.kind = "call" -> ~isCompatible(c.l, c.r, st.parent)
    [] c.kind = "return" ->
         ~isDeclaredCompatible(normalizedDeclaredReturnType(c.l, st.parent, Id1(st)), c.r, st.parent)
    [] c.kind = "+" -> ~isPlusCompatible(c.l, c.r, st.parent)
    [] c.kind = "*" -> ~isMulCompatible(c.l, c.r, st.parent)
    [] c.kind = "&" -> ~isBitwiseCompatible(c.l, c.r, st.parent)
solveConstraints(st) ==
  LET st1 == unifyAll(st) IN
  [st1 EXCEPT !.diags = @ \cup {st.checks[i].kind : i \in {j \in DOMAIN st.checks :
                                                            CheckFails(st.checks[j], st1)}}]

checkProgram(prog) ==
  LET inferred == FoldLeft(LAMBDA s, stmt : inferExpr(stmt, s).st,
                           predeclareTopLevelCallables(prog, newTypeChecker), prog)
  IN  solveConstraints(inferred)
=============================================================================
