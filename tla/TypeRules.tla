----------------------------- MODULE TypeRules -----------------------------
(***************************************************************************)
(* The types of the semantic checker and the relations between them        *)
(* (internal/semantic/typecheck.go): normal forms of unions, parsing of    *)
(* declared types, compatibility, unification, narrowing, and the operand  *)
(* rules of the operators.                                                 *)
(*                                                                         *)
(* Go's tnode is a mutable node; here a type is a term and the parent      *)
(* pointers of unknowns and type parameters are the function `parent` from *)
(* their ids, which are sequences of numbers: an operator that makes       *)
(* unknowns takes the prefix `fresh` of their ids.  Two nodes the code     *)
(* compares by address are compared as terms; every relation below holds   *)
(* of a term and itself, so the shortcut for one node changes nothing.     *)
(***************************************************************************)
EXTENDS RuntimeTypes, TLC

MaxUnionOptions == 8

NoNames == [x \in {} |-> NilType]      \* the empty map

Unknown(id) == [Ty("unknown") EXCEPT !.id = id]
TypeParam(name, id) == [Ty("typeparam") EXCEPT !.name = name, !.id = id]
ListType(e) == Of("list", <<e>>)
MapType(k, v) == Of("map", <<k, v>>)
FnType(params, ret, var, lo, hi) ==
  [Of("fn", <<ret>> \o params) EXCEPT !.var = var, !.lo = lo, !.hi = hi]
Params(fn) == IF fn.sub = <<>> THEN <<>> ELSE Tail(fn.sub)
Child(t, i) == IF i \in DOMAIN t.sub THEN t.sub[i] ELSE NilType
AnyFn(t) == t.hi = -1 /\ Params(t) = <<>>     \* what @fn and bare fn give

RECURSIVE find(_, _)
find(t, parent) ==
  IF t.k \in {"unknown", "typeparam"} /\ t.id \in DOMAIN parent
  THEN find(parent[t.id], parent) ELSE t

-----------------------------------------------------------------------------
(* Signatures: the text types are compared by.  typeSig does not tell       *)
(* unknowns apart, describe does; a function's signature uses describe for  *)
(* its parts and the other way round; describe sorts the options of unions. *)

RECURSIVE typeSig(_, _), describe(_, _)
typeSig(t, parent) ==
  LET f == find(t, parent) IN
  CASE f.k \in {"list", "tuple", "map", "union"} ->
         Of(f.k, [i \in DOMAIN f.sub |-> typeSig(f.sub[i], parent)])
    [] f.k = "fn" -> Of("fn", [i \in DOMAIN f.sub |-> describe(f.sub[i], parent)])
    [] OTHER -> Named(f.k, f.name)
describe(t, parent) ==
  LET f == find(t, parent) IN
  CASE f.k \in {"list", "tuple", "map"} ->
         Of(f.k, [i \in DOMAIN f.sub |-> describe(f.sub[i], parent)])
    [] f.k = "union" ->
         Of("union", SetToSeq({describe(f.sub[i], parent) : i \in DOMAIN f.sub}))
    [] f.k = "fn" -> Of("fn", [i \in DOMAIN f.sub |-> typeSig(f.sub[i], parent)])
    [] f.k = "unknown" -> Unknown(f.id)
    [] OTHER -> Named(f.k, f.name)

-----------------------------------------------------------------------------
(* Unions                                                                  *)

\* options without those whose signature came before
Dedup(ts, parent) ==
  FoldLeft(LAMBDA acc, t :
             IF \E i \in DOMAIN acc : typeSig(acc[i], parent) = typeSig(t, parent)
             THEN acc ELSE Append(acc, t), <<>>, ts)

RECURSIVE Options(_, _)
Options(t, parent) ==
  LET f == find(t, parent) IN
  CASE f.k \in {"nilnode", "never"} -> <<>>
    [] f.k = "union" -> FlattenSeq([i \in DOMAIN f.sub |-> Options(f.sub[i], parent)])
    [] OTHER -> <<f>>

\* All list options become one list of the union of their elements, all map
\* options one map; both go to the end.
RECURSIVE unionType(_, _, _)
mergeUnionFamilies(options, parent, fresh) ==
  LET family(k) == SelectSeq(options, LAMBDA t : t.k = k)
      joined(k, i) ==
        LET parts == [j \in DOMAIN family(k) |-> Child(family(k)[j], i)]
        IN  IF Len(parts) = 1 THEN OrElse(parts[1], Unknown(Append(fresh, i)))
            ELSE unionType(parts, parent, Append(fresh, i))
      merged(k, n) == IF family(k) = <<>> THEN <<>>
                      ELSE <<Of(k, [i \in 1..n |-> joined(k, i)])>>
  IN  IF Len(options) < 2 THEN options
      ELSE SelectSeq(options, LAMBDA t : t.k \notin {"list", "map"})
             \o merged("list", 1) \o merged("map", 2)
unionType(types, parent, fresh) ==
  LET flat == Dedup(FlattenSeq([i \in DOMAIN types |-> Options(types[i], parent)]), parent)
      opts == mergeUnionFamilies(flat, parent, fresh)
  IN  CASE \E i \in DOMAIN flat : flat[i].k = "any" -> AnyType
        [] opts = <<>> -> Unknown(fresh)
        [] Len(opts) = 1 -> opts[1]
        [] Len(opts) > MaxUnionOptions -> AnyType
        [] OTHER -> Of("union", opts)

-----------------------------------------------------------------------------
(* Declared types                                                          *)

RECURSIVE parseDeclaredType(_, _, _)
parseDeclaredType(s, generics, fresh) ==
  LET each(parts) == [i \in DOMAIN parts |->
                        OrElse(parseDeclaredType(parts[i], generics, Append(fresh, i)),
                               Unknown(Append(fresh, i)))]
      options == splitTypeTopLevel(s, "|")
      args == splitTypeTopLevel(Inner(s), ",")
      known == SelectSeq([i \in DOMAIN options |->
                            parseDeclaredType(options[i], generics, Append(fresh, i))],
                         LAMBDA t : t # NilType)
  IN  CASE s = <<>> -> NilType
        [] Len(options) > 1 ->
             IF known = <<>> THEN NilType ELSE unionType(known, NoNames, fresh)
        [] Wraps(s, "list") -> IF Len(args) = 1 THEN Of("list", each(<<Inner(s)>>)) ELSE NilType
        [] Bracketed(s) ->
             IF Len(s) = 2 THEN Ty("tuple")
             ELSE Of("tuple", each(splitTypeTopLevel(SubSeq(s, 2, Len(s) - 1), ",")))
        [] Wraps(s, "map") -> IF Len(args) = 2 THEN Of("map", each(args)) ELSE NilType
        [] Wraps(s, "chan") -> Ty("chan")
        [] Wraps(s, "task") -> Ty("task")
        [] Wraps(s, "fn") ->
             FnType(Tail(each(args)), each(args)[1], FALSE, Len(args) - 1, Len(args) - 1)
        [] Wraps(s, "struct") ->
             Named("struct", IF Len(Inner(s)) = 1 THEN Inner(s)[1] ELSE "")
        [] Len(s) = 1 /\ s[1] \in BareNames -> Ty(ScalarName(s[1]))
        [] s = <<"list">> -> ListType(Unknown(Append(fresh, 1)))
        [] s = <<"map">> -> MapType(Unknown(Append(fresh, 1)), Unknown(Append(fresh, 2)))
        [] s = <<"fn">> -> FnType(<<>>, Unknown(Append(fresh, 1)), FALSE, 0, -1)
        [] s = <<"struct">> -> Ty("struct")
        [] Len(s) = 1 /\ s[1] \in DOMAIN generics -> generics[s[1]]
        [] Len(s) = 1 /\ s[1] \notin Symbols -> Named("struct", s[1])
        [] OTHER -> NilType

\* The complaints about an annotation's shape (only its outermost level).
validateDeclaredTypeShape(s) ==
  LET args == splitTypeTopLevel(Inner(s), ",") IN
  \/ Wraps(s, "list") /\ Len(args) # 1
  \/ Wraps(s, "map") /\ Len(args) # 2

RECURSIVE typeAllowsNil(_, _)
typeAllowsNil(t, parent) ==
  LET f == find(t, parent) IN
  \/ f.k \in {"nilnode", "any", "unknown", "nil"}
  \/ f.k = "union" /\ \E i \in DOMAIN f.sub : typeAllowsNil(f.sub[i], parent)

\* fn<> and chan<> need arguments that parse; a channel's payload allows nil.
validateSpecialDeclaredType(s, generics, fresh) ==
  LET args == splitTypeTopLevel(Inner(s), ",")
      payload == parseDeclaredType(Inner(s), generics, fresh)
  IN  \/ /\ Wraps(s, "fn")
         /\ \E i \in DOMAIN args : parseDeclaredType(args[i], generics, fresh) = NilType
      \/ Wraps(s, "chan") /\ (payload = NilType \/ ~typeAllowsNil(payload, NoNames))

RECURSIVE typeMayBeNilConcretely(_, _)
typeMayBeNilConcretely(t, parent) ==
  LET f == find(t, parent)
      opts == {find(f.sub[i], parent) : i \in DOMAIN f.sub}
  IN  \/ f.k = "nil"
      \/ /\ f.k = "union"
         /\ \A o \in opts : o.k \notin {"unknown", "any"}
         /\ \E o \in opts : typeMayBeNilConcretely(o, parent)

cloneScalarTagType(tag, fresh) ==
  CASE tag \in {"bool", "num", "str", "bytes", "sym", "task", "chan", "struct"} -> Ty(tag)
    [] tag = "list" -> ListType(Unknown(Append(fresh, 1)))
    [] tag = "map" -> MapType(Unknown(Append(fresh, 1)), Unknown(Append(fresh, 2)))
    [] tag = "fn" -> FnType(<<>>, Unknown(Append(fresh, 1)), FALSE, 0, -1)
    [] OTHER -> NilType

-----------------------------------------------------------------------------
(* Compatibility                                                           *)

\* A function's result type is compared without its nil option.
normalizedDeclaredReturnType(t, parent, fresh) ==
  LET f == find(t, parent)
      rest == SelectSeq(f.sub, LAMBDA o : find(o, parent).k # "nil")
  IN  IF f.k # "union" \/ rest = <<>> \/ Len(rest) = Len(f.sub) THEN f
      ELSE unionType(rest, parent, fresh)

\* strict: nil is compatible with nil and with nothing else.
RECURSIVE Compatible(_, _, _, _)
Compatible(strict, got, expected, parent) ==
  LET g == find(got, parent)
      e == find(expected, parent)
      ok(x, y) == Compatible(strict, x, y, parent)
      ret(t) == normalizedDeclaredReturnType(Child(t, 1), parent, <<>>)
      has(ks) == g.k \in ks \/ e.k \in ks
  IN  CASE has({"nilnode", "never", "any", "unknown"}) \/ g = e -> TRUE
        [] has({"typeparam"}) -> ~has({"nil"})
        [] g.k = "union" -> \A i \in DOMAIN g.sub : ok(g.sub[i], e)
        [] e.k = "union" -> \E i \in DOMAIN e.sub : ok(g, e.sub[i])
        [] has({"nil"}) -> strict => g.k = e.k
        [] g.k = "tuple" /\ e.k = "list" -> \A i \in DOMAIN g.sub : ok(g.sub[i], Child(e, 1))
        [] g.k = "list" /\ e.k = "tuple" -> \A i \in DOMAIN e.sub : ok(Child(g, 1), e.sub[i])
        [] g.k # e.k -> FALSE
        [] g.k \in {"list", "map"} -> \A i \in 1..2 : ok(Child(g, i), Child(e, i))
        [] g.k = "tuple" -> Pairwise(ok, g.sub, e.sub)
        [] g.k = "fn" -> \/ AnyFn(g) \/ AnyFn(e)
                         \/ /\ g.var = e.var
                            /\ Pairwise(ok, Params(g), Params(e))
                            /\ ok(ret(g), ret(e))
        [] g.k = "struct" -> "" \in {g.name, e.name} \/ g.name = e.name
        [] OTHER -> TRUE
isCompatible(got, expected, parent) == Compatible(FALSE, got, expected, parent)
isDeclaredCompatible(got, expected, parent) == Compatible(TRUE, got, expected, parent)

-----------------------------------------------------------------------------
(* Unification: whether it succeeds and the parents it leaves              *)

Yes(parent) == [ok |-> TRUE, parent |-> parent]
No(parent) == [ok |-> FALSE, parent |-> parent]
bindUnknown(u, target, parent) ==
  IF u.id = target.id /\ u.k = target.k THEN Yes(parent) ELSE Yes((u.id :> target) @@ parent)

RECURSIVE unify(_, _, _)
unify(x, y, parent) ==
  LET a == find(x, parent)
      b == find(y, parent)
      has(ks) == a.k \in ks \/ b.k \in ks
      \* left to right, stopping at the first failure; bindings stay
      all(ps) == FoldLeft(LAMBDA r, p : IF r.ok THEN unify(p[1], p[2], r.parent) ELSE r,
                          Yes(parent), ps)
      pairs(s, t) == IF Len(s) = Len(t) THEN all([i \in DOMAIN s |-> <<s[i], t[i]>>])
                     ELSE No(parent)
      ret(t, p) == normalizedDeclaredReturnType(Child(t, 1), p, <<>>)
      params == pairs(Params(a), Params(b))
      some(s, P(_)) == [ok |-> \E i \in DOMAIN s : P(s[i]), parent |-> parent]
  IN  CASE has({"nilnode", "never", "any"}) \/ a = b -> Yes(parent)
        [] has({"typeparam"}) /\ has({"nil"}) -> No(parent)
        [] a.k = "union" -> some(a.sub, LAMBDA o : isCompatible(o, b, parent))
        [] b.k = "union" -> some(b.sub, LAMBDA o : isCompatible(a, o, parent))
        [] has({"nil"}) -> Yes(parent)
        [] a.k = "unknown" -> bindUnknown(a, b, parent)
        [] b.k = "unknown" -> bindUnknown(b, a, parent)
        [] a.k = "typeparam" -> bindUnknown(a, b, parent)
        [] b.k = "typeparam" -> bindUnknown(b, a, parent)
        [] a.k = "tuple" /\ b.k = "list" -> all([i \in DOMAIN a.sub |-> <<a.sub[i], Child(b, 1)>>])
        [] a.k = "list" /\ b.k = "tuple" -> all([i \in DOMAIN b.sub |-> <<Child(a, 1), b.sub[i]>>])
        [] a.k # b.k -> No(parent)
        [] a.k \in {"list", "map"} -> all([i \in 1..2 |-> <<Child(a, i), Child(b, i)>>])
        [] a.k = "tuple" -> pairs(a.sub, b.sub)
        [] a.k = "fn" ->
             CASE AnyFn(a) \/ AnyFn(b) -> Yes(parent)
               [] a.var # b.var -> No(parent)
               [] ~params.ok -> params
               [] OTHER -> unify(ret(a, params.parent), ret(b, params.parent), params.parent)
        [] a.k = "struct" /\ "" \notin {a.name, b.name} /\ a.name # b.name -> No(parent)
        [] OTHER -> Yes(parent)

-----------------------------------------------------------------------------
(* Operand rules of +, * and the bitwise operators on solved types         *)

Accepts(op, j, k) ==
  CASE op = "+" -> "str" \in {j, k} \/ (j = k /\ j \in {"num", "list", "bytes"})
    [] op = "*" -> j \in {"str", "num"} /\ k = "num"
    [] op = "&" -> {j, k} \subseteq {"num", "bytes"}
RECURSIVE Operands(_, _, _, _)
Operands(op, left, right, parent) ==
  LET l == find(left, parent)
      r == find(right, parent)
  IN  CASE {l.k, r.k} \cap {"nilnode", "never", "any", "unknown"} # {} -> TRUE
        [] l.k = "union" -> \A i \in DOMAIN l.sub : Operands(op, l.sub[i], r, parent)
        [] r.k = "union" -> \A i \in DOMAIN r.sub : Operands(op, l, r.sub[i], parent)
        [] OTHER -> Accepts(op, l.k, r.k)
isPlusCompatible(l, r, parent) == Operands("+", l, r, parent)
isMulCompatible(l, r, parent) == Operands("*", l, r, parent)
isBitwiseCompatible(l, r, parent) == Operands("&", l, r, parent)

-----------------------------------------------------------------------------
(* Narrowing by guards                                                     *)

RECURSIVE matchesRefinementTarget(_, _, _)
matchesRefinementTarget(candidate, target, parent) ==
  LET c == find(candidate, parent)
      t == find(target, parent)
      m(x, y) == matchesRefinementTarget(x, y, parent)
      orOpen(i) == Child(t, i) = NilType \/ m(Child(c, i), Child(t, i))
  IN  CASE "nilnode" \in {c.k, t.k} -> FALSE
        [] t.k = "union" -> \E i \in DOMAIN t.sub : m(c, t.sub[i])
        [] t.k \in {"any", "unknown"} -> TRUE
        [] c.k # t.k -> FALSE
        [] t.k = "struct" -> t.name \in {"", c.name}
        [] t.k = "list" -> orOpen(1)
        [] t.k = "map" -> orOpen(1) /\ orOpen(2)
        [] t.k = "tuple" -> Pairwise(m, c.sub, t.sub)
        [] t.k = "fn" -> \/ AnyFn(t)
                         \/ Pairwise(m, Params(c), Params(t)) /\ m(Child(c, 1), Child(t, 1))
        [] t.k = "typeparam" -> c = t
        [] OTHER -> TRUE

\* The part of base inside (intersect) or outside (exclude) the target;
\* NilType when there is none.
Filtered(base, target, inside, parent, fresh) ==
  LET b == find(base, parent)
      kept(o) == matchesRefinementTarget(o, target, parent) = inside
      opts == SelectSeq(b.sub, kept)
  IN  CASE b.k # "union" -> IF kept(b) THEN b ELSE NilType
        [] opts = <<>> -> NilType
        [] OTHER -> unionType(opts, parent, fresh)
intersectType(base, target, parent, fresh) ==
  LET b == find(base, parent)
      t == find(target, parent)
  IN  CASE b.k \in {"any", "unknown"} -> t
        [] t.k \in {"any", "unknown"} -> b
        [] OTHER -> Filtered(b, t, TRUE, parent, fresh)
excludeType(base, target, parent, fresh) ==
  LET b == find(base, parent) IN
  IF b.k \in {"any", "unknown"} THEN b
  ELSE Filtered(b, target, FALSE, parent, fresh)
=============================================================================
