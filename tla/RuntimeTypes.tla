---------------------------- MODULE RuntimeTypes ----------------------------
(***************************************************************************)
(* Declared types at run time (internal/vm/declared_type_runtime.go).      *)
(*                                                                         *)
(* A declared type is kept by the parser as raw text; here the text is a   *)
(* sequence of tokens.  The executor parses it on every call, infers what  *)
(* the type parameters stand for from the argument values, substitutes     *)
(* them in the declared result type and checks the result against it.      *)
(*                                                                         *)
(* A type (rtType) and a checker type (tnode, module Checker) are records  *)
(* of the same shape:                                                      *)
(*   k     kind                                                            *)
(*   name  of a struct or a type parameter                                 *)
(*   id    identity of an unknown or of a type parameter of the checker    *)
(*   sub   list: <<elem>>  map: <<key, val>>  tuple: elements              *)
(*         union: options  fn: <<ret, param1, ...>>, <<>> for a bare fn    *)
(*   lo,hi arity of a checker function; var: variadic; tps: its parameters *)
(***************************************************************************)
EXTENDS Integers, Sequences, FiniteSets, SequencesExt

Mk(k, name, id, sub, lo, hi, var, tps) ==
  [k |-> k, name |-> name, id |-> id, sub |-> sub, lo |-> lo, hi |-> hi,
   var |-> var, tps |-> tps]
Ty(k) == Mk(k, "", <<>>, <<>>, 0, 0, FALSE, <<>>)
Of(k, sub) == [Ty(k) EXCEPT !.sub = sub]
Named(k, name) == [Ty(k) EXCEPT !.name = name]
NilType == Ty("nilnode")        \* Go's nil *rtType / *tnode
AnyType == Ty("any")
OrElse(t, default) == IF t = NilType THEN default ELSE t

Openers == {"<", "[", "("}
Closers == {">", "]", ")"}

-----------------------------------------------------------------------------
(* Parsing a declared type                                                 *)

\* Bracket depths after a token; a closing bracket never takes one below 0.
Deeper(d, tok) ==
  CASE tok = "<" -> [d EXCEPT !.a = @ + 1]
    [] tok = "[" -> [d EXCEPT !.b = @ + 1]
    [] tok = "(" -> [d EXCEPT !.p = @ + 1]
    [] tok = ">" /\ d.a > 0 -> [d EXCEPT !.a = @ - 1]
    [] tok = "]" /\ d.b > 0 -> [d EXCEPT !.b = @ - 1]
    [] tok = ")" /\ d.p > 0 -> [d EXCEPT !.p = @ - 1]
    [] OTHER -> d
Flat == [a |-> 0, b |-> 0, p |-> 0]
DepthBefore(s, i) == FoldLeft(Deeper, Flat, SubSeq(s, 1, i - 1))

\* The separators of s that are inside no bracket, and the parts between.
TopLevel(s, sep) == {i \in 1..Len(s) : s[i] = sep /\ DepthBefore(s, i) = Flat}
Between(s, ends) ==
  [i \in 1..(Len(ends) - 1) |-> SubSeq(s, ends[i] + 1, ends[i + 1] - 1)]
splitTypeTopLevel(s, sep) ==
  Between(s, SetToSortSeq(TopLevel(s, sep) \cup {0, Len(s) + 1}, <))

\* head<...> with its closing bracket last, and what is between the brackets.
Wraps(s, head) == Len(s) >= 3 /\ s[1] = head /\ s[2] = "<" /\ s[Len(s)] = ">"
Inner(s) == SubSeq(s, 3, Len(s) - 1)
Bracketed(s) == Len(s) >= 2 /\ s[1] = "[" /\ s[Len(s)] = "]"

Symbols == Openers \cup Closers \cup {"|", ","}
ScalarName(tok) ==
  CASE tok = "?" -> "any" [] tok = "symbol" -> "sym" [] OTHER -> tok
BareNames == {"any", "?", "nil", "bool", "num", "str", "bytes", "sym", "symbol", "task", "chan"}

RECURSIVE parseRuntimeDeclaredType(_, _)
\* Parts of a type: one that is not understood reads as any, and an option of
\* a union that is not understood is left out.
ParseEach(parts, typeParams) ==
  [i \in DOMAIN parts |-> OrElse(parseRuntimeDeclaredType(parts[i], typeParams), AnyType)]
ParseOptions(parts, typeParams) ==
  SelectSeq([i \in DOMAIN parts |-> parseRuntimeDeclaredType(parts[i], typeParams)],
            LAMBDA t : t # NilType)
UnionOf(options) == IF options = <<>> THEN NilType ELSE Of("union", options)
MapOfTwo(types) == Of("map", IF Len(types) = 2 THEN types ELSE <<AnyType, AnyType>>)
parseRuntimeDeclaredType(s, typeParams) ==
  LET list(x) == ParseEach(splitTypeTopLevel(x, ","), typeParams)
  IN  CASE s = <<>> -> NilType
        [] TopLevel(s, "|") # {} -> UnionOf(ParseOptions(splitTypeTopLevel(s, "|"), typeParams))
        [] Bracketed(s) ->
             IF Len(s) = 2 THEN Ty("tuple") ELSE Of("tuple", list(SubSeq(s, 2, Len(s) - 1)))
        [] Wraps(s, "list") -> Of("list", ParseEach(<<Inner(s)>>, typeParams))
        [] Wraps(s, "map") -> MapOfTwo(list(Inner(s)))
        [] Wraps(s, "chan") -> Ty("chan")
        [] Wraps(s, "task") -> Ty("task")
        [] Wraps(s, "fn") -> Of("fn", list(Inner(s)))
        [] Wraps(s, "struct") ->
             Named("struct", IF Len(Inner(s)) = 1 THEN Inner(s)[1] ELSE "")
        [] Len(s) = 1 /\ s[1] \in BareNames -> Ty(ScalarName(s[1]))
        [] s = <<"list">> -> Of("list", <<AnyType>>)
        [] s = <<"map">> -> Of("map", <<AnyType, AnyType>>)
        [] s = <<"fn">> -> Ty("fn")
        [] s = <<"struct">> -> Ty("struct")
        [] Len(s) = 1 /\ s[1] \in typeParams -> Named("typeparam", s[1])
        [] Len(s) = 1 /\ s[1] \notin Symbols -> Named("struct", s[1])
        [] OTHER -> NilType

-----------------------------------------------------------------------------
(* Values: k as in types, n the number or the boolean (0, 1), name the text  *)
(* of a string or a symbol or the schema of a struct, sub the elements of a  *)
(* list, the bytes, or the keys and values of a map in turn, fn the declared *)
(* type of a function ("fg" is a function group, which has none), env the    *)
(* environment a closure captured and x what else the object points to.      *)

Val(k) == [k |-> k, n |-> 0, name |-> "", sub |-> <<>>, fn |-> NilType, env |-> 0, x |-> <<>>]
ListOf(vs) == [Val("list") EXCEPT !.sub = vs]
MapOf(kvs) == [Val("map") EXCEPT !.sub = kvs]

\* The declared type of a function: no annotation reads as any.
runtimeDeclaredTypeFromVMFunction(params, ret, typeParams, variadic) ==
  [Of("fn", [i \in 1..(Len(params) + 1) |->
       OrElse(parseRuntimeDeclaredType(IF i = 1 THEN ret ELSE params[i - 1], typeParams), AnyType)])
     EXCEPT !.var = variadic]
FnOf(params, ret, typeParams, variadic) ==
  [Val("fn") EXCEPT
     !.fn = runtimeDeclaredTypeFromVMFunction(params, ret, typeParams, variadic)]

Pairwise(P(_, _), s, t) == Len(s) = Len(t) /\ \A i \in DOMAIN s : P(s[i], t[i])

\* Is a function of type actual acceptable where expected is declared?
\* (kinds are compared before the union case is reached)
RECURSIVE runtimeDeclaredTypeCompatible(_, _)
runtimeDeclaredTypeCompatible(actual, expected) ==
  \/ expected.k \in {"nilnode", "any", "typeparam"}
  \/ actual.k \in {"nilnode", "any", "typeparam"}
  \/ /\ actual.k = expected.k
     /\ CASE expected.k = "union" ->
               \E i \in DOMAIN expected.sub : runtimeDeclaredTypeCompatible(actual, expected.sub[i])
          [] expected.k = "fn" ->
               \/ expected.sub = <<>>
               \/ /\ actual.var = expected.var
                  /\ \/ actual.sub = <<>> /\ Len(expected.sub) = 1
                     \/ Pairwise(runtimeDeclaredTypeCompatible, actual.sub, expected.sub)
          [] expected.k \in {"list", "tuple", "map"} ->
               Pairwise(runtimeDeclaredTypeCompatible, actual.sub, expected.sub)
          [] expected.k = "struct" -> "" \in {expected.name, actual.name}
                                        \/ actual.name = expected.name
          [] OTHER -> TRUE

RECURSIVE runtimeObjectMatchesDeclaredType(_, _)
runtimeObjectMatchesDeclaredType(v, t) ==
  LET matches(x, y) == runtimeObjectMatchesDeclaredType(x, y) IN
  CASE t.k \in {"nilnode", "any", "typeparam"} -> TRUE
    [] t.k = "union" -> \E i \in DOMAIN t.sub : matches(v, t.sub[i])
    [] t.k = "list" -> v.k = "list" /\ \A i \in DOMAIN v.sub : matches(v.sub[i], t.sub[1])
    [] t.k = "tuple" -> v.k = "list" /\ Pairwise(matches, v.sub, t.sub)
    [] t.k = "map" -> v.k = "map" /\ \A i \in DOMAIN v.sub :
                         matches(v.sub[i], t.sub[IF i % 2 = 1 THEN 1 ELSE 2])
    [] t.k = "fn" -> /\ v.k \in {"fn", "fg"}
                     /\ runtimeDeclaredTypeCompatible(IF v.k = "fg" THEN Ty("fn") ELSE v.fn, t)
    [] t.k = "struct" -> v.k = "struct" /\ t.name \in {"", v.name}
    [] OTHER -> v.k = t.k

-----------------------------------------------------------------------------
(* The type of a value, and the inference of type parameters               *)

\* Mutant: the first element speaks for all.
FirstTypeOnly(types) == IF types = <<>> THEN AnyType ELSE types[1]
runtimeRuntimeTypeUnion(types) ==
  LET uniq == ToSet(types) IN
  CASE uniq = {} -> AnyType
    [] Cardinality(uniq) = 1 -> types[1]
    [] OTHER -> Of("union", SetToSeq(uniq))

TupleLimit == 4     \* longer mixed lists get a list of a union

RECURSIVE runtimeTypeFromObject(_)
runtimeTypeFromObject(v) ==
  LET types == [i \in DOMAIN v.sub |-> runtimeTypeFromObject(v.sub[i])]
      half(r) == SelectSeq([i \in DOMAIN types |-> [odd |-> i % 2, t |-> types[i]]],
                           LAMBDA p : p.odd = r)
      of(r) == [i \in DOMAIN half(r) |-> half(r)[i].t]
  IN CASE v.k = "list" ->
            (CASE types = <<>> -> Of("list", <<AnyType>>)
               [] Cardinality(ToSet(types)) = 1 -> Of("list", <<types[1]>>)
               [] Len(types) <= TupleLimit -> Of("tuple", types)
               [] OTHER -> Of("list", <<runtimeRuntimeTypeUnion(types)>>))
       [] v.k = "map" ->
            IF types = <<>> THEN Of("map", <<AnyType, AnyType>>)
            ELSE Of("map", <<runtimeRuntimeTypeUnion(of(1)), runtimeRuntimeTypeUnion(of(0))>>)
       [] v.k = "fn" -> v.fn
       [] v.k = "fg" -> Ty("fn")
       [] v.k = "struct" -> Named("struct", v.name)
       [] OTHER -> Ty(v.k)

\* bindings as a function from some type parameters to types; Fail when the
\* actual type does not fit.
Fail == [n \in {"fail"} |-> NilType]
Bind(b, name, t) == [n \in DOMAIN b \cup {name} |-> IF n = name THEN t ELSE b[n]]

RECURSIVE inferRuntimeTypeBindings(_, _, _)
inferRuntimeTypeBindings(expected, actual, b) ==
  LET infer(e, a, acc) == IF acc = Fail THEN Fail ELSE inferRuntimeTypeBindings(e, a, acc)
      inOrder(es, as) ==
        FoldLeft(LAMBDA acc, i : infer(es[i], as[i], acc), b, [i \in 1..Len(es) |-> i])
      good == {i \in DOMAIN expected.sub : infer(expected.sub[i], actual, b) # Fail}
      agree(t, u) == runtimeDeclaredTypeCompatible(t, u) /\ runtimeDeclaredTypeCompatible(u, t)
      \* the result type of a function is inferred after its parameters
      retLast(s) == Append(Tail(s), Head(s))
  IN CASE "nilnode" \in {expected.k, actual.k} -> b
       [] expected.k = "typeparam" ->
            IF expected.name \notin DOMAIN b THEN Bind(b, expected.name, actual)
            ELSE IF agree(actual, b[expected.name]) THEN b ELSE Fail
       [] actual.k = "typeparam" -> b
       [] expected.k = "union" ->
            IF good = {} THEN Fail
            ELSE infer(expected.sub[CHOOSE i \in good : \A j \in good : i <= j], actual, b)
       [] actual.k = "union" \/ expected.k # actual.k -> Fail
       [] expected.k \in {"list", "map"} -> inOrder(expected.sub, actual.sub)
       [] expected.k = "tuple" ->
            IF Len(expected.sub) = Len(actual.sub) THEN inOrder(expected.sub, actual.sub) ELSE Fail
       [] expected.k = "fn" ->
            CASE actual.var # expected.var -> Fail
              [] {expected.sub, actual.sub} \cap {<<>>} # {} ->
                   IF Len(expected.sub) <= 1 /\ Len(actual.sub) <= 1 THEN b ELSE Fail
              [] Len(expected.sub) # Len(actual.sub) -> Fail
              [] OTHER -> inOrder(retLast(expected.sub), retLast(actual.sub))
       [] expected.k = "struct" ->
            IF "" \in {expected.name, actual.name} \/ expected.name = actual.name THEN b ELSE Fail
       [] OTHER -> b

RECURSIVE substituteRuntimeDeclaredType(_, _)
substituteRuntimeDeclaredType(t, b) ==
  CASE t.k = "typeparam" -> IF t.name \in DOMAIN b THEN b[t.name] ELSE t
    [] t.k \in {"union", "list", "tuple", "map", "fn"} ->
         [t EXCEPT !.sub = [i \in DOMAIN t.sub |-> substituteRuntimeDeclaredType(t.sub[i], b)]]
    [] OTHER -> t

\* Arguments are taken in order; one that does not fit leaves no trace.
Unless(trial, b) == IF trial = Fail THEN b ELSE trial
Tried(b, expected, value) ==
  IF expected = NilType THEN b
  ELSE Unless(inferRuntimeTypeBindings(expected, runtimeTypeFromObject(value), b), b)
runtimeTypeBindingsFromCall(params, typeParams, values) ==
  FoldLeft(LAMBDA b, i :
             IF i > Len(values) THEN b
             ELSE Tried(b, parseRuntimeDeclaredType(params[i], typeParams), values[i]),
           <<>>, [i \in 1..Len(params) |-> i])

InCall(expected, typeParams, params, values) ==
  IF expected = NilType \/ params = <<>> \/ values = <<>> THEN expected
  ELSE substituteRuntimeDeclaredType(
         expected, runtimeTypeBindingsFromCall(params, typeParams, values))
runtimeDeclaredTypeForCall(returnType, typeParams, params, values) ==
  InCall(parseRuntimeDeclaredType(returnType, typeParams), typeParams, params, values)

\* Does the executor let a call with this signature return result?
ReturnAccepted(returnType, typeParams, params, values, result) ==
  \/ returnType = <<>>
  \/ \E expected \in {runtimeDeclaredTypeForCall(returnType, typeParams, params, values)} :
       runtimeObjectMatchesDeclaredType(result, expected)
=============================================================================
