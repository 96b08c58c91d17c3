-------------------------------- MODULE Calls --------------------------------
(***************************************************************************)
(* Calls: signatures, the choice of an overload and the binding of         *)
(* arguments to parameters (internal/vm/executor.go,                       *)
(* internal/vm/call_context.go, internal/object/object.go).                *)
(*                                                                         *)
(* A parameter is [name, var, def, tag]: def is <<>> or <<default>>, tag   *)
(* the type tag without its @ ("" for none).  A member of a function group *)
(* is [sig, fn], where fn.x[1] has the parameters and fn.k is "fn" for a   *)
(* function of the program and "foreign" for one of the host.  Go walks a  *)
(* group's map in any order: a group is a sequence in that order.          *)
(***************************************************************************)
EXTENDS Values

CONSTANT MaxInt      \* stands for math.MaxInt, above every number of arguments
ASSUME MaxIntAssumption == MaxInt \in Nat

NoArgs == [x \in {} |-> Nil]       \* no named arguments

-----------------------------------------------------------------------------
(* Signatures                                                              *)

Variadic(params) == params # <<>> /\ params[Len(params)].var
signatureOf(params) ==
  LET fixed == IF Variadic(params) THEN Len(params) - 1 ELSE Len(params)
      required == {i \in 1..fixed : params[i].def = <<>>}
  IN  [tags |-> [i \in DOMAIN params |-> params[i].tag],
       min |-> IF required = {} THEN 0 ELSE Max(required),
       max |-> IF Variadic(params) THEN MaxInt ELSE Len(params),
       var |-> Variadic(params)]

\* The length of a signature's tag text, "@num||@str|" for <<"num", "", "str">>.
signatureSpecificity(sig) ==
  FoldLeft(LAMBDA n, t : n + (IF t = "" THEN 1 ELSE Len(t) + 2), 0, sig.tags)

\* The order of the text "min|max|variadic|tags" that breaks the last ties.
\* Every other name is a struct's: an identifier that is no built-in type.
TagText == <<"bool", "bytes", "chan", "fn", "list", "map", "num", "struct(Order)",
             "struct(Person)", "struct(T)", "struct(User)", "struct(any)", "struct(nil)",
             "struct", "str", "sym", "task", "">>
TagRank(t) == CHOOSE i \in DOMAIN TagText : TagText[i] = t
signatureKey(sig) ==
  <<sig.min, sig.max, IF sig.var THEN 1 ELSE 0>> \o [i \in DOMAIN sig.tags |-> TagRank(sig.tags[i])]
RECURSIVE KeyLess(_, _)
KeyLess(a, b) ==
  CASE b = <<>> -> FALSE
    [] a = <<>> -> TRUE
    [] OTHER -> a[1] < b[1] \/ (a[1] = b[1] /\ KeyLess(Tail(a), Tail(b)))

-----------------------------------------------------------------------------
(* The choice of an overload                                               *)

\* What a parameter would receive; <<>> when the call gives it nothing.
vmParamValue(i, params, positional, named) ==
  CASE params[i].name \in DOMAIN named -> <<named[params[i].name]>>
    [] i <= Len(positional) -> <<positional[i]>>
    [] i = Len(params) /\ Variadic(params) /\ Len(positional) >= Len(params) - 1 ->
         <<ListOf(SubSeq(positional, Len(params), Len(positional)))>>
    [] OTHER -> <<>>

IsStructTag(tag) == Len(tag) >= 6 /\ SubSeq(tag, 1, 6) = "struct"
TagName(tag) == IF IsStructTag(tag) THEN "struct" ELSE tag

\* TypeTags lists @struct among the plain tags: the schema is not looked at.
evaluateVMTagMatch(params, positional, named) ==
  LET given(i) == vmParamValue(i, params, positional, named)
      tested == {i \in DOMAIN params : params[i].tag # "" /\ given(i) # <<>>}
      matches(i) == LET v == given(i)[1] IN
                    \/ v.k \in {TagName(params[i].tag), "nil"}
                    \/ params[i].tag = "fn" /\ v.k = "fg"
  IN  IF \A i \in tested : matches(i) THEN Cardinality(tested) ELSE -1

\* The score the host side gives to the arguments bound to the parameters.
evaluateFunctionMatch(params, bound) ==
  LET tested == {i \in DOMAIN params : params[i].tag # "" /\ bound[i] # <<>>}
      score(i) ==
        LET v == bound[i][1]
            tag == params[i].tag
        IN  CASE v.k = "nil" -> 1
              [] IsStructTag(tag) /\ v.k \notin {"struct", "schema"} -> -1
              [] tag = "struct" -> 1
              [] IsStructTag(tag) -> IF tag = "struct(" \o v.name \o ")" THEN 2 ELSE -1
              [] v.k = tag \/ (tag = "fn" /\ v.k = "fg") -> 1
              [] OTHER -> -1
  IN  IF \E i \in tested : score(i) < 0 THEN -1
      ELSE FoldFunctionOnSet(+, 0, [i \in tested |-> score(i)], tested)

NoMatch == [found |-> FALSE, fn |-> Nil, max |-> MaxInt, score |-> -1, spec |-> -1, key |-> <<>>,
            fixed |-> FALSE]
\* Mutant: the first of two that are equally specific stays.
FirstStays(sig, score, best) ==
  LET tie == sig.max = best.max /\ score = best.score
      spec == signatureSpecificity(sig)
  IN  \/ score >= 0 /\ sig.max < best.max
      \/ sig.max = best.max /\ score > best.score
      \/ tie /\ ~best.fixed /\ ~sig.var
      \/ tie /\ best.fixed = ~sig.var /\ spec > best.spec
\* Does a member with this score replace the best so far?
Better(sig, score, best) ==
  LET tie == sig.max = best.max /\ score = best.score
      same == tie /\ best.fixed = ~sig.var
      spec == signatureSpecificity(sig)
  IN  \/ score >= 0 /\ sig.max < best.max
      \/ sig.max = best.max /\ score > best.score
      \/ tie /\ ~best.fixed /\ ~sig.var
      \/ same /\ spec > best.spec
      \/ same /\ spec = best.spec /\ (best.key = <<>> \/ KeyLess(signatureKey(sig), best.key))
Chosen(m, score) == [found |-> TRUE, fn |-> m.fn, max |-> m.sig.max, score |-> score,
                     spec |-> signatureSpecificity(m.sig), key |-> signatureKey(m.sig),
                     fixed |-> ~m.sig.var]
Takes(sig, n) == sig.min <= n /\ n <= sig.max
ParamsOf(fn) == fn.x[1].params
ArgCount(positional, named) == Len(positional) + Cardinality(DOMAIN named)

Considered(best, m, score) == IF Better(m.sig, score, best) THEN Chosen(m, score) ELSE best

\* The executor's choice: functions of the program only.
selectVMFunctionFromGroup(members, positional, named) ==
  LET scored(best, m, score) == IF score >= 0 THEN Considered(best, m, score) ELSE best
      consider(best, m) ==
        IF m.fn.k = "fn" /\ Takes(m.sig, ArgCount(positional, named))
        THEN scored(best, m, evaluateVMTagMatch(ParamsOf(m.fn), positional, named)) ELSE best
  IN  FoldLeft(consider, NoMatch, members)

-----------------------------------------------------------------------------
(* Binding.  Slots are <<>> or <<value>>; FAILS when the call is refused.   *)

FAILS == <<"refused">>

\* Named arguments name parameters; a variadic one takes a list.
NamesFit(params, named) ==
  \A n \in DOMAIN named : \E i \in DOMAIN params :
    params[i].name = n /\ (params[i].var => named[n].k = "list")
bindNamed(params, named) ==
  [i \in DOMAIN params |-> IF params[i].name \in DOMAIN named THEN <<named[params[i].name]>>
                           ELSE <<>>]

\* Mutant: what is left over is dropped, not refused.
DropsExtra(params, slots, positional) ==
  LET free == SetToSortSeq({i \in DOMAIN params : slots[i] = <<>> /\ ~params[i].var}, <) IN
  [i \in DOMAIN params |->
     CASE slots[i] # <<>> -> slots[i]
       [] params[i].var -> <<ListOf(SubSeq(positional, Len(free) + 1, Len(positional)))>>
       [] \E j \in DOMAIN free : free[j] = i /\ j <= Len(positional) ->
            <<positional[CHOOSE j \in DOMAIN free : free[j] = i]>>
       [] OTHER -> <<>>]
\* Positional arguments go to the free parameters from the left, the rest to
\* the variadic one, which takes nothing when it was given by name.
bindPositional(params, slots, positional) ==
  LET fixed == IF Variadic(params) THEN Len(params) - 1 ELSE Len(params)
      place(acc, i) ==
        IF acc.rest = <<>> \/ acc.slots[i] # <<>> THEN acc
        ELSE [slots |-> [acc.slots EXCEPT ![i] = <<Head(acc.rest)>>], rest |-> Tail(acc.rest)]
      placed == FoldLeft(place, [slots |-> slots, rest |-> positional], [i \in 1..fixed |-> i])
      last == Len(params)
  IN  CASE ~Variadic(params) -> IF placed.rest = <<>> THEN placed.slots ELSE FAILS
        [] slots[last] # <<>> -> IF placed.rest = <<>> THEN placed.slots ELSE FAILS
        [] OTHER -> [placed.slots EXCEPT ![last] = <<ListOf(placed.rest)>>]

\* The executor: what is missing afterwards is a default or an error.
bindVMArgumentsInto(params, positional, named) ==
  IF NamesFit(params, named)
  THEN bindPositional(params, bindNamed(params, named), positional) ELSE FAILS
Missing(params, slots) == {i \in DOMAIN params : slots[i] = <<>> /\ params[i].def = <<>>}

\* Dispatch on the host side: defaults stay open, a missing one is refused.
bindArgumentsForDispatch(params, positional, named) ==
  LET complete(slots) == IF slots = FAILS \/ Missing(params, slots) # {} THEN FAILS ELSE slots
  IN  complete(bindVMArgumentsInto(params, positional, named))

\* The call of a foreign function.  One of the runtime's own functions has no
\* parameters: it takes the positional arguments as they are.
IsBare(fn) == fn.k = "foreign" /\ fn.x[1].bare
bindArguments(fn, positional, named) ==
  CASE ~IsBare(fn) -> bindArgumentsForDispatch(ParamsOf(fn), positional, named)
    [] DOMAIN named = {} -> [i \in DOMAIN positional |-> <<positional[i]>>]
    [] OTHER -> FAILS

\* The host's choice: a foreign function is scored, a function of the
\* program counts as a match without a look at its tags.
DispatchToFunction(members, positional, named) ==
  LET scored(best, m, bound) ==
        IF bound = FAILS THEN best
        ELSE Considered(best, m, evaluateFunctionMatch(ParamsOf(m.fn), bound))
      consider(best, m) ==
        CASE ~Takes(m.sig, ArgCount(positional, named)) -> best
          [] m.fn.k = "fn" -> Considered(best, m, 0)
          [] OTHER -> scored(best, m, bindArgumentsForDispatch(ParamsOf(m.fn), positional, named))
  IN  FoldLeft(consider, NoMatch, members)

\* evalCall on a group: the executor's choice, else the host's.
Resolve(members, positional, named) ==
  LET orHost(own) == IF own.found THEN own ELSE DispatchToFunction(members, positional, named)
  IN  orHost(selectVMFunctionFromGroup(members, positional, named))

\* What popCallArguments makes of the operands: [ok, positional, named].
popCallArguments(plan, args) ==
  LET spreads == {i \in DOMAIN plan : plan[i].kind = "spread"}
      names == {i \in DOMAIN plan : plan[i].kind = "named"}
      part(i) == CASE plan[i].kind = "spread" -> args[i].sub
                   [] plan[i].kind = "named" -> <<>>
                   [] OTHER -> <<args[i]>>
      at(n) == CHOOSE i \in names : plan[i].name = n
  IN  [ok |-> /\ \A i \in spreads : args[i].k = "list"
              /\ \A i, j \in names : plan[i].name = plan[j].name => i = j,
       positional |-> FlattenSeq([i \in DOMAIN plan |-> part(i)]),
       named |-> [n \in {plan[i].name : i \in names} |-> args[at(n)]]]
=============================================================================
