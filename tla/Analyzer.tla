------------------------------ MODULE Analyzer ------------------------------
(***************************************************************************)
(* The semantic analyzer (internal/semantic/analyzer.go): the checks every *)
(* program passes before it is compiled.  The walks are those of the code, *)
(* so that a node they do not enter is not entered here: named arguments,  *)
(* the bodies of spawn and await, defaults of parameters.                  *)
(* A tag of a declaration is the name of its node.                         *)
(***************************************************************************)
EXTENDS Ast, SequencesExt

Stmts(e) == ToSet(e.sub)
IsStatement(e) == e.k \in {"return", "throw", "defer", "foreign"}

-----------------------------------------------------------------------------
(* Tail calls                                                              *)

RECURSIVE markTailCall(_)
checkTailCallsInBlock(b) ==
  /\ b.sub # <<>>
  /\ \A s \in Stmts(b) : s.k # "defer"
  /\ LET last == Last(b.sub) IN
     CASE last.k = "return" -> markTailCall(last.sub[1])
       [] IsStatement(last) -> FALSE
       [] OTHER -> markTailCall(last)
\* Does control leave e through a call?
markTailCall(e) ==
  CASE e.k \in {"call", "recur"} -> TRUE
    [] e.k = "if" -> \E b \in ToSet(Tail(e.sub)) : checkTailCallsInBlock(b)
    [] e.k = "match" -> \E i \in DOMAIN e.x : checkTailCallsInBlock(e.x[i].body)
    [] OTHER -> FALSE

-----------------------------------------------------------------------------
(* recur: is e, in tail position or not, free of misplaced recur?           *)

RECURSIVE validateRecurInExpr(_, _)
validateRecurInBlock(b, inTail) ==
  \A i \in DOMAIN b.sub :
    LET s == b.sub[i] IN
    CASE s.k = "return" -> validateRecurInExpr(s.sub[1], TRUE)
      [] IsStatement(s) -> TRUE
      [] OTHER -> validateRecurInExpr(s, inTail /\ i = Len(b.sub))
validateRecurInExpr(e, inTail) ==
  LET inner(c) == validateRecurInExpr(c, FALSE) IN
  CASE e.k = "recur" -> inTail
    [] e.k = "if" -> /\ inner(e.sub[1])
                     /\ \A i \in 2..Len(e.sub) : validateRecurInBlock(e.sub[i], inTail)
    [] e.k = "match" -> /\ \A i \in DOMAIN e.sub : inner(e.sub[i])
                        /\ \A i \in DOMAIN e.x : /\ \A g \in DOMAIN e.x[i].guard : inner(e.x[i].guard[g])
                                                 /\ validateRecurInBlock(e.x[i].body, inTail)
    [] e.k = "select" -> \A i \in DOMAIN e.x :
                           /\ \A a \in DOMAIN e.x[i].args : inner(e.x[i].args[a])
                           /\ \A h \in DOMAIN e.x[i].handler :
                                validateRecurInExpr(e.x[i].handler[h], inTail)
    [] e.k = "fn" -> validateRecurInBlock(e.sub[1], TRUE)
    [] e.k \in {"call", "typeapp", "prefix", "infix", "list", "map", "index", "slice", "spread"} ->
         \A i \in DOMAIN e.sub : inner(e.sub[i])
    [] OTHER -> TRUE
validateRecurUsage(fn) == validateRecurInBlock(fn.sub[1], TRUE)

\* Every function the walk reaches is validated.
RECURSIVE walkExpressionForFunctions(_)
walkExpressionForFunctions(e) ==
  LET subs == \A i \in DOMAIN e.sub : walkExpressionForFunctions(e.sub[i])
      defaults == \A i \in DOMAIN e.x : \A d \in DOMAIN e.x[i].def :
                    walkExpressionForFunctions(e.x[i].def[d])
      parts(c, f) == \A i \in DOMAIN c[f] : walkExpressionForFunctions(c[f][i])
  IN  CASE e.k = "fn" -> validateRecurUsage(e) /\ subs
        [] e.k = "schema" -> defaults
        [] e.k = "match" -> subs /\ \A i \in DOMAIN e.x : /\ parts(e.x[i], "guard")
                                                          /\ walkExpressionForFunctions(e.x[i].body)
        [] e.k = "select" -> \A i \in DOMAIN e.x : parts(e.x[i], "args") /\ parts(e.x[i], "handler")
        [] e.k \in {"recur", "spawn", "await", "named", "foreign"} -> TRUE
        [] OTHER -> subs

-----------------------------------------------------------------------------
(* Struct schemas stand right of val and var, @main before one function     *)

RECURSIVE containsStructSchema(_)
containsStructSchema(e) ==
  LET subs == \E i \in DOMAIN e.sub : containsStructSchema(e.sub[i]) IN
  CASE e.k = "schema" -> TRUE
    [] e.k = "match" -> \/ subs
                        \/ \E i \in DOMAIN e.x : \/ containsStructSchema(e.x[i].body)
                                                 \/ \E g \in DOMAIN e.x[i].guard :
                                                      containsStructSchema(e.x[i].guard[g])
    [] e.k \in {"val", "var", "recur", "spawn", "await", "named", "foreign"} -> FALSE
    [] OTHER -> subs
validateStructSchemaInStatement(e) ==
  CASE e.k \in {"val", "var"} -> e.sub[1].k = "schema" \/ ~containsStructSchema(e.sub[1])
    [] OTHER -> ~containsStructSchema(e)

MinParams(params) ==
  LET required == {i \in DOMAIN params : params[i].def = <<>> /\ ~params[i].var} IN
  IF required = {} THEN 0 ELSE Max(required)
validateMainTagUsage(prog) ==
  LET tagged == {i \in DOMAIN prog : prog[i].k \in {"val", "var"} /\ prog[i].name = "main"} IN
  /\ Cardinality(tagged) <= 1
  /\ \A i \in tagged : prog[i].sub[1].k = "fn" /\ MinParams(prog[i].sub[1].x) = 0

\* Is the program free of errors, those of types apart?
Analyze(prog) ==
  /\ \A i \in DOMAIN prog : walkExpressionForFunctions(prog[i])
  /\ \A i \in DOMAIN prog : validateStructSchemaInStatement(prog[i])
  /\ validateMainTagUsage(prog)
=============================================================================
