------------------------------- MODULE Typing -------------------------------
(***************************************************************************)
(* The type checker (internal/semantic/typecheck.go), which is an option,  *)
(* against the machine: what the checker says about a program and what the *)
(* program does.                                                           *)
(***************************************************************************)
EXTENDS Semantics

\* One module that exports one function.
ModuleExports == [math |-> [add |-> [tp |-> "", params |-> <<<<"num">>, <<"num">>>>, ret |-> <<"num">>]]]
Chk == INSTANCE Checker WITH Exports <- ModuleExports

Diags == Chk!checkProgram(prog).diags
Ended == out # Running

RECURSIVE Operators(_)
Operators(e) ==
  (IF e.k \in {"infix", "prefix"} THEN {e.name} ELSE {})
    \cup UNION {Operators(e.sub[i]) : i \in DOMAIN e.sub}
    \cup UNION {Operators(e.x[i].body) : i \in IF e.k = "match" THEN DOMAIN e.x ELSE {}}

\* The branches that ran when e ended with a value: the others throw.
RECURSIVE Ran(_)
Ran(e) ==
  LET throws(b) == b.sub # <<>> /\ b.sub[1].k = "throw" IN
  (CASE e.k = "if" /\ throws(e.sub[2]) -> {"unreachable else"}
     [] e.k = "if" /\ Len(e.sub) = 3 /\ throws(e.sub[3]) -> {"unreachable then"}
     [] OTHER -> {})
    \cup UNION {Ran(e.sub[i]) : i \in DOMAIN e.sub}

RECURSIVE DeclaresAny(_)
DeclaresAny(e) ==
  \/ e.k = "fn" /\ \E i \in DOMAIN e.x : e.x[i].ann \in {<<>>, <<"any">>}
  \/ \E i \in DOMAIN e.sub : DeclaresAny(e.sub[i])

-----------------------------------------------------------------------------
\* The diagnostics that say that no value of a type will do, the operators
\* whose operands are checked in every combination, and the programs that use
\* no other operator and declare the type of every parameter.
Certain == {"operand", "append", "prefix", "arity", "annotation", "nilability"}
Checked == {"+", "*", "==", "!=", "&&", "||", "!", "="}
FullyTyped ==
  \A i \in DOMAIN prog : Operators(prog[i]) \subseteq Checked /\ ~DeclaresAny(prog[i])

\* The checker raises an alarm about an operand of -, / or %, about what is
\* appended to, about the number of arguments or about nil in a declaration
\* only when no value of the type will do.  So a program that comes to its end
\* through all its operations has no such alarm: what guards, patterns and
\* assignments take away from a type is never the value that arrives
\* (typecheck.go, collectGuardRefinements, mergeIfOverrides,
\* trackReassignmentType, unify).
NoFalseAlarm == <>[](Ended /\ (IsErr(out) \/ Diags \cap Certain = {}))

\* When the checker has nothing to say about a program whose parameters have
\* declared types, the program does not end at an operand of + or * of a wrong
\* type: what is known of a variable after a branch covers both ways to get
\* there (typecheck.go, isPlusCompatible, isMulCompatible over the narrowed
\* and merged types).
SumsAreSafe == <>[](Ended /\ (out = Err("operand") /\ FullyTyped => Diags # {}))

\* A program that comes to its end did not take a branch the checker calls
\* unreachable (typecheck.go, refineBinding, hasImpossibleRefinement).
UnreachableNeverRuns ==
  <>[](Ended /\ (IsErr(out) \/ \A i \in DOMAIN prog : Diags \cap Ran(prog[i]) = {}))

\* A generic function that returns what its type parameters stand for is not
\* stopped by the check of its result: the types bound from the arguments
\* describe the arguments (executor.go, invokeVMFunction;
\* declared_type_runtime.go, inferRuntimeTypeBindings, runtimeTypeFromObject).
GenericReturns ==
  (At({"return"}) /\ Fr.kind = "call" /\ Fr.fn.x[1].tps # {}) =>
    LET f == Fr.fn.x[1]
        bound == [i \in DOMAIN Fr.slots |-> Fr.slots[i][1]]
        v == IF Depth = 0 THEN Fr.last ELSE Arg(1)
    IN  v.k # "recur" => ReturnAccepted(f.ret, f.tps, f.anns, bound, v)
=============================================================================
